------------------------- MODULE AdapterCalls_proofs -------------------------
(***************************************************************************)
(* Theorems about AdapterCalls, for any set of engines and of pages: no    *)
(* call leaves a search running, and none says "no hits" before every      *)
(* search it owes has answered, or in spite of one that found something.   *)
(***************************************************************************)
EXTENDS AdapterCalls, TLAPS

-----------------------------------------------------------------------------
(* The inductive invariant: what became of the tasks at every await.       *)

Barren == {"none", "failed", "broken"}

\* Of all tasks, those of run were started and nobody cancelled them; those of
\* barren have answered without hits; those of other do not run (any more).
Shape(run, barren, other) ==
    \A t \in Tasks :
        /\ t \in run => task[t] \in Answers \cup {"running"}
        /\ t \in barren => task[t] \in Barren
        /\ t \in other => task[t] # "running"
        /\ t \notin run \cup barren \cup other => task[t] = "unborn"

On(name, a) == call.name = name /\ at = a

SearchStands ==
    \/ On("search_candidates", "attempt") /\ Shape({"attempt"}, {}, {})
    \/ On("search_candidates", "resting") /\ Shape({}, {"attempt"}, {})
    \/ On("search_candidates", "again") /\ Shape({"again"}, {"attempt"}, {})
    \/ On("search_all", "gathering") /\ Shape(Engines, {}, {})
    \/ /\ On("search_first", "watching")
       /\ pending \subseteq Engines /\ Shape(pending, Engines \ pending, {})
    \/ On("search_first", "collecting") /\ Shape({}, {}, Engines)

AcademicStands ==
    \/ On("semantic_scholar", "primary") /\ Shape({"semantic_scholar", "openalex"}, {}, {})
    \/ On("semantic_scholar", "openalex") /\ Shape({"openalex"}, {"semantic_scholar"}, {})
    \/ /\ On("semantic_scholar", "dropping_openalex")
       /\ Shape({}, {}, {"openalex", "semantic_scholar"})
    \/ On("arxiv", "arxiv") /\ Shape({"arxiv"}, {}, {})
    \/ On("arxiv", "hinted") /\ Shape({"hinted"}, {}, {"arxiv"})
    \/ On("arxiv", "fallback") /\ Shape({"fallback"}, {"arxiv"}, {})
    \/ On("asta_mcp", "mcp") /\ Shape({"mcp"}, {}, {})
    \/ /\ On("asta_mcp", "discovery") /\ Shape({"discovery"}, {"mcp"}, {})
       /\ task["mcp"] = "failed"

\* The search that runs beside the registry and the direct sources.
Side == IF IsUsPolicyQuery THEN {"federal"} ELSE {"open_web"}

RegistryStands ==
    \/ /\ On("registry", "race") /\ PrefersDirectSources
       /\ Shape({"registry", "direct"} \cup Side, {}, {})
    \/ /\ On("registry", "registry") /\ ~PrefersDirectSources
       /\ Shape({"registry", "direct"} \cup Side, {}, {})
    \/ /\ On("registry", "direct_first") /\ PrefersDirectSources
       /\ Shape({"direct"} \cup Side, {"registry"}, {})
    \/ /\ On("registry", "registry_second") /\ PrefersDirectSources
       /\ Shape({"registry"} \cup Side, {"direct"}, {})
    \/ /\ On("registry", "federal") /\ IsUsPolicyQuery /\ PrefersDirectSources
       /\ Shape({"federal"}, {"registry", "direct"}, {})
    \/ /\ On("registry", "federal") /\ IsUsPolicyQuery /\ ~PrefersDirectSources
       /\ Shape({"federal", "direct"}, {"registry"}, {})
    \/ /\ On("registry", "direct") /\ IsUsPolicyQuery /\ ~PrefersDirectSources
       /\ Shape({"direct"}, {"registry", "federal"}, {})
    \/ /\ On("registry", "direct") /\ ~IsUsPolicyQuery /\ ~PrefersDirectSources
       /\ Shape({"direct", "open_web"}, {"registry"}, {})
    \/ /\ On("registry", "open_web") /\ IsUsPolicyQuery
       /\ Shape({"open_web"}, {"registry", "direct", "federal"}, {})
    \/ /\ On("registry", "open_web") /\ ~IsUsPolicyQuery
       /\ Shape({"open_web"}, {"registry", "direct"}, {})

\* The pages that are fetched and ranked.
RankedPages == {t \in Candidates : task[t] # "unborn"}

PolicyStands ==
    \/ RegistryStands
    \/ On("direct_sources", "all_direct") /\ Shape(DirectSources, {}, {})
    \/ /\ call.name \in OpenWebNames /\ at = "searching"
       /\ Shape({"search"}, {}, {})
    \/ /\ call.name \in OpenWebNames /\ at = "ranking"
       /\ Shape(RankedPages, {}, {"search"})
    \/ On("registry_client", "title") /\ Shape({"title", "broader"}, {}, {})
    \/ On("registry_client", "broader") /\ Shape({"broader"}, {"title"}, {})

FirstSearches == {"web", "news"}
WebSearches == {"web", "news", "focused", "bing", "ddgs"}

\* web_discovery: every search it has started is pending, to be handled or has been
\* handled; what a handled search found is among the payloads, or still to be ranked.
Bookkeeping ==
    /\ pending \subseteq WebSearches /\ todo \subseteq WebSearches
    /\ \A t \in WebSearches \ pending : task[t] \in Answers \cup {"unborn"}
    /\ \A t \in pending : task[t] \in Answers \cup {"running"}
    /\ \A t \in FirstSearches : task[t] # "unborn"
    /\ \A t \in todo : task[t] # "unborn"
    /\ SecondaryStarted => \A t \in SecondaryTasks : task[t] # "unborn"
    /\ ~Payloads =>
         /\ task["rank"] = "unborn"
         /\ \A t \in WebSearches \ (pending \cup todo) :
                task[t] \in Barren \cup {"unborn"} \/ t = "news"

WebStands ==
    /\ call.name = "web_discovery"
    /\ \A t \in Tasks \ (WebSearches \cup {"ground", "rank"}) : task[t] = "unborn"
    /\ \/ /\ at \in {"watching", "handling"} /\ Bookkeeping
          /\ at = "watching" => todo = {}
          /\ task["rank"] # "running" /\ task["ground"] # "running"
          /\ ~Payloads => task["ground"] \in Barren \cup {"unborn"}
       \/ /\ at = "grounding" /\ Bookkeeping
          /\ task["ground"] \in Answers \cup {"running"} /\ task["rank"] # "running"
       \/ /\ at = "ranking" /\ Bookkeeping /\ Payloads
          /\ task["rank"] \in Answers \cup {"running"} /\ task["ground"] # "running"
       \/ /\ at = "last_ranking" /\ Bookkeeping /\ Payloads
          /\ task["rank"] \in Answers \cup {"running"} /\ task["ground"] # "running"
          /\ pending = {} /\ \A t \in Owed : task[t] # "unborn"
       \/ /\ at = "collecting" /\ RunningTasks = {}

DiscoveryStands ==
    \/ /\ On("ranking_pages", "ranking_pages")
       /\ pending \subseteq Candidates /\ Shape(pending, {}, {})
    \/ /\ On("grounding", "grounding_race") /\ ~Is("direct")
       /\ pending \subseteq {"resolution", "publisher"}
       /\ Shape(pending, {"resolution", "publisher"} \ pending, {})
    \/ WebStands

NewsStands ==
    \/ On("news_rss", "news") /\ Shape({"news", "ddgs"}, {}, {})
    \/ On("news_rss", "yielding") /\ Shape({"ddgs"}, {}, {"news"})
    \/ On("news_rss", "news_race") /\ Shape({"ground", "ddgs"}, {}, {"news"})
    \/ On("news_rss", "news_grounding") /\ Shape({"ground"}, {"ddgs"}, {"news"})
    \/ /\ On("news_rss", "backup")
       /\ RunningTasks \subseteq {"ddgs"} /\ task["ground"] # "hits"
       /\ \A t \in Tasks \ {"news", "ddgs", "ground"} : task[t] = "unborn"
    \/ On("news_rss", "ranking_news") /\ Shape({"rank"}, {}, {"news", "ddgs", "ground"})

\* What was asked for before the last searches about a company.
EarlySteps == {"early", "target", "ir", "sec"}

CompanyStands ==
    /\ call.name \in CompanyCalls
    /\ task["early"] = "hits" => at \in {"early_direct", "early_ir", "early_sec"}
    /\ call.name = "filings" /\ task["ir"] = "hits" /\ at # "ir" => "payloads" \in holds
    /\ \/ at = "early_direct" /\ Shape({"early"}, {}, {})
       \/ at = "target" /\ ShouldQuerySec /\ Shape({"target"}, {}, {"early"})
       \/ at = "ir" /\ ShouldQuerySec /\ Shape({"ir"}, {}, {"early", "target"})
       \/ at = "early_ir" /\ ShouldQuerySec /\ Shape({"early"}, {}, {"target", "ir"})
       \/ at = "sec" /\ ShouldQuerySec /\ Shape({"sec"}, {}, {"early", "target", "ir"})
       \/ /\ at = "early_sec" /\ Shape({"early"}, {}, {"target", "ir", "sec"})
          /\ task["sec"] \in Answers
       \/ /\ at = "official" /\ Shape(OfficialSearches, {}, EarlySteps)
          /\ ShouldQuerySec => task["sec"] \in Answers
       \/ /\ at = "resolving" /\ Shape({"ground"}, {}, EarlySteps \cup OfficialSearches)
          /\ \A t \in Owed : task[t] \in Answers
       \/ /\ at = "ranking_all"
          /\ Shape({"rank"}, {}, EarlySteps \cup OfficialSearches \cup {"ground"})
          /\ \A t \in Owed : task[t] \in Answers

FilingsStands ==
    \/ On("sec_prioritized", "company") /\ Shape({"company"}, {}, {})
    \/ On("sec_prioritized", "filings") /\ Shape({"filings"}, {"company"}, {})
    \/ /\ On("sec_fastest", "sec_race")
       /\ pending \subseteq SecSearches /\ Shape(pending, {}, SecSearches \ pending)
       /\ \A t \in SecSearches \ pending :
              \/ task[t] \in Barren
              \/ task[t] = "weak" /\ holds # {}
    \/ On("sec_fastest", "sec_collecting") /\ Shape({}, {}, SecSearches)
    \/ On("ir_pages", "ir_page") /\ Shape({"ir_page"}, {}, {})
    \/ /\ On("ir_pages", "ir_home") /\ Shape({"ir_home"}, {}, {"ir_page"})
       /\ task["ir_page"] # "hits"
    \/ On("ir_pages", "ir_linked") /\ Shape({"ir_linked"}, {}, {"ir_page", "ir_home"})
    \/ CompanyStands

\* The call has not been cancelled and has not ended.
Stands ==
    \/ at = "start" /\ Shape({}, {}, {}) /\ pending = {} /\ todo = {} /\ holds = {}
    \/ SearchStands \/ AcademicStands \/ PolicyStands
    \/ DiscoveryStands \/ NewsStands \/ FilingsStands

Unmet == IF call.name = "semantic_scholar" THEN {"openalex"} ELSE {}

\* A cancelled call: its handler reaches whatever still runs.
Reached ==
    /\ RunningTasks \subseteq Handled \cup Unmet
    /\ cut = "timer" => call.name \in OpenWebNames

\* A task ends with an answer it can give, or cancelled.
Plain ==
    \A t \in Tasks : task[t] \in Can(t) \cup {"unborn", "running", "cancelling", "cancelled"}

Promises == NothingLeftRunning /\ EmptyIsThorough /\ FoundIsKept

Inv ==
    /\ TypeOK /\ Plain /\ Promises
    /\ ~Over => IF cut = "no" THEN Stands ELSE Reached

-----------------------------------------------------------------------------
(* What every call has in common *)

LEMMA NamedTasks ==
    /\ Roles \subseteq Tasks /\ DirectSources \subseteq Tasks
    /\ Engines \subseteq Tasks /\ Candidates \subseteq Tasks
    /\ \A t \in DirectSources \cup Roles : t \notin Engines /\ t \notin Candidates
    /\ \A t \in Engines : t \notin Candidates
BY AdapterConstants DEF Tasks

\* The answers a task can give are answers, and some tasks cannot give every one.
LEMMA AnswersTyped ==
    ASSUME NEW t \in Tasks
    PROVE  /\ Can(t) \subseteq Answers
           /\ "weak" \in Can(t) =>
                t \in {"arxiv", "sec"} \/ (t \in SecSearches /\ call.name = "sec_fastest")
           /\ t \in Unfailing => Can(t) \subseteq {"hits", "none"}
<1>1. t \in Unfailing => t \notin Candidates /\ t \notin SecSearches
  BY NamedTasks DEF Unfailing, SecSearches, Roles, DirectSources
<1> QED
  BY <1>1 DEF Can, Answers, SecAnswers, BackupAnswers, PublisherAnswers, PageAnswers,
              OfficialPageAnswers, Unfailing, SecSearches, DirectSources

LEMMA OwedTasks == Owed \subseteq Tasks
BY NamedTasks DEF Owed, Roles, DirectSources, SecondaryTasks, OfficialSearches, SecSearches

\* What the list of answers means for a task that has ended.
LEMMA EndedPlainly ==
    ASSUME Plain, NEW t \in Tasks
    PROVE  /\ task[t] = "weak" =>
                t \in {"arxiv", "sec"} \/ (t \in SecSearches /\ call.name = "sec_fastest")
           /\ t \in Unfailing => task[t] \notin {"weak", "failed", "broken"}
BY AnswersTyped DEF Plain

\* Nobody runs but the tasks of run.
LEMMA ShapeRuns ==
    ASSUME NEW run, NEW barren, NEW other, Shape(run, barren, other)
    PROVE  RunningTasks \subseteq run
BY DEF Shape, RunningTasks, Barren

TypedLocals(p, d, h) ==
    p \subseteq Tasks /\ d \subseteq Tasks /\ h \subseteq {"payloads", "hits", "secondary"}

\* The call goes on: only where it stands is left to show.
LEMMA GoesOn ==
    ASSUME Inv, cut = "no", ~Over, NEW a, NEW S \in SUBSET Tasks,
           \/ Start(a, S) \/ Leave(a, S)
           \/ task' = With(Cancelled(S), {"rank"}) /\ UNCHANGED <<call, cut, outcome>>,
           TypedLocals(pending', todo', holds'), Stands'
    PROVE  Inv'
<1>1. /\ call' = call /\ cut' = cut /\ outcome' = outcome
      /\ \A t \in Tasks : task'[t] \in {task[t], "running", "cancelling"}
      /\ DOMAIN task' = Tasks /\ task' = [t \in Tasks |-> task'[t]]
  BY DEF Start, Leave, Started, With, Cancelled
<1>2. TypeOK'
  BY <1>1 DEF Inv, TypeOK, TypedLocals, TaskStates
<1>3. Plain'
  BY <1>1 DEF Inv, Plain, Can, Is
<1>4. Promises' /\ ~Over'
  BY <1>1 DEF Promises, NothingLeftRunning, EmptyIsThorough, FoundIsKept, Over
<1> QED BY <1>1, <1>2, <1>3, <1>4 DEF Inv

Thorough == \A t \in Owed : task[t] \in Answers
NothingLost ==
    \A t \in Tasks \ Leads : task[t] \in {"hits", "weak"} =>
        task["rank"] = "none" /\ t \notin {"rank", "early"}

\* The call ends: it has cancelled whoever still runs, and says "no hits" with reason.
LEMMA Ends ==
    ASSUME Inv, cut = "no", ~Over, NEW r \in Outcomes \ {"none"}, NEW S \in SUBSET Tasks,
           Finish(r, S), TypedLocals(pending', todo', holds'),
           RunningTasks \subseteq S,
           r = "empty" => Thorough /\ NothingLost
    PROVE  Inv'
<1>1. /\ call' = call /\ outcome' = r /\ cut' = cut
      /\ \A t \in Tasks : task'[t] \in {task[t], "cancelling"}
      /\ \A t \in Tasks : task'[t] # "running"
      /\ \A t \in Tasks : task[t] # "running" => task'[t] = task[t]
      /\ task' = [t \in Tasks |-> task'[t]]
  BY DEF Finish, Cancelled, RunningTasks
<1>2. TypeOK'
  BY <1>1 DEF Inv, TypeOK, TypedLocals, TaskStates
<1>3. Plain'
  BY <1>1 DEF Inv, Plain, Can, Is
<1>4. NothingLeftRunning'
  BY <1>1 DEF NothingLeftRunning, RunningTasks
<1>5. EmptyIsThorough'
  <2> SUFFICES ASSUME r = "empty" PROVE Thorough'
    BY <1>1 DEF EmptyIsThorough, Thorough
  <2>1. "mcp" \in Tasks
    BY NamedTasks DEF Roles
  <2>2. Owed' = Owed
    BY <1>1, <2>1 DEF Owed, IsUsPolicyQuery, Is, SecondaryTasks, OfficialSearches,
                      ShouldQuerySec, Thorough
  <2> QED BY <1>1, <2>2, OwedTasks DEF Thorough, Answers
<1>6. FoundIsKept'
  BY <1>1, NamedTasks DEF FoundIsKept, NothingLost, Leads, Roles
<1>7. Over'
  BY <1>1 DEF Over
<1> QED BY <1>2, <1>3, <1>4, <1>5, <1>6, <1>7 DEF Inv, Promises

\* The two usual cases, where the local variables are left alone.
LEMMA Awaits ==
    ASSUME Inv, cut = "no", ~Over, NEW a, NEW S \in SUBSET Tasks, Await(a, S), Stands'
    PROVE  Inv'
BY GoesOn DEF Await, Same, TypedLocals, Inv, TypeOK

LEMMA Returns ==
    ASSUME Inv, cut = "no", ~Over, NEW r \in {"hits", "empty", "raised", "cancelled"},
           NEW S \in SUBSET Tasks, Return(r, S), RunningTasks \subseteq S,
           r = "empty" => Thorough /\ NothingLost
    PROVE  Inv'
BY Ends DEF Return, Same, TypedLocals, Inv, TypeOK, Outcomes

\* Where a call stands that has just been called, and where one of a family does.
LEMMA AtStart ==
    ASSUME Inv, cut = "no", ~Over, at = "start"
    PROVE  /\ Shape({}, {}, {}) /\ RunningTasks = {} /\ NothingLost
           /\ pending = {} /\ todo = {} /\ holds = {}
<1>1. Shape({}, {}, {}) /\ pending = {} /\ todo = {} /\ holds = {}
  BY DEF Inv, Stands, SearchStands, AcademicStands, PolicyStands, RegistryStands,
         DiscoveryStands, WebStands, NewsStands, FilingsStands, CompanyStands, On
<1> QED BY <1>1 DEF Shape, RunningTasks, NothingLost

LEMMA AtAwait ==
    ASSUME Inv, cut = "no", ~Over, at # "start"
    PROVE  /\ call.name \in SearchCallNames => SearchStands
           /\ call.name \in AcademicCallNames => AcademicStands
           /\ call.name \in PolicyCallNames => PolicyStands
           /\ call.name \in DiscoveryCallNames => DiscoveryStands
           /\ call.name \in NewsCallNames => NewsStands
           /\ call.name \in FilingsCallNames => FilingsStands
<1> USE DEF SearchCallNames, AcademicCallNames, PolicyCallNames, DiscoveryCallNames,
            NewsCallNames, FilingsCallNames, CompanyCalls, OpenWebNames, On
<1>1. SearchStands \/ AcademicStands \/ PolicyStands \/ DiscoveryStands \/ NewsStands
      \/ FilingsStands
  BY DEF Inv, Stands
<1>2. SearchStands => call.name \in SearchCallNames
  BY DEF SearchStands
<1>3. AcademicStands => call.name \in AcademicCallNames
  BY DEF AcademicStands
<1>4. PolicyStands => call.name \in PolicyCallNames
  BY DEF PolicyStands, RegistryStands
<1>5. DiscoveryStands => call.name \in DiscoveryCallNames
  BY DEF DiscoveryStands, WebStands
<1>6. NewsStands => call.name \in NewsCallNames
  BY DEF NewsStands
<1>7. FilingsStands => call.name \in FilingsCallNames
  BY DEF FilingsStands, CompanyStands
<1> QED BY <1>1, <1>2, <1>3, <1>4, <1>5, <1>6, <1>7

\* The last searches have answered: nobody runs, and if they found nothing, nothing
\* was found.
LEMMA LastAnswers ==
    ASSUME NEW run \in SUBSET Tasks, NEW barren, Shape(run, barren, {}), AllEnded(run)
    PROVE  /\ RunningTasks = {}
           /\ \A t \in Tasks : t \in run \cup barren => task[t] \in Answers
           /\ (\A t \in run : task[t] \notin {"hits", "weak"}) => NothingLost
BY DEF Shape, AllEnded, Ended, RunningTasks, Answers, Barren, NothingLost

LEMMA LastAnswer ==
    ASSUME Inv, NEW x \in Tasks, NEW barren, Shape({x}, barren, {}), Ended(x),
           x \notin {"arxiv", "sec"} \cup SecSearches
    PROVE  /\ RunningTasks = {}
           /\ task[x] \in Answers /\ \A t \in Tasks : t \in barren => task[t] \in Answers
           /\ ~Got(x) => task[x] \in Barren /\ NothingLost
<1>1. task[x] \in Answers \ {"weak"}
  BY EndedPlainly DEF Shape, Ended, Answers, Inv
<1> QED BY <1>1 DEF Shape, RunningTasks, Answers, Barren, NothingLost, Got

-----------------------------------------------------------------------------
(* The academic calls *)

LEMMA AcademicStart ==
    ASSUME Inv, AcademicFixture \/ AskSemanticScholar \/ AskArxiv \/ AskAsta
    PROVE  Inv'
<1> USE NamedTasks DEF Roles, At
<1>1. Shape({}, {}, {}) /\ RunningTasks = {} /\ cut = "no" /\ ~Over
  BY AtStart DEF AcademicFixture, AskSemanticScholar, AskArxiv, AskAsta
<1>2. CASE AcademicFixture
  BY <1>1, <1>2, Returns DEF AcademicFixture
<1>3. CASE AskSemanticScholar
  <2>1. Shape({"semantic_scholar", "openalex"}, {}, {})'
    BY <1>1, <1>3 DEF AskSemanticScholar, Await, Start, Started, With, Shape
  <2>2. Stands'
    BY <1>3, <2>1 DEF AskSemanticScholar, Await, Start, Stands, AcademicStands, On
  <2> QED BY <1>1, <1>3, <2>2, Awaits DEF AskSemanticScholar
<1>4. CASE AskArxiv
  <2>1. Shape({"arxiv"}, {}, {})'
    BY <1>1, <1>4 DEF AskArxiv, Await, Start, Started, With, Shape
  <2>2. Stands'
    BY <1>4, <2>1 DEF AskArxiv, Await, Start, Stands, AcademicStands, On
  <2> QED BY <1>1, <1>4, <2>2, Awaits DEF AskArxiv
<1>5. CASE AskAsta
  <2>1. Shape({"mcp"}, {}, {})'
    BY <1>1, <1>5 DEF AskAsta, Await, Start, Started, With, Shape
  <2>2. Stands'
    BY <1>5, <2>1 DEF AskAsta, Await, Start, Stands, AcademicStands, On
  <2> QED BY <1>1, <1>5, <2>2, Awaits DEF AskAsta
<1> QED BY <1>2, <1>3, <1>4, <1>5

LEMMA SemanticScholarAnsweredKeeps == ASSUME Inv, SemanticScholarAnswered PROVE Inv'
<1> USE NamedTasks DEF Roles
<1>1. Shape({"semantic_scholar", "openalex"}, {}, {}) /\ cut = "no" /\ ~Over
      /\ call.name = "semantic_scholar" /\ Ended("semantic_scholar")
  BY AtAwait DEF SemanticScholarAnswered, At, AcademicCallNames, AcademicStands, On
<1>2. CASE /\ Got("semantic_scholar") /\ Leave("dropping_openalex", {"openalex"})
           /\ holds' = {"hits"} /\ UNCHANGED <<pending, todo>>
  <2>1. Shape({}, {}, {"openalex", "semantic_scholar"})'
    BY <1>1, <1>2 DEF Leave, Cancelled, Shape, Got
  <2>2. Stands'
    BY <1>1, <1>2, <2>1 DEF Leave, Stands, AcademicStands, On
  <2> QED BY <1>1, <1>2, <2>2, GoesOn DEF TypedLocals, Inv, TypeOK
<1>3. CASE Got("semantic_scholar") /\ Ended("openalex") /\ Return("hits", {})
  <2>1. RunningTasks = {}
    BY <1>1, <1>3 DEF RunningTasks, Shape, Ended, Answers
  <2> QED BY <1>1, <1>3, <2>1, Returns
<1>4. CASE ~Got("semantic_scholar") /\ Await("openalex", {})
  <2>1. task["semantic_scholar"] \in Barren
    BY <1>1, <1>4, EndedPlainly DEF Got, Shape, Ended, Answers, Barren, Inv, SecSearches
  <2>2. Shape({"openalex"}, {"semantic_scholar"}, {})'
    BY <1>1, <1>4, <2>1 DEF Await, Start, Started, With, Shape
  <2>3. Stands'
    BY <1>1, <1>4, <2>2 DEF Await, Start, Stands, AcademicStands, On
  <2> QED BY <1>1, <1>4, <2>3, Awaits
<1> QED BY <1>2, <1>3, <1>4 DEF SemanticScholarAnswered

LEMMA OpenAlexKeeps == ASSUME Inv, OpenAlexDropped \/ OpenAlexAnswered PROVE Inv'
<1> USE NamedTasks DEF Roles
<1>1. CASE OpenAlexDropped
  <2>1. RunningTasks = {}
    BY <1>1, AtAwait, ShapeRuns DEF OpenAlexDropped, At, AcademicCallNames, AcademicStands, On
  <2> QED BY <1>1, <2>1, Returns DEF OpenAlexDropped, At
<1>2. CASE OpenAlexAnswered
  <2>1. Shape({"openalex"}, {"semantic_scholar"}, {})
    BY <1>2, AtAwait DEF OpenAlexAnswered, At, AcademicCallNames, AcademicStands, On
  <2>2. /\ RunningTasks = {} /\ (~Got("openalex") => NothingLost)
        /\ task["openalex"] \in Answers /\ task["semantic_scholar"] \in Answers
    BY <1>2, <2>1, LastAnswer DEF OpenAlexAnswered, SecSearches
  <2>3. Thorough
    BY <1>2, <2>2 DEF OpenAlexAnswered, At, Thorough, Owed, CompanyCalls
  <2> QED BY <1>2, <2>2, <2>3, Returns DEF OpenAlexAnswered, At, ReturnIf
<1> QED BY <1>1, <1>2

LEMMA ArxivAnsweredKeeps == ASSUME Inv, ArxivAnswered PROVE Inv'
<1> USE NamedTasks DEF Roles
<1>1. Shape({"arxiv"}, {}, {}) /\ call.name = "arxiv" /\ cut = "no" /\ ~Over
      /\ task["arxiv"] # "running"
  BY AtAwait DEF ArxivAnswered, At, AcademicCallNames, AcademicStands, On, Ended, Answers
<1>2. CASE Await("hinted", {"hinted"})
  <2>1. Shape({"hinted"}, {}, {"arxiv"})'
    BY <1>1, <1>2 DEF Await, Start, Started, With, Shape
  <2>2. Stands'
    BY <1>1, <1>2, <2>1 DEF Stands, AcademicStands, On, Await, Start
  <2> QED BY <1>1, <1>2, <2>2, Awaits
<1>3. CASE Return("hits", {})
  <2>1. RunningTasks = {}
    BY <1>1 DEF RunningTasks, Shape
  <2> QED BY <1>1, <1>3, <2>1, Returns
<1>4. CASE WithoutHits("arxiv") /\ Await("fallback", {"fallback"})
  <2>1. Shape({"fallback"}, {"arxiv"}, {})'
    BY <1>1, <1>4 DEF WithoutHits, Await, Start, Started, With, Shape, Barren
  <2>2. Stands'
    BY <1>1, <1>4, <2>1 DEF Stands, AcademicStands, On, Await, Start
  <2> QED BY <1>1, <1>4, <2>2, Awaits
<1> QED BY <1>2, <1>3, <1>4 DEF ArxivAnswered

LEMMA BehindArxivKeeps == ASSUME Inv, HintedAnswered \/ FallbackAnswered PROVE Inv'
<1> USE NamedTasks DEF Roles
<1>1. CASE HintedAnswered
  <2>1. Shape({"hinted"}, {}, {"arxiv"})
    BY <1>1, AtAwait DEF HintedAnswered, At, AcademicCallNames, AcademicStands, On
  <2>2. RunningTasks = {}
    BY <1>1, <2>1 DEF HintedAnswered, RunningTasks, Shape, Ended, Answers
  <2> QED BY <1>1, <2>2, Returns DEF HintedAnswered, At
<1>2. CASE FallbackAnswered
  <2>1. Shape({"fallback"}, {"arxiv"}, {})
    BY <1>2, AtAwait DEF FallbackAnswered, At, AcademicCallNames, AcademicStands, On
  <2>2. /\ RunningTasks = {} /\ (~Got("fallback") => NothingLost)
        /\ task["fallback"] \in Answers /\ task["arxiv"] \in Answers
    BY <1>2, <2>1, LastAnswer DEF FallbackAnswered, SecSearches
  <2>3. Thorough
    BY <1>2, <2>2 DEF FallbackAnswered, At, Thorough, Owed, CompanyCalls
  <2> QED BY <1>2, <2>2, <2>3, Returns DEF FallbackAnswered, At, ReturnIf
<1> QED BY <1>1, <1>2

LEMMA AstaKeeps == ASSUME Inv, AstaAnswered \/ DiscoveryAnswered PROVE Inv'
<1> USE NamedTasks DEF Roles
<1>1. CASE AstaAnswered
  <2>1. Shape({"mcp"}, {}, {}) /\ call.name = "asta_mcp" /\ cut = "no" /\ ~Over
        /\ task["mcp"] # "running"
    BY <1>1, AtAwait DEF AstaAnswered, At, AcademicCallNames, AcademicStands, On, Ended,
                         Answers
  <2>2. RunningTasks = {}
    BY <2>1 DEF RunningTasks, Shape
  <2>3. CASE Got("mcp") /\ Return("hits", {})
    BY <2>1, <2>2, <2>3, Returns
  <2>4. CASE task["mcp"] = "none" /\ Return("empty", {})
    <3>1. Thorough /\ NothingLost
      BY <2>1, <2>4 DEF Thorough, NothingLost, Owed, CompanyCalls, Shape, Answers
    <3> QED BY <2>1, <2>2, <2>4, <3>1, Returns
  <2>5. CASE task["mcp"] = "failed" /\ Await("discovery", {"discovery"})
    <3>1. Shape({"discovery"}, {"mcp"}, {})' /\ task'["mcp"] = "failed"
      BY <2>1, <2>5 DEF Await, Start, Started, With, Shape, Barren
    <3>2. Stands'
      BY <2>1, <2>5, <3>1 DEF Stands, AcademicStands, On, Await, Start
    <3> QED BY <2>1, <2>5, <3>2, Awaits
  <2> QED BY <1>1, <2>3, <2>4, <2>5 DEF AstaAnswered
<1>2. CASE DiscoveryAnswered
  <2>1. Shape({"discovery"}, {"mcp"}, {})
    BY <1>2, AtAwait DEF DiscoveryAnswered, At, AcademicCallNames, AcademicStands, On
  <2>2. /\ RunningTasks = {} /\ (~Got("discovery") => NothingLost)
        /\ task["discovery"] \in Answers /\ task["mcp"] \in Answers
    BY <1>2, <2>1, LastAnswer DEF DiscoveryAnswered, SecSearches
  <2>3. Thorough
    BY <1>2, <2>2 DEF DiscoveryAnswered, At, Thorough, Owed, CompanyCalls
  <2> QED BY <1>2, <2>2, <2>3, Returns DEF DiscoveryAnswered, At, ReturnIf
<1> QED BY <1>1, <1>2

LEMMA AcademicKeeps == ASSUME Inv, AcademicResumes PROVE Inv'
BY AcademicStart, SemanticScholarAnsweredKeeps, OpenAlexKeeps, ArxivAnsweredKeeps,
   BehindArxivKeeps, AstaKeeps DEF AcademicResumes

-----------------------------------------------------------------------------
(* One engine, and several *)

LEMMA OneEngineKeeps ==
    ASSUME Inv, AskEngine \/ EngineAnswered \/ AskAgain \/ AnsweredAgain PROVE Inv'
<1> USE NamedTasks DEF Roles
<1>1. CASE AskEngine
  <2>1. Shape({"attempt"}, {}, {})'
    BY <1>1, AtStart DEF AskEngine, At, Await, Start, Started, With, Shape
  <2>2. Stands'
    BY <1>1, <2>1 DEF AskEngine, At, Await, Start, Stands, SearchStands, On
  <2> QED BY <1>1, <2>2, Awaits DEF AskEngine, At
<1>2. CASE EngineAnswered
  <2>1. Shape({"attempt"}, {}, {}) /\ call.name = "search_candidates" /\ cut = "no" /\ ~Over
    BY <1>2, AtAwait DEF EngineAnswered, At, SearchCallNames, SearchStands, On
  <2>2. RunningTasks = {} /\ (~Got("attempt") => NothingLost)
    BY <1>2, <2>1, LastAnswer DEF EngineAnswered, SecSearches
  <2>3. Owed = {}
    BY <2>1 DEF Owed, CompanyCalls
  <2>4. ASSUME NEW r \in {"hits", "empty", "raised"}, Return(r, {}), r # "hits" => ~Got("attempt")
        PROVE  Inv'
    BY <2>1, <2>2, <2>3, <2>4, Returns DEF Thorough
  <2>5. CASE task["attempt"] = "failed" /\ Await("resting", {})
    <3>1. Shape({}, {"attempt"}, {})'
      BY <2>1, <2>5 DEF Await, Start, Started, With, Shape, Barren
    <3>2. Stands'
      BY <2>1, <2>5, <3>1 DEF Await, Start, Stands, SearchStands, On
    <3> QED BY <2>1, <2>5, <3>2, Awaits
  <2> QED BY <1>2, <2>4, <2>5 DEF EngineAnswered, Got
<1>3. CASE AskAgain
  <2>1. Shape({}, {"attempt"}, {}) /\ call.name = "search_candidates" /\ cut = "no" /\ ~Over
    BY <1>3, AtAwait DEF AskAgain, At, SearchCallNames, SearchStands, On
  <2>2. Shape({"again"}, {"attempt"}, {})'
    BY <1>3, <2>1 DEF AskAgain, Await, Start, Started, With, Shape
  <2>3. Stands'
    BY <1>3, <2>1, <2>2 DEF AskAgain, Await, Start, Stands, SearchStands, On
  <2> QED BY <1>3, <2>1, <2>3, Awaits DEF AskAgain
<1>4. CASE AnsweredAgain
  <2>1. Shape({"again"}, {"attempt"}, {}) /\ call.name = "search_candidates" /\ cut = "no"
        /\ ~Over
    BY <1>4, AtAwait DEF AnsweredAgain, At, SearchCallNames, SearchStands, On
  <2>2. RunningTasks = {} /\ (~Got("again") => NothingLost)
    BY <1>4, <2>1, LastAnswer DEF AnsweredAgain, SecSearches
  <2>3. Owed = {}
    BY <2>1 DEF Owed, CompanyCalls
  <2>4. ASSUME NEW r \in {"hits", "empty", "raised"}, Return(r, {}), r # "hits" => ~Got("again")
        PROVE  Inv'
    BY <2>1, <2>2, <2>3, <2>4, Returns DEF Thorough
  <2> QED BY <1>4, <2>4 DEF AnsweredAgain, Got
<1> QED BY <1>1, <1>2, <1>3, <1>4

\* What an engine answers is found, or nothing.
LEMMA EnginesPlain ==
    ASSUME Inv, NEW t \in Engines
    PROVE  task[t] # "weak"
BY EndedPlainly, NamedTasks DEF Inv, Roles, SecSearches

LEMMA AllEnginesKeep == ASSUME Inv, AskAll \/ AllAnswered PROVE Inv'
<1> USE NamedTasks
<1>1. CASE AskAll
  <2>1. Shape(Engines, {}, {})'
    BY <1>1, AtStart DEF AskAll, At, Await, Start, Started, With, Shape
  <2>2. Stands'
    BY <1>1, <2>1 DEF AskAll, At, Await, Start, Stands, SearchStands, On
  <2> QED BY <1>1, <2>2, Awaits DEF AskAll, At
<1>2. CASE AllAnswered
  <2>1. Shape(Engines, {}, {}) /\ call.name = "search_all" /\ cut = "no" /\ ~Over
    BY <1>2, AtAwait DEF AllAnswered, At, SearchCallNames, SearchStands, On
  <2>2. RunningTasks = {} /\ (\A t \in Engines : task[t] \in Answers)
    BY <1>2, <2>1, LastAnswers DEF AllAnswered
  <2>3. ~Usable(Engines) => NothingLost
    BY <1>2, <2>1, LastAnswers, EnginesPlain DEF AllAnswered, Usable, Got
  <2>4. Thorough
    BY <2>1, <2>2 DEF Thorough, Owed, CompanyCalls
  <2> QED BY <1>2, <2>1, <2>2, <2>3, <2>4, Returns DEF AllAnswered, ReturnIf
<1> QED BY <1>1, <1>2

LEMMA AskFirstKeeps == ASSUME Inv, AskFirst PROVE Inv'
<1> USE NamedTasks
<1>1. Shape(Engines, {}, {})'
  BY AtStart DEF AskFirst, At, Start, Started, With, Shape
<1>2. Stands'
  <2>1. Shape(pending, Engines \ pending, {})'
    BY <1>1 DEF AskFirst, Shape
  <2> QED BY <2>1 DEF AskFirst, At, Start, Stands, SearchStands, On
<1> QED BY <1>2, GoesOn DEF AskFirst, At, TypedLocals, Inv, TypeOK

LEMMA SomeAnsweredKeeps == ASSUME Inv, SomeAnswered PROVE Inv'
<1> USE NamedTasks
<1> DEFINE done == {t \in pending : Ended(t)}
           left == pending \ done
<1>1. /\ pending \subseteq Engines /\ Shape(pending, Engines \ pending, {})
      /\ call.name = "search_first" /\ cut = "no" /\ ~Over
  BY AtAwait DEF SomeAnswered, At, SearchCallNames, SearchStands, On
<1>2. RunningTasks \subseteq left
  BY <1>1 DEF RunningTasks, Shape, Ended, Answers, Barren
<1>3. TypedLocals(left, todo, {"hits"}) /\ TypedLocals(left, todo, holds)
  BY <1>1 DEF TypedLocals, Inv, TypeOK
<1>4. CASE SettleForFirst(left)
  <2>1. CASE left = {}
    BY <1>1, <1>2, <1>3, <1>4, <2>1, Ends DEF SettleForFirst, Outcomes
  <2>2. CASE left # {}
    <3>1. Leave("collecting", left)
      BY <1>4, <2>2 DEF SettleForFirst
    <3>2. Shape({}, {}, Engines)'
      BY <1>1, <1>2, <3>1 DEF Leave, Cancelled, Shape, RunningTasks
    <3>3. Stands'
      BY <1>1, <3>1, <3>2 DEF Leave, Stands, SearchStands, On
    <3> QED BY <1>1, <1>3, <1>4, <3>1, <3>3, GoesOn DEF SettleForFirst
  <2> QED BY <2>1, <2>2
<1>5. CASE /\ ~Usable(done) /\ pending' = left /\ UNCHANGED <<todo, holds>>
           /\ IF left = {} THEN Finish("empty", {}) ELSE Leave("watching", {})
  <2>1. \A t \in done : task[t] \in Barren
    BY <1>1, <1>5, EnginesPlain DEF Usable, Got, Shape, Ended, Answers, Barren
  <2>2. CASE left = {}
    <3>1. \A t \in Engines : task[t] \in Barren
      BY <1>1, <2>1, <2>2 DEF Shape
    <3>2. RunningTasks = {}
      BY <1>2, <2>2
    <3>3. Thorough
      BY <1>1, <3>1 DEF Thorough, Owed, CompanyCalls, Barren, Answers
    <3>4. NothingLost
      BY <1>1, <3>1 DEF NothingLost, Shape, Barren
    <3> QED BY <1>1, <1>3, <1>5, <2>2, <3>2, <3>3, <3>4, Ends DEF Outcomes
  <2>3. CASE left # {}
    <3>1. Shape(left, Engines \ left, {})
      BY <1>1, <2>1 DEF Shape
    <3>2. Shape(pending, Engines \ pending, {})' /\ pending' \subseteq Engines
      BY <1>1, <1>5, <2>3, <3>1 DEF Leave, Cancelled, Shape
    <3>3. Stands'
      BY <1>1, <1>5, <2>3, <3>2 DEF Leave, Stands, SearchStands, On
    <3> QED BY <1>1, <1>3, <1>5, <2>3, <3>3, GoesOn
  <2> QED BY <2>2, <2>3
<1> QED BY <1>4, <1>5 DEF SomeAnswered

LEMMA LosersCollectedKeeps == ASSUME Inv, LosersCollected PROVE Inv'
<1>1. RunningTasks = {}
  BY AtAwait, ShapeRuns DEF LosersCollected, At, SearchCallNames, SearchStands, On
<1> QED BY <1>1, Returns DEF LosersCollected, At

LEMMA SearchKeeps == ASSUME Inv, SearchResumes PROVE Inv'
BY OneEngineKeeps, AllEnginesKeep, AskFirstKeeps, SomeAnsweredKeeps, LosersCollectedKeeps
   DEF SearchResumes

-----------------------------------------------------------------------------
(* The registry's search_live *)

LEMMA RegistryStart == ASSUME Inv, RegistryFixture \/ AskRegistry PROVE Inv'
<1> USE NamedTasks DEF Roles
<1>1. Shape({}, {}, {}) /\ RunningTasks = {} /\ cut = "no" /\ ~Over
  BY AtStart DEF RegistryFixture, AskRegistry, At
<1>2. CASE RegistryFixture
  BY <1>1, <1>2, Returns DEF RegistryFixture
<1>3. CASE AskRegistry
  <2> DEFINE S == {"registry", "direct"} \cup Side
  <2>1. PICK a \in {"race", "registry"} :
            Await(a, S) /\ (a = "race" <=> PrefersDirectSources)
    BY <1>3 DEF AskRegistry, Side
  <2>2. Shape(S, {}, {})'
    BY <1>1, <2>1 DEF Await, Start, Started, With, Shape, Side, IsUsPolicyQuery, Is
  <2>3. Stands'
    BY <1>3, <2>1, <2>2 DEF AskRegistry, At, Await, Start, Stands, PolicyStands,
                            RegistryStands, On, PrefersDirectSources, Is
  <2> QED BY <1>1, <2>1, <2>3, Awaits DEF Side
<1> QED BY <1>2, <1>3

\* The call settles for a source when every other one is superfluous.
LEMMA Settles ==
    ASSUME Inv, cut = "no", ~Over, NEW t \in {"registry", "direct", "federal"},
           SettleFor(t), NEW run \in SUBSET {"registry", "direct", "federal", "open_web"},
           NEW barren, Shape(run, barren, {}), Ended(t)
    PROVE  Inv'
<1>1. RunningTasks \subseteq Superfluous(t)
  BY ShapeRuns DEF Superfluous, RunningTasks, Ended, Answers
<1>2. Superfluous(t) \subseteq Tasks
  BY NamedTasks DEF Superfluous, Roles
<1> QED BY <1>1, <1>2, Returns DEF SettleFor

LEMMA OnToOpenWeb ==
    ASSUME Inv, cut = "no", ~Over, call.name = "registry", AwaitOpenWeb,
           IF IsUsPolicyQuery THEN Shape({}, {"registry", "direct", "federal"}, {})
                              ELSE Shape({"open_web"}, {"registry", "direct"}, {})
    PROVE  Inv'
<1> USE NamedTasks DEF Roles
<1>1. PICK S \in {{}, {"open_web"}} :
          Await("open_web", S) /\ (S = {"open_web"} <=> task["open_web"] = "unborn")
  BY DEF AwaitOpenWeb
<1>2. CASE IsUsPolicyQuery
  <2>1. Shape({"open_web"}, {"registry", "direct", "federal"}, {})'
    BY <1>1, <1>2 DEF Await, Start, Started, With, Shape
  <2> QED BY <1>1, <1>2, <2>1, Awaits DEF Await, Start, Stands, PolicyStands,
             RegistryStands, On, IsUsPolicyQuery, Is
<1>3. CASE ~IsUsPolicyQuery
  <2>1. Shape({"open_web"}, {"registry", "direct"}, {})'
    BY <1>1, <1>3 DEF Await, Start, Started, With, Shape, Answers
  <2> QED BY <1>1, <1>3, <2>1, Awaits DEF Await, Start, Stands, PolicyStands,
             RegistryStands, On, IsUsPolicyQuery, Is
<1> QED BY <1>2, <1>3

\* The registry and the preferred direct sources have found nothing.
LEMMA OnFromDirectFirst ==
    ASSUME Inv, cut = "no", ~Over, call.name = "registry", PrefersDirectSources,
           AfterDirectFirst, Shape(Side, {"registry", "direct"}, {})
    PROVE  Inv'
<1> USE NamedTasks DEF Roles
<1>1. CASE IsUsPolicyQuery
  <2>1. Await("federal", {})
    BY <1>1 DEF AfterDirectFirst
  <2>2. Shape({"federal"}, {"registry", "direct"}, {})'
    BY <1>1, <2>1 DEF Side, Await, Start, Started, With, Shape
  <2>3. Stands'
    BY <1>1, <2>1, <2>2 DEF Await, Start, Stands, PolicyStands, RegistryStands, On,
                            IsUsPolicyQuery, PrefersDirectSources, Is
  <2> QED BY <2>1, <2>3, Awaits
<1>2. CASE ~IsUsPolicyQuery
  BY <1>2, OnToOpenWeb DEF AfterDirectFirst, Side
<1> QED BY <1>1, <1>2

\* The registry, asked first, has found nothing.
LEMMA OnFromRegistry ==
    ASSUME Inv, cut = "no", ~Over, call.name = "registry", ~PrefersDirectSources,
           AfterRegistry, Shape({"direct"} \cup Side, {"registry"}, {})
    PROVE  Inv'
<1> USE NamedTasks DEF Roles
<1>1. CASE IsUsPolicyQuery
  <2>1. Await("federal", {})
    BY <1>1 DEF AfterRegistry
  <2>2. Shape({"federal", "direct"}, {"registry"}, {})'
    BY <1>1, <2>1 DEF Side, Await, Start, Started, With, Shape
  <2>3. Stands'
    BY <1>1, <2>1, <2>2 DEF Await, Start, Stands, PolicyStands, RegistryStands, On,
                            IsUsPolicyQuery, PrefersDirectSources, Is
  <2> QED BY <2>1, <2>3, Awaits
<1>2. CASE ~IsUsPolicyQuery
  <2>1. Await("direct", {})
    BY <1>2 DEF AfterRegistry
  <2>2. Shape({"direct", "open_web"}, {"registry"}, {})'
    BY <1>2, <2>1 DEF Side, Await, Start, Started, With, Shape
  <2>3. Stands'
    BY <1>2, <2>1, <2>2 DEF Await, Start, Stands, PolicyStands, RegistryStands, On,
                            IsUsPolicyQuery, PrefersDirectSources, Is
  <2> QED BY <2>1, <2>3, Awaits
<1> QED BY <1>1, <1>2

\* A task of the registry's call that has ended without hits.
LEMMA EndedBarren ==
    ASSUME Inv, NEW t \in {"registry", "direct", "federal", "open_web"},
           Ended(t), ~Got(t), task[t] \in Answers \cup {"running"}
    PROVE  task[t] \in Barren
BY EndedPlainly, NamedTasks DEF Inv, Roles, SecSearches, Ended, Got, Answers, Barren

LEMMA RacedKeeps == ASSUME Inv, Raced PROVE Inv'
<1> USE NamedTasks DEF Roles
<1> DEFINE R == {"registry", "direct"} \cup Side
<1>1. /\ Shape(R, {}, {}) /\ call.name = "registry" /\ cut = "no" /\ ~Over
      /\ PrefersDirectSources
      /\ R \subseteq {"registry", "direct", "federal", "open_web"}
  BY AtAwait DEF Raced, At, PolicyCallNames, PolicyStands, RegistryStands, On, OpenWebNames,
                 Side
<1>2. ASSUME NEW t \in {"registry", "direct"}, Got(t), SettleFor(t) PROVE Inv'
  BY <1>1, <1>2, Settles DEF Got, Ended, Answers
<1>3. ASSUME ~Got("direct"), WithoutHits("registry"), Ended("direct"), AfterDirectFirst
      PROVE  Inv'
  <2>1. task["direct"] \in Barren
    BY <1>1, <1>3, EndedBarren DEF Shape
  <2>2. Shape(Side, {"registry", "direct"}, {})
    BY <1>1, <1>3, <2>1 DEF Shape, WithoutHits, Barren
  <2> QED BY <1>1, <1>3, <2>2, OnFromDirectFirst
<1>4. ASSUME WithoutHits("registry"), Await("direct_first", {}) PROVE Inv'
  <2>1. Shape({"direct"} \cup Side, {"registry"}, {})'
    BY <1>1, <1>4 DEF Await, Start, Started, With, Shape, WithoutHits, Barren, Side,
                      IsUsPolicyQuery, Is
  <2>2. Stands'
    BY <1>1, <1>4, <2>1 DEF Await, Start, Stands, PolicyStands, RegistryStands, On,
                            PrefersDirectSources, Is
  <2> QED BY <1>1, <1>4, <2>2, Awaits
<1>5. ASSUME WithoutHits("direct"), Await("registry_second", {}) PROVE Inv'
  <2>1. Shape({"registry"} \cup Side, {"direct"}, {})'
    BY <1>1, <1>5 DEF Await, Start, Started, With, Shape, WithoutHits, Barren, Side,
                      IsUsPolicyQuery, Is
  <2>2. Stands'
    BY <1>1, <1>5, <2>1 DEF Await, Start, Stands, PolicyStands, RegistryStands, On,
                            PrefersDirectSources, Is
  <2> QED BY <1>1, <1>5, <2>2, Awaits
<1> QED BY <1>2, <1>3, <1>4, <1>5 DEF Raced

LEMMA RegistryAnsweredKeeps == ASSUME Inv, RegistryAnswered PROVE Inv'
<1> DEFINE R == {"registry", "direct"} \cup Side
<1>1. /\ Shape(R, {}, {}) /\ call.name = "registry" /\ cut = "no" /\ ~Over
      /\ ~PrefersDirectSources
      /\ R \subseteq {"registry", "direct", "federal", "open_web"}
  BY AtAwait DEF RegistryAnswered, At, PolicyCallNames, PolicyStands, RegistryStands, On,
                 OpenWebNames, Side
<1>2. ASSUME Got("registry"), SettleFor("registry") PROVE Inv'
  BY <1>1, <1>2, Settles DEF Got, Ended, Answers
<1>3. ASSUME ~Got("registry"), AfterRegistry PROVE Inv'
  <2>1. task["registry"] \in Barren
    BY <1>1, <1>3, EndedBarren, NamedTasks DEF RegistryAnswered, Shape, Roles
  <2>2. Shape({"direct"} \cup Side, {"registry"}, {})
    BY <1>1, <2>1 DEF Shape
  <2> QED BY <1>1, <1>3, <2>2, OnFromRegistry
<1> QED BY <1>2, <1>3 DEF RegistryAnswered

LEMMA SecondOfRaceKeeps == ASSUME Inv, RegistryAnsweredSecond \/ DirectFirstAnswered PROVE Inv'
<1>1. PICK x, y \in {"registry", "direct"} :
        /\ x # y /\ Shape({x} \cup Side, {y}, {}) /\ Ended(x)
        /\ IF Got(x) THEN SettleFor(x) ELSE AfterDirectFirst
  BY AtAwait DEF RegistryAnsweredSecond, DirectFirstAnswered, At, PolicyCallNames,
                 PolicyStands, RegistryStands, On, OpenWebNames
<1>2. /\ call.name = "registry" /\ cut = "no" /\ ~Over /\ PrefersDirectSources
      /\ {x} \cup Side \subseteq {"registry", "direct", "federal", "open_web"}
  BY AtAwait DEF RegistryAnsweredSecond, DirectFirstAnswered, At, PolicyCallNames,
                 PolicyStands, RegistryStands, On, OpenWebNames, Side
<1>3. CASE Got(x)
  BY <1>1, <1>2, <1>3, Settles
<1>4. CASE ~Got(x)
  <2>1. task[x] \in Barren
    BY <1>1, <1>4, EndedBarren, NamedTasks DEF Shape, Roles
  <2>2. Shape(Side, {"registry", "direct"}, {})
    BY <1>1, <2>1 DEF Shape
  <2> QED BY <1>1, <1>2, <1>4, <2>2, OnFromDirectFirst
<1> QED BY <1>3, <1>4

LEMMA FederalAnsweredKeeps == ASSUME Inv, FederalAnswered PROVE Inv'
<1> USE NamedTasks DEF Roles
<1>1. /\ call.name = "registry" /\ cut = "no" /\ ~Over /\ IsUsPolicyQuery /\ Ended("federal")
      /\ IF PrefersDirectSources THEN Shape({"federal"}, {"registry", "direct"}, {})
                                 ELSE Shape({"federal", "direct"}, {"registry"}, {})
  BY AtAwait DEF FederalAnswered, At, PolicyCallNames, PolicyStands, RegistryStands, On,
                 OpenWebNames
<1>2. CASE Got("federal")
  <2>1. SettleFor("federal")
    BY <1>2 DEF FederalAnswered
  <2> QED BY <1>1, <2>1, Settles
<1>3. CASE ~Got("federal")
  <2>1. task["federal"] \in Barren
    BY <1>1, <1>3, EndedBarren DEF Shape
  <2>2. CASE PrefersDirectSources
    <3>1. Shape({}, {"registry", "direct", "federal"}, {})
      BY <1>1, <2>1, <2>2 DEF Shape
    <3> QED BY <1>1, <1>3, <2>2, <3>1, OnToOpenWeb DEF FederalAnswered
  <2>3. CASE ~PrefersDirectSources
    <3>1. Await("direct", {})
      BY <1>3, <2>3 DEF FederalAnswered
    <3>2. Shape({"direct"}, {"registry", "federal"}, {})'
      BY <1>1, <2>1, <2>3, <3>1 DEF Await, Start, Started, With, Shape
    <3>3. Stands'
      BY <1>1, <2>3, <3>1, <3>2 DEF Await, Start, Stands, PolicyStands, RegistryStands, On,
                                    IsUsPolicyQuery, PrefersDirectSources, Is
    <3> QED BY <1>1, <3>1, <3>3, Awaits
  <2> QED BY <2>2, <2>3
<1> QED BY <1>2, <1>3

LEMMA DirectAnsweredKeeps == ASSUME Inv, DirectAnswered PROVE Inv'
<1> USE NamedTasks DEF Roles
<1>1. /\ call.name = "registry" /\ cut = "no" /\ ~Over /\ Ended("direct")
      /\ IF IsUsPolicyQuery THEN Shape({"direct"}, {"registry", "federal"}, {})
                            ELSE Shape({"direct", "open_web"}, {"registry"}, {})
  BY AtAwait DEF DirectAnswered, At, PolicyCallNames, PolicyStands, RegistryStands, On,
                 OpenWebNames
<1>2. CASE Got("direct")
  <2>1. SettleFor("direct")
    BY <1>2 DEF DirectAnswered
  <2> QED BY <1>1, <2>1, Settles
<1>3. CASE ~Got("direct")
  <2>1. task["direct"] \in Barren
    BY <1>1, <1>3, EndedBarren DEF Shape
  <2>2. IF IsUsPolicyQuery THEN Shape({}, {"registry", "direct", "federal"}, {})
                           ELSE Shape({"open_web"}, {"registry", "direct"}, {})
    BY <1>1, <2>1 DEF Shape
  <2> QED BY <1>1, <1>3, <2>2, OnToOpenWeb DEF DirectAnswered
<1> QED BY <1>2, <1>3

LEMMA OpenWebAnsweredKeeps == ASSUME Inv, OpenWebAnswered PROVE Inv'
<1> USE NamedTasks DEF Roles
<1>1. /\ call.name = "registry" /\ cut = "no" /\ ~Over /\ Ended("open_web")
      /\ IF IsUsPolicyQuery THEN Shape({"open_web"}, {"registry", "direct", "federal"}, {})
                            ELSE Shape({"open_web"}, {"registry", "direct"}, {})
  BY AtAwait DEF OpenWebAnswered, At, PolicyCallNames, PolicyStands, RegistryStands, On,
                 OpenWebNames
<1>2. RunningTasks = {} /\ (~Got("open_web") => NothingLost)
  BY <1>1, LastAnswer DEF SecSearches
<1>3. \A t \in {"registry", "direct", "open_web"} \cup
                IF IsUsPolicyQuery THEN {"federal"} ELSE {} : task[t] \in Answers
  BY <1>1 DEF Shape, Ended, Answers, Barren
<1>4. Thorough
  BY <1>1, <1>3 DEF Thorough, Owed, CompanyCalls
<1> QED BY <1>1, <1>2, <1>4, Returns DEF OpenWebAnswered, ReturnIf

-----------------------------------------------------------------------------
(* The other policy calls *)

LEMMA DirectSourcesKeep == ASSUME Inv, AskDirectSources \/ DirectSourcesAnswered PROVE Inv'
<1> USE NamedTasks
<1>1. CASE AskDirectSources
  <2>1. Shape(DirectSources, {}, {})'
    BY <1>1, AtStart DEF AskDirectSources, At, Await, Start, Started, With, Shape
  <2>2. Stands'
    BY <1>1, <2>1 DEF AskDirectSources, At, Await, Start, Stands, PolicyStands, On
  <2> QED BY <1>1, <2>2, Awaits DEF AskDirectSources, At
<1>2. CASE DirectSourcesAnswered
  <2>1. /\ Shape(DirectSources, {}, {}) /\ call.name = "direct_sources" /\ cut = "no" /\ ~Over
    BY <1>2, AtAwait DEF DirectSourcesAnswered, At, PolicyCallNames, PolicyStands,
                         RegistryStands, On, OpenWebNames
  <2>2. \A t \in DirectSources : task[t] # "weak"
    BY EndedPlainly DEF Inv, SecSearches, DirectSources
  <2>3. RunningTasks = {} /\ (\A t \in DirectSources : task[t] \in Answers)
    BY <1>2, <2>1, LastAnswers DEF DirectSourcesAnswered
  <2>4. ~Usable(DirectSources) => NothingLost
    BY <1>2, <2>1, <2>2, LastAnswers DEF DirectSourcesAnswered, Usable, Got
  <2>5. Thorough
    BY <2>1, <2>3 DEF Thorough, Owed, CompanyCalls
  <2> QED BY <1>2, <2>1, <2>3, <2>4, <2>5, Returns DEF DirectSourcesAnswered, ReturnIf
<1> QED BY <1>1, <1>2

\* The open web and the allowlist owe no particular search.
LEMMA OpenWebOwesNothing == ASSUME call.name \in OpenWebNames PROVE Thorough
BY DEF OpenWebNames, Thorough, Owed, CompanyCalls

LEMMA SearchOfficialWebKeeps == ASSUME Inv, SearchOfficialWeb PROVE Inv'
<1>1. Shape({"search"}, {}, {})'
  BY AtStart, NamedTasks DEF SearchOfficialWeb, At, Await, Start, Started, With, Shape, Roles
<1>2. Stands'
  BY <1>1 DEF SearchOfficialWeb, At, Await, Start, Stands, PolicyStands
<1> QED BY <1>2, Awaits, NamedTasks DEF SearchOfficialWeb, At, Roles

LEMMA OfficialWebSearchedKeeps == ASSUME Inv, OfficialWebSearched PROVE Inv'
<1> USE NamedTasks DEF Roles
<1>1. /\ Shape({"search"}, {}, {}) /\ call.name \in OpenWebNames /\ cut = "no" /\ ~Over
  BY AtAwait DEF OfficialWebSearched, At, PolicyCallNames, PolicyStands, RegistryStands, On,
                 OpenWebNames
<1>2. ASSUME NEW C \in SUBSET Candidates, C # {}, Await("ranking", C) PROVE Inv'
  <2>1. Shape(RankedPages, {}, {"search"})'
    BY <1>1, <1>2 DEF OfficialWebSearched, Ended, Await, Start, Started, With, Shape, Answers,
                      RankedPages
  <2>2. Stands'
    BY <1>1, <1>2, <2>1 DEF Await, Start, Stands, PolicyStands
  <2> QED BY <1>1, <1>2, <2>2, Awaits
<1>3. ASSUME WithoutHits("search"), Return("empty", {}) PROVE Inv'
  <2>1. RunningTasks = {} /\ NothingLost
    BY <1>1, <1>3, LastAnswer DEF OfficialWebSearched, SecSearches, WithoutHits, Got
  <2> QED BY <1>1, <1>3, <2>1, OpenWebOwesNothing, Returns
<1> QED BY <1>2, <1>3 DEF OfficialWebSearched

LEMMA OfficialWebRankedKeeps == ASSUME Inv, OfficialWebRanked PROVE Inv'
<1> USE NamedTasks DEF Roles
<1>1. /\ Shape(RankedPages, {}, {"search"}) /\ call.name \in OpenWebNames /\ cut = "no"
      /\ ~Over
  BY AtAwait DEF OfficialWebRanked, At, PolicyCallNames, PolicyStands, RegistryStands, On,
                 OpenWebNames
<1>2. RunningTasks = {}
  BY <1>1 DEF OfficialWebRanked, RankedPages, RunningTasks, Shape, Ended, Answers
<1>3. \A t \in Candidates : task[t] # "weak"
  BY EndedPlainly DEF Inv, SecSearches
<1>4. ~Usable(Candidates) => NothingLost
  BY <1>1, <1>3 DEF Usable, Got, NothingLost, Leads, Shape, RankedPages
<1> QED BY <1>1, <1>2, <1>4, OpenWebOwesNothing, Returns DEF OfficialWebRanked, ReturnIf

LEMMA RegistryClientKeeps ==
    ASSUME Inv, AskRegistryClient \/ TitleAnswered \/ BroaderAnswered PROVE Inv'
<1> USE NamedTasks DEF Roles
<1>1. CASE AskRegistryClient
  <2>1. /\ Shape({}, {}, {}) /\ RunningTasks = {} /\ NothingLost /\ cut = "no" /\ ~Over
        /\ call.name = "registry_client"
    BY <1>1, AtStart DEF AskRegistryClient, At
  <2>2. CASE Is("cached")
    <3>1. Thorough
      BY <2>1, <2>2 DEF Thorough, Owed, CompanyCalls
    <3> QED BY <1>1, <2>1, <2>2, <3>1, Returns DEF AskRegistryClient, ReturnIf
  <2>3. CASE ~Is("cached")
    <3>1. Await("title", {"title", "broader"})
      BY <1>1, <2>3 DEF AskRegistryClient
    <3>2. Shape({"title", "broader"}, {}, {})'
      BY <2>1, <3>1 DEF Await, Start, Started, With, Shape
    <3>3. Stands'
      BY <2>1, <3>1, <3>2 DEF Await, Start, Stands, PolicyStands, On
    <3> QED BY <2>1, <3>1, <3>3, Awaits
  <2> QED BY <2>2, <2>3
<1>2. CASE TitleAnswered
  <2>1. /\ Shape({"title", "broader"}, {}, {}) /\ call.name = "registry_client"
        /\ cut = "no" /\ ~Over
    BY <1>2, AtAwait DEF TitleAnswered, At, PolicyCallNames, PolicyStands, RegistryStands, On,
                         OpenWebNames
  <2>2. task["title"] \in Answers \ {"weak"}
    BY <1>2, <2>1, EndedPlainly DEF TitleAnswered, Inv, SecSearches, Shape, Ended, Answers
  <2>3. CASE Got("title")
    <3>1. RunningTasks \subseteq {"broader"}
      BY <2>1, <2>2 DEF RunningTasks, Shape, Answers
    <3> QED BY <1>2, <2>1, <2>3, <3>1, Returns DEF TitleAnswered
  <2>4. CASE ~Got("title")
    <3>1. Await("broader", {})
      BY <1>2, <2>4 DEF TitleAnswered
    <3>2. Shape({"broader"}, {"title"}, {})'
      BY <2>1, <2>2, <2>4, <3>1 DEF Await, Start, Started, With, Shape, Got, Answers, Barren
    <3>3. Stands'
      BY <2>1, <3>1, <3>2 DEF Await, Start, Stands, PolicyStands, On
    <3> QED BY <2>1, <3>1, <3>3, Awaits
  <2> QED BY <2>3, <2>4
<1>3. CASE BroaderAnswered
  <2>1. /\ Shape({"broader"}, {"title"}, {}) /\ call.name = "registry_client"
        /\ cut = "no" /\ ~Over
    BY <1>3, AtAwait DEF BroaderAnswered, At, PolicyCallNames, PolicyStands, RegistryStands,
                         On, OpenWebNames
  <2>2. /\ RunningTasks = {} /\ (~Got("broader") => NothingLost)
        /\ task["broader"] \in Answers /\ task["title"] \in Answers
    BY <1>3, <2>1, LastAnswer DEF BroaderAnswered, SecSearches
  <2>3. Thorough
    BY <2>1, <2>2 DEF Thorough, Owed, CompanyCalls
  <2> QED BY <1>3, <2>1, <2>2, <2>3, Returns DEF BroaderAnswered, ReturnIf
<1> QED BY <1>1, <1>2, <1>3

LEMMA PolicyKeeps == ASSUME Inv, PolicyResumes PROVE Inv'
BY RegistryStart, RacedKeeps, RegistryAnsweredKeeps, SecondOfRaceKeeps, FederalAnsweredKeeps,
   DirectAnsweredKeeps, OpenWebAnsweredKeeps, DirectSourcesKeep, SearchOfficialWebKeeps,
   OfficialWebSearchedKeeps, OfficialWebRankedKeeps, RegistryClientKeeps DEF PolicyResumes

-----------------------------------------------------------------------------
(* The news *)

LEMMA NewsOwesNothing == ASSUME call.name = "news_rss" PROVE Thorough
BY DEF Thorough, Owed, CompanyCalls

\* The search for news and the backup are not mistaken about another company.
LEMMA NewsPlain ==
    ASSUME Inv
    PROVE  /\ task["ddgs"] # "weak" /\ task["ground"] # "weak"
           /\ task["ground"] \notin {"failed", "broken"}
           /\ task["rank"] \notin {"weak", "failed", "broken"}
BY EndedPlainly, NamedTasks DEF Inv, SecSearches, Roles, Unfailing

LEMMA NewsStart == ASSUME Inv, NewsFixture \/ AskNews PROVE Inv'
<1> USE NamedTasks DEF Roles
<1>1. Shape({}, {}, {}) /\ RunningTasks = {} /\ cut = "no" /\ ~Over
  BY AtStart DEF NewsFixture, AskNews, At
<1>2. CASE NewsFixture
  BY <1>1, <1>2, Returns DEF NewsFixture
<1>3. CASE AskNews
  <2>1. Shape({"news", "ddgs"}, {}, {})'
    BY <1>1, <1>3 DEF AskNews, Await, Start, Started, With, Shape
  <2>2. Stands'
    BY <1>3, <2>1 DEF AskNews, At, Await, Start, Stands, NewsStands, On
  <2> QED BY <1>1, <1>3, <2>2, Awaits DEF AskNews
<1> QED BY <1>2, <1>3

\* What was found is ranked when nothing else but the backup may still run.
LEMMA RankNewsKeeps ==
    ASSUME Inv, cut = "no", ~Over, call.name = "news_rss", at' = "ranking_news",
           UNCHANGED <<call, pending, todo, cut, outcome>>, holds' = {"payloads"},
           NEW S \in SUBSET {"ddgs", "ground"}, task' = With(Cancelled(S), {"rank"}),
           RunningTasks \subseteq S,
           \A t \in Tasks \ {"news", "ddgs", "ground"} : task[t] = "unborn"
    PROVE  Inv'
<1> USE NamedTasks DEF Roles
<1>1. Shape({"rank"}, {}, {"news", "ddgs", "ground"})'
  BY DEF With, Cancelled, Shape, RunningTasks
<1>2. Stands'
  BY <1>1 DEF Stands, NewsStands, On
<1> QED BY <1>2, GoesOn DEF TypedLocals, Inv, TypeOK

LEMMA AwaitBackupKeeps ==
    ASSUME Inv, cut = "no", ~Over, call.name = "news_rss",
           NEW S \in SUBSET {"ddgs"}, AwaitBackup(S),
           RunningTasks \subseteq {"ddgs"}, task["ground"] # "hits",
           \A t \in Tasks \ {"news", "ddgs", "ground"} : task[t] = "unborn"
    PROVE  Inv'
<1> USE NamedTasks DEF Roles
<1>1. /\ RunningTasks' \subseteq {"ddgs"} /\ task'["ground"] # "hits"
      /\ \A t \in Tasks \ {"news", "ddgs", "ground"} : task'[t] = "unborn"
  BY DEF AwaitBackup, Leave, Cancelled, RunningTasks
<1>2. Stands'
  BY <1>1 DEF AwaitBackup, Leave, Stands, NewsStands, On
<1> QED BY <1>2, GoesOn DEF AwaitBackup, Same, TypedLocals, Inv, TypeOK

LEMMA NewsAnsweredKeeps == ASSUME Inv, NewsAnswered \/ NewsKept PROVE Inv'
<1> USE NamedTasks DEF Roles
<1>1. /\ call.name = "news_rss" /\ cut = "no" /\ ~Over /\ task["news"] # "running"
      /\ RunningTasks \subseteq {"ddgs"}
      /\ \A t \in Tasks \ {"news", "ddgs"} : task[t] = "unborn"
      /\ task["ddgs"] \in Answers \cup {"running"}
  BY AtAwait DEF NewsAnswered, NewsKept, At, NewsCallNames, NewsStands, On, Shape,
                 RunningTasks, Ended, Answers
<1>2. ASSUME RankNews PROVE Inv'
  BY <1>1, <1>2, RankNewsKeeps DEF RankNews
<1>3. ASSUME AwaitBackup({}) PROVE Inv'
  BY <1>1, <1>3, AwaitBackupKeeps
<1>4. ASSUME Await("yielding", {}) PROVE Inv'
  <2>1. Shape({"ddgs"}, {}, {"news"})'
    BY <1>1, <1>4 DEF Await, Start, Started, With, Shape
  <2>2. Stands'
    BY <1>1, <1>4, <2>1 DEF Await, Start, Stands, NewsStands, On
  <2> QED BY <1>1, <1>4, <2>2, Awaits
<1>5. ASSUME Await("news_race", {"ground"}) PROVE Inv'
  <2>1. Shape({"ground", "ddgs"}, {}, {"news"})'
    BY <1>1, <1>5 DEF Await, Start, Started, With, Shape
  <2>2. Stands'
    BY <1>1, <1>5, <2>1 DEF Await, Start, Stands, NewsStands, On
  <2> QED BY <1>1, <1>5, <2>2, Awaits
<1> QED BY <1>2, <1>3, <1>4, <1>5 DEF NewsAnswered, NewsKept

LEMMA NewsRacedKeeps == ASSUME Inv, NewsRaced PROVE Inv'
<1> USE NamedTasks DEF Roles
<1>1. /\ call.name = "news_rss" /\ cut = "no" /\ ~Over
      /\ Shape({"ground", "ddgs"}, {}, {"news"})
  BY AtAwait DEF NewsRaced, At, NewsCallNames, NewsStands, On
<1>2. /\ RunningTasks \subseteq {"ddgs", "ground"}
      /\ \A t \in Tasks \ {"news", "ddgs", "ground"} : task[t] = "unborn"
  BY <1>1 DEF RunningTasks, Shape
<1>3. ASSUME Got("ddgs"), task' = With(Cancelled({"ground"}), {"rank"}),
             at' = "ranking_news", holds' = {"payloads"},
             UNCHANGED <<call, pending, todo, cut, outcome>>
      PROVE  Inv'
  <2>1. RunningTasks \subseteq {"ground"}
    BY <1>2, <1>3 DEF RunningTasks, Got
  <2> QED BY <1>1, <1>2, <1>3, <2>1, RankNewsKeeps
<1>4. ASSUME WithoutHits("ddgs"), Await("news_grounding", {}) PROVE Inv'
  <2>1. Shape({"ground"}, {"ddgs"}, {"news"})'
    BY <1>1, <1>4 DEF Await, Start, Started, With, Shape, WithoutHits, Barren
  <2>2. Stands'
    BY <1>1, <1>4, <2>1 DEF Await, Start, Stands, NewsStands, On
  <2> QED BY <1>1, <1>4, <2>2, Awaits
<1>5. ASSUME Got("ground"), RankNews PROVE Inv'
  <2>1. RunningTasks \subseteq {"ddgs"}
    BY <1>2, <1>5 DEF RunningTasks, Got
  <2> QED BY <1>1, <1>2, <1>5, <2>1, RankNewsKeeps DEF RankNews
<1>6. ASSUME WithoutHits("ground"), AwaitBackup({"ddgs"}) PROVE Inv'
  <2>1. RunningTasks \subseteq {"ddgs"} /\ task["ground"] # "hits"
    BY <1>2, <1>6 DEF RunningTasks, WithoutHits
  <2> QED BY <1>1, <1>2, <1>6, <2>1, AwaitBackupKeeps
<1> QED BY <1>3, <1>4, <1>5, <1>6 DEF NewsRaced

LEMMA NewsGroundedAloneKeeps == ASSUME Inv, NewsGroundedAlone PROVE Inv'
<1> USE NamedTasks DEF Roles
<1>1. /\ call.name = "news_rss" /\ cut = "no" /\ ~Over
      /\ Shape({"ground"}, {"ddgs"}, {"news"}) /\ Ended("ground")
  BY AtAwait DEF NewsGroundedAlone, At, NewsCallNames, NewsStands, On
<1>2. /\ RunningTasks = {}
      /\ \A t \in Tasks \ {"news", "ddgs", "ground"} : task[t] = "unborn"
  BY <1>1 DEF RunningTasks, Shape, Ended, Answers, Barren
<1>3. CASE Got("ground")
  BY <1>1, <1>2, <1>3, RankNewsKeeps DEF NewsGroundedAlone, RankNews
<1>4. CASE ~Got("ground")
  BY <1>1, <1>2, <1>4, AwaitBackupKeeps DEF NewsGroundedAlone, Got
<1> QED BY <1>3, <1>4

LEMMA BackupAnsweredKeeps == ASSUME Inv, BackupAnswered PROVE Inv'
<1> USE NamedTasks DEF Roles
<1>1. /\ call.name = "news_rss" /\ cut = "no" /\ ~Over /\ Ended("ddgs")
      /\ RunningTasks \subseteq {"ddgs"} /\ task["ground"] # "hits"
      /\ \A t \in Tasks \ {"news", "ddgs", "ground"} : task[t] = "unborn"
  BY AtAwait DEF BackupAnswered, At, NewsCallNames, NewsStands, On
<1>2. RunningTasks = {}
  BY <1>1 DEF RunningTasks, Ended, Answers
<1>3. ASSUME RankNews PROVE Inv'
  BY <1>1, <1>2, <1>3, RankNewsKeeps DEF RankNews
<1>4. ASSUME WithoutHits("ddgs"), Return("empty", {}) PROVE Inv'
  <2>1. NothingLost
    BY <1>1, <1>4, NewsPlain DEF NothingLost, Leads, WithoutHits
  <2> QED BY <1>1, <1>2, <1>4, <2>1, NewsOwesNothing, Returns
<1>5. ASSUME Return("cancelled", {}) PROVE Inv'
  BY <1>1, <1>2, <1>5, Returns
<1> QED BY <1>3, <1>4, <1>5 DEF BackupAnswered

LEMMA NewsRankedKeeps == ASSUME Inv, NewsRanked PROVE Inv'
<1> USE NamedTasks DEF Roles
<1>1. /\ call.name = "news_rss" /\ cut = "no" /\ ~Over /\ Ended("rank")
      /\ Shape({"rank"}, {}, {"news", "ddgs", "ground"})
  BY AtAwait DEF NewsRanked, At, NewsCallNames, NewsStands, On
<1>2. RunningTasks = {}
  BY <1>1 DEF RunningTasks, Shape, Ended, Answers
<1>3. ~Got("rank") => NothingLost
  BY <1>1, NewsPlain DEF NothingLost, Shape, Got, Ended, Answers
<1> QED BY <1>1, <1>2, <1>3, NewsOwesNothing, Returns DEF NewsRanked, ReturnIf

LEMMA NewsKeeps == ASSUME Inv, NewsResumes PROVE Inv'
BY NewsStart, NewsAnsweredKeeps, NewsRacedKeeps, NewsGroundedAloneKeeps, BackupAnsweredKeeps,
   NewsRankedKeeps DEF NewsResumes

-----------------------------------------------------------------------------
(* Ranking pages, and the articles behind links *)

LEMMA RankPagesKeeps == ASSUME Inv, RankPages PROVE Inv'
<1> USE NamedTasks
<1>1. /\ Shape({}, {}, {}) /\ RunningTasks = {} /\ NothingLost /\ cut = "no" /\ ~Over
      /\ call.name = "ranking_pages"
  BY AtStart DEF RankPages, At
<1>2. ASSUME Return("empty", {}) PROVE Inv'
  <2>1. Thorough
    BY <1>1 DEF Thorough, Owed, CompanyCalls
  <2> QED BY <1>1, <1>2, <2>1, Returns
<1>3. ASSUME NEW C \in SUBSET Candidates, Start("ranking_pages", C), pending' = C,
             UNCHANGED <<todo, holds>>
      PROVE  Inv'
  <2>1. Shape(C, {}, {})'
    BY <1>1, <1>3 DEF Start, Started, With, Shape
  <2>2. Stands'
    <3>1. Shape(pending, {}, {})'
      BY <1>3, <2>1 DEF Shape
    <3> QED BY <1>1, <1>3, <3>1 DEF Start, Stands, DiscoveryStands, On
  <2> QED BY <1>1, <1>3, <2>2, GoesOn DEF TypedLocals, Inv, TypeOK
<1> QED BY <1>2, <1>3 DEF RankPages

LEMMA PagesRankedKeeps == ASSUME Inv, PagesRanked PROVE Inv'
<1>1. /\ pending \subseteq Candidates /\ Shape(pending, {}, {}) /\ cut = "no" /\ ~Over
      /\ call.name = "ranking_pages"
  BY AtAwait DEF PagesRanked, At, DiscoveryCallNames, DiscoveryStands, WebStands, On
<1>2. \A t \in Candidates : task[t] # "weak"
  BY EndedPlainly, NamedTasks DEF Inv, SecSearches, Roles
<1>3. RunningTasks = {} /\ (~Usable(pending) => NothingLost)
  BY <1>1, <1>2, NamedTasks, LastAnswers DEF PagesRanked, Usable, Got
<1>4. Thorough
  BY <1>1 DEF Thorough, Owed, CompanyCalls
<1> QED BY <1>1, <1>3, <1>4, Returns DEF PagesRanked, ReturnIf

LEMMA GroundKeeps == ASSUME Inv, Ground PROVE Inv'
<1> USE NamedTasks DEF Roles
<1>1. /\ Shape({}, {}, {}) /\ RunningTasks = {} /\ NothingLost /\ cut = "no" /\ ~Over
      /\ call.name = "grounding"
  BY AtStart DEF Ground, At
<1>2. CASE Is("direct")
  <2>1. Thorough
    BY <1>1, <1>2 DEF Thorough, Owed, CompanyCalls
  <2> QED BY <1>1, <1>2, <2>1, Returns DEF Ground, ReturnIf
<1>3. CASE ~Is("direct")
  <2> DEFINE S == {"resolution", "publisher"}
  <2>1. Start("grounding_race", S) /\ pending' = S /\ UNCHANGED <<todo, holds>>
    BY <1>3 DEF Ground
  <2>2. Shape(pending, S \ pending, {})'
    BY <1>1, <2>1 DEF Start, Started, With, Shape
  <2>3. Stands'
    BY <1>1, <1>3, <2>1, <2>2 DEF Start, Stands, DiscoveryStands, On, Is
  <2> QED BY <1>1, <2>1, <2>3, GoesOn DEF TypedLocals, Inv, TypeOK
<1> QED BY <1>2, <1>3

LEMMA GroundingAnsweredKeeps == ASSUME Inv, GroundingAnswered PROVE Inv'
<1> USE NamedTasks DEF Roles
<1> DEFINE S == {"resolution", "publisher"}
           done == {t \in pending : Ended(t)}
           left == pending \ done
<1>1. /\ pending \subseteq S /\ Shape(pending, S \ pending, {})
      /\ call.name = "grounding" /\ cut = "no" /\ ~Over /\ ~Is("direct")
  BY AtAwait DEF GroundingAnswered, At, DiscoveryCallNames, DiscoveryStands, WebStands, On
<1>2. /\ pending' = left /\ UNCHANGED <<todo, holds>>
      /\ IF Usable(S) THEN Finish("hits", left)
         ELSE IF left = {} THEN Finish("empty", {}) ELSE Leave("grounding_race", {})
  BY DEF GroundingAnswered
<1>3. RunningTasks \subseteq left /\ TypedLocals(left, todo, holds)
  BY <1>1 DEF RunningTasks, Shape, Ended, Answers, Barren, TypedLocals, Inv, TypeOK
<1>4. CASE Usable(S)
  BY <1>1, <1>2, <1>3, <1>4, Ends DEF Outcomes
<1>5. CASE ~Usable(S)
  <2>1. \A t \in S \ left : task[t] \in Barren
    BY <1>1, <1>5, EndedPlainly DEF Usable, Got, Shape, Ended, Answers, Barren, Inv,
                                    SecSearches
  <2>2. CASE left = {}
    <3>1. Thorough
      <4>1. Owed = S
        BY <1>1 DEF Owed, CompanyCalls
      <4> QED BY <2>1, <2>2, <4>1 DEF Thorough, Barren, Answers
    <3>2. NothingLost
      <4>1. \A t \in S : task[t] \in Barren
        BY <2>1, <2>2
      <4>2. \A t \in Tasks \ S : task[t] = "unborn"
        BY <1>1 DEF Shape
      <4> QED BY <4>1, <4>2 DEF NothingLost, Barren
    <3>3. RunningTasks = {}
      BY <1>3, <2>2
    <3> QED BY <1>1, <1>2, <1>3, <1>5, <2>2, <3>1, <3>2, <3>3, Ends DEF Outcomes
  <2>3. CASE left # {}
    <3>1. Shape(left, S \ left, {})
      BY <1>1, <2>1 DEF Shape
    <3>2. Shape(pending, S \ pending, {})' /\ pending' \subseteq S
      <4>1. \A t \in Tasks : task'[t] = task[t]
        BY <1>2, <1>5, <2>3 DEF Leave, Cancelled
      <4>2. pending' = left /\ left \subseteq S
        BY <1>1, <1>2
      <4> HIDE DEF left, S
      <4> QED BY <3>1, <4>1, <4>2 DEF Shape
    <3>3. Stands'
      BY <1>1, <1>2, <1>5, <2>3, <3>2 DEF Leave, Stands, DiscoveryStands, On, Is
    <3> QED BY <1>1, <1>2, <1>3, <1>5, <2>3, <3>3, GoesOn
  <2> QED BY <2>2, <2>3
<1> QED BY <1>4, <1>5

-----------------------------------------------------------------------------
(* search_web_discovery_live *)

LEMMA AtWeb ==
    ASSUME Inv, cut = "no", ~Over, call.name = "web_discovery", at # "start"
    PROVE  WebStands
BY AtAwait DEF DiscoveryCallNames, DiscoveryStands, On

\* No search of web_discovery gives an answer that is neither hits nor barren.
LEMMA WebPlain ==
    ASSUME Inv, NEW t \in WebSearches \cup {"ground", "rank"}
    PROVE  task[t] # "weak" /\ (t = "rank" => task[t] \notin {"failed", "broken"})
BY EndedPlainly, NamedTasks DEF Inv, SecSearches, Roles, WebSearches, Unfailing

LEMMA SearchesNamed ==
    /\ WebSearches \subseteq Tasks /\ SecondaryTasks \subseteq WebSearches
    /\ WebSearches \cup {"ground", "rank"} \subseteq Tasks
BY NamedTasks DEF Roles, WebSearches, SecondaryTasks

\* The for loop and the wait are where Bookkeeping holds and no helper runs.
Loops ==
    /\ Bookkeeping
    /\ \A t \in Tasks \ (WebSearches \cup {"ground", "rank"}) : task[t] = "unborn"
    /\ task["rank"] # "running" /\ task["ground"] # "running"
    /\ ~Payloads => task["ground"] \in Barren \cup {"unborn"}

LEMMA LoopsOn ==
    ASSUME Inv, cut = "no", ~Over, call.name = "web_discovery",
           at' \in {"watching", "handling"}, at' = "watching" => todo' = {}, Loops',
           NEW S \in SUBSET Tasks, Start(at', S) \/ Leave(at', S),
           holds' \subseteq holds \cup {"payloads", "hits", "secondary"}
    PROVE  Inv'
<1>1. Stands'
  BY DEF Start, Leave, Loops, Stands, DiscoveryStands, WebStands
<1>2. TypedLocals(pending', todo', holds')
  BY SearchesNamed DEF Loops, Bookkeeping, TypedLocals, Inv, TypeOK
<1> QED BY <1>1, <1>2, GoesOn

\* Searches are started and watched; the secondary ones all at once.
LEMMA WatchKeeps ==
    ASSUME Inv, cut = "no", ~Over, call.name = "web_discovery", Loops, todo = {},
           NEW S \in SUBSET WebSearches, Watch(S),
           \/ holds' = holds
           \/ SecondaryTasks \subseteq S /\ holds' = holds \cup {"secondary"}
    PROVE  Inv'
<1>1. /\ \A t \in Tasks : task'[t] = IF t \in S THEN "running" ELSE task[t]
      /\ pending' = pending \cup S /\ todo' = {} /\ at' = "watching"
      /\ SecondaryTasks' = SecondaryTasks /\ (Payloads' <=> Payloads)
  BY DEF Watch, Start, Started, With, SecondaryTasks, Payloads, Is
<1>2. Bookkeeping'
  <2>1. /\ pending' \subseteq WebSearches /\ todo' \subseteq WebSearches
        /\ \A t \in todo' : task'[t] # "unborn"
    BY <1>1 DEF Loops, Bookkeeping
  <2>2. \A t \in WebSearches \ pending' : task'[t] \in Answers \cup {"unborn"}
    BY <1>1, SearchesNamed DEF Loops, Bookkeeping
  <2>3. \A t \in pending' : task'[t] \in Answers \cup {"running"}
    BY <1>1, SearchesNamed DEF Loops, Bookkeeping
  <2>4. \A t \in FirstSearches : task'[t] # "unborn"
    BY <1>1, SearchesNamed DEF Loops, Bookkeeping, FirstSearches, WebSearches
  <2>5. SecondaryStarted' => \A t \in SecondaryTasks : task'[t] # "unborn"
    BY <1>1, SearchesNamed DEF Loops, Bookkeeping, SecondaryStarted
  <2>6. ~Payloads => /\ task'["rank"] = "unborn"
                     /\ \A t \in WebSearches \ pending' :
                            task'[t] \in Barren \cup {"unborn"} \/ t = "news"
    BY <1>1, SearchesNamed DEF Loops, Bookkeeping, WebSearches
  <2> QED BY <1>1, <2>1, <2>2, <2>3, <2>4, <2>5, <2>6 DEF Bookkeeping
<1>3. Loops'
  <2>1. {"ground", "rank"} \cap S = {} /\ "ground" \in Tasks /\ "rank" \in Tasks
    BY SearchesNamed DEF WebSearches
  <2>2. task'["ground"] = task["ground"] /\ task'["rank"] = task["rank"]
    BY <1>1, <2>1
  <2>3. \A t \in Tasks \ (WebSearches \cup {"ground", "rank"}) : task'[t] = "unborn"
    BY <1>1 DEF Loops
  <2> QED BY <1>1, <1>2, <2>2, <2>3 DEF Loops
<1> QED BY <1>1, <1>3, LoopsOn, SearchesNamed DEF Watch

LEMMA DiscoverKeeps == ASSUME Inv, DiscoveryFixture \/ Discover PROVE Inv'
<1> USE NamedTasks DEF Roles
<1>1. /\ Shape({}, {}, {}) /\ RunningTasks = {} /\ cut = "no" /\ ~Over
      /\ pending = {} /\ todo = {} /\ holds = {} /\ call.name = "web_discovery"
  BY AtStart DEF DiscoveryFixture, Discover, At
<1>2. CASE DiscoveryFixture
  BY <1>1, <1>2, Returns DEF DiscoveryFixture
<1>3. CASE Discover
  <2> DEFINE S == {"web", "news"} \cup IF Is("cjk") THEN {"ddgs"} ELSE {}
  <2>1. Watch(S) /\ holds' = {}
    BY <1>1, <1>3 DEF Discover
  <2>2. S \subseteq WebSearches /\ FirstSearches \subseteq S
    BY DEF WebSearches, FirstSearches
  <2> HIDE DEF S
  <2>3. /\ \A t \in Tasks : task'[t] = IF t \in S THEN "running" ELSE "unborn"
        /\ pending' = S /\ todo' = {} /\ at' = "watching"
    BY <1>1, <2>1 DEF Watch, Start, Started, With, Shape
  <2>4. Bookkeeping'
    BY <2>1, <2>2, <2>3, SearchesNamed DEF Bookkeeping, SecondaryStarted, WebSearches
  <2>5. Loops'
    <3>1. {"ground", "rank"} \cap S = {}
      BY <2>2 DEF WebSearches
    <3>2. task'["ground"] = "unborn" /\ task'["rank"] = "unborn"
      BY <2>3, <3>1
    <3>3. \A t \in Tasks \ (WebSearches \cup {"ground", "rank"}) : task'[t] = "unborn"
      BY <2>2, <2>3
    <3> QED BY <2>4, <3>2, <3>3 DEF Loops
  <2> QED BY <1>1, <2>1, <2>2, <2>3, <2>5, LoopsOn, SearchesNamed DEF Watch
<1> QED BY <1>2, <1>3

LEMMA HeadStartOverKeeps == ASSUME Inv, HeadStartOver PROVE Inv'
<1>1. /\ Loops /\ todo = {} /\ cut = "no" /\ ~Over /\ call.name = "web_discovery"
  BY AtWeb DEF HeadStartOver, At, WebStands, Loops
<1>2. {"ddgs"} \subseteq WebSearches
  BY DEF WebSearches
<1> QED BY <1>1, <1>2, WatchKeeps, SearchesNamed DEF HeadStartOver

LEMMA SearchesEndedKeeps == ASSUME Inv, SearchesEnded PROVE Inv'
<1>1. /\ Loops /\ todo = {} /\ cut = "no" /\ ~Over /\ call.name = "web_discovery"
  BY AtWeb DEF SearchesEnded, At, WebStands, Loops
<1>2. /\ \A t \in Tasks : task'[t] = task[t]
      /\ todo' = {t \in pending : Ended(t)} /\ pending' = pending \ todo'
      /\ holds' = holds /\ at' = "handling" /\ call' = call
  BY DEF SearchesEnded, Leave, Cancelled
<1>3. Bookkeeping'
  <2>1. \A t \in todo' : task'[t] \in Answers
    BY <1>1, <1>2, SearchesNamed DEF Loops, Bookkeeping, Ended, Answers
  <2>2. \A t \in pending' : task'[t] \in Answers \cup {"running"}
    BY <1>1, <1>2, SearchesNamed DEF Loops, Bookkeeping
  <2>3. WebSearches \ pending' = (WebSearches \ pending) \cup todo'
        /\ WebSearches \ (pending' \cup todo') = WebSearches \ pending
    BY <1>1, <1>2 DEF Loops, Bookkeeping
  <2>4. \A t \in WebSearches \ pending' : task'[t] \in Answers \cup {"unborn"}
    BY <1>1, <1>2, <2>1, <2>3, SearchesNamed DEF Loops, Bookkeeping
  <2>5. ~Payloads' => /\ task'["rank"] = "unborn"
                      /\ \A t \in WebSearches \ (pending' \cup todo') :
                             task'[t] \in Barren \cup {"unborn"} \/ t = "news"
    BY <1>1, <1>2, <2>3, SearchesNamed DEF Loops, Bookkeeping, Payloads
  <2>6. /\ \A t \in FirstSearches : task'[t] # "unborn"
        /\ SecondaryStarted' => \A t \in SecondaryTasks' : task'[t] # "unborn"
    BY <1>1, <1>2, SearchesNamed DEF Loops, Bookkeeping, FirstSearches, WebSearches,
                                     SecondaryStarted, SecondaryTasks, Is
  <2> QED BY <1>1, <1>2, <2>1, <2>2, <2>4, <2>5, <2>6 DEF Bookkeeping, Loops, Answers
<1>4. Loops'
  BY <1>1, <1>2, <1>3, SearchesNamed DEF Loops, Payloads
<1> QED BY <1>1, <1>2, <1>4, LoopsOn DEF SearchesEnded

\* Searches are handled while the others are left alone.
LEMMA HandledWell ==
    ASSUME Bookkeeping, call' = call, pending' = pending, todo' \subseteq todo,
           \A t \in WebSearches : task'[t] = task[t],
           holds' \subseteq holds \cup {"payloads", "hits"},
           holds \subseteq holds',
           \/ Payloads'
           \/ /\ task'["rank"] = task["rank"]
              /\ \A t \in todo \ todo' : task[t] \in Barren \/ t = "news"
    PROVE  Bookkeeping'
<1>1. SecondaryTasks' = SecondaryTasks /\ (SecondaryStarted' <=> SecondaryStarted)
  BY DEF SecondaryTasks, SecondaryStarted, Is
<1>2. Payloads => Payloads'
  BY DEF Payloads
<1>3. FirstSearches \subseteq WebSearches /\ SecondaryTasks \subseteq WebSearches
  BY DEF FirstSearches, WebSearches, SecondaryTasks
<1>4. /\ pending' \subseteq WebSearches /\ todo' \subseteq WebSearches
      /\ \A t \in WebSearches \ pending' : task'[t] \in Answers \cup {"unborn"}
      /\ \A t \in pending' : task'[t] \in Answers \cup {"running"}
      /\ \A t \in FirstSearches : task'[t] # "unborn"
      /\ \A t \in todo' : task'[t] # "unborn"
  BY <1>3 DEF Bookkeeping
<1>5. SecondaryStarted' => \A t \in SecondaryTasks' : task'[t] # "unborn"
  BY <1>1, <1>3 DEF Bookkeeping
<1>6. ~Payloads' => /\ task'["rank"] = "unborn"
                    /\ \A t \in WebSearches \ (pending' \cup todo') :
                           task'[t] \in Barren \cup {"unborn"} \/ t = "news"
  BY <1>2 DEF Bookkeeping
<1> QED BY <1>4, <1>5, <1>6 DEF Bookkeeping

LEMMA AtHandling ==
    ASSUME Inv, At("web_discovery", "handling")
    PROVE  /\ Loops /\ cut = "no" /\ ~Over /\ call.name = "web_discovery"
           /\ todo \subseteq WebSearches /\ pending \subseteq WebSearches
BY AtWeb DEF At, WebStands, Loops, Bookkeeping

\* What has been found so far is ranked.
LEMMA RanksOn ==
    ASSUME Inv, cut = "no", ~Over, call.name = "web_discovery", Bookkeeping, todo' \subseteq todo,
           \A t \in Tasks \ (WebSearches \cup {"ground", "rank"}) : task[t] = "unborn",
           task["ground"] # "running", Start("ranking", {"rank"}),
           holds' = holds \cup {"payloads"}, UNCHANGED pending
    PROVE  Inv'
<1> USE SearchesNamed
<1>1. /\ \A t \in Tasks : task'[t] = IF t = "rank" THEN "running" ELSE task[t]
      /\ at' = "ranking" /\ call' = call /\ Payloads'
  BY DEF Start, Started, With, Payloads
<1>2. /\ \A t \in WebSearches : task'[t] = task[t]
      /\ task'["rank"] = "running" /\ task'["ground"] # "running"
      /\ \A t \in Tasks \ (WebSearches \cup {"ground", "rank"}) : task'[t] = "unborn"
  BY <1>1 DEF WebSearches
<1>3. Bookkeeping'
  BY <1>1, <1>2, HandledWell
<1>4. Stands'
  BY <1>1, <1>2, <1>3 DEF Stands, DiscoveryStands, WebStands
<1> QED
  BY <1>4, GoesOn DEF Bookkeeping, TypedLocals, Inv, TypeOK

LEMMA HandleKeeps == ASSUME Inv, Handle PROVE Inv'
<1> USE SearchesNamed
<1>1. PICK t \in todo : HandleNothing(t) \/ HandlePayloads(t) \/ (t = "news" /\ HandleNews)
  BY DEF Handle
<1>2. /\ Loops /\ cut = "no" /\ ~Over /\ call.name = "web_discovery"
      /\ todo \subseteq WebSearches
  BY AtHandling DEF Handle
<1>3. CASE HandleNothing(t)
  <2>1. /\ \A s \in Tasks : task'[s] = task[s]
        /\ todo' = todo \ {t} /\ at' = "handling" /\ task[t] \in Barren
        /\ UNCHANGED <<call, pending, holds>>
    BY <1>3 DEF HandleNothing, Leave, Cancelled, WithoutHits, Barren
  <2>2. Bookkeeping'
    BY <1>2, <2>1, HandledWell DEF Loops
  <2>3. Loops'
    BY <1>2, <2>1, <2>2 DEF Loops, Payloads
  <2> QED BY <1>2, <1>3, <2>1, <2>3, LoopsOn DEF HandleNothing
<1>4. CASE HandlePayloads(t)
  BY <1>2, <1>4, RanksOn DEF HandlePayloads, Loops
<1>5. CASE t = "news" /\ HandleNews
  <2>1. /\ \A s \in Tasks : task'[s] = IF s = "ground" THEN "running" ELSE task[s]
        /\ todo' = todo \ {"news"} /\ at' = "grounding" /\ UNCHANGED <<call, pending, holds>>
    BY <1>5 DEF HandleNews, Start, Started, With
  <2>2. /\ \A s \in WebSearches : task'[s] = task[s]
        /\ task'["ground"] = "running" /\ task'["rank"] = task["rank"]
        /\ \A s \in Tasks \ (WebSearches \cup {"ground", "rank"}) : task'[s] = "unborn"
    BY <1>2, <2>1 DEF WebSearches, Loops
  <2>3. Bookkeeping'
    BY <1>2, <2>1, <2>2, HandledWell DEF Loops
  <2>4. Stands'
    BY <1>2, <2>1, <2>2, <2>3 DEF Stands, DiscoveryStands, WebStands, Loops
  <2> QED BY <1>2, <1>5, <2>1, <2>4, GoesOn DEF HandleNews, TypedLocals, Inv, TypeOK
<1> QED BY <1>1, <1>3, <1>4, <1>5

LEMMA NewsGroundedKeeps == ASSUME Inv, NewsGrounded PROVE Inv'
<1> USE SearchesNamed
<1>1. /\ Bookkeeping /\ cut = "no" /\ ~Over /\ call.name = "web_discovery"
      /\ \A t \in Tasks \ (WebSearches \cup {"ground", "rank"}) : task[t] = "unborn"
      /\ task["ground"] \in Answers /\ task["rank"] # "running"
  BY AtWeb DEF NewsGrounded, At, WebStands, Ended, Answers
<1>2. CASE Got("ground")
  BY <1>1, <1>2, RanksOn DEF NewsGrounded, WithoutHits, Got, Answers
<1>3. CASE ~Got("ground")
  <2>1. WithoutHits("ground") /\ Leave("handling", {}) /\ UNCHANGED <<holds, pending, todo>>
    BY <1>3 DEF NewsGrounded
  <2>2. /\ \A t \in Tasks : task'[t] = task[t]
        /\ at' = "handling" /\ call' = call /\ task["ground"] \in Barren
    BY <2>1 DEF Leave, Cancelled, WithoutHits, Barren
  <2>3. Bookkeeping'
    BY <1>1, <2>1, <2>2, HandledWell
  <2>4. Loops'
    BY <1>1, <2>2, <2>3 DEF Loops, Barren
  <2> QED BY <1>1, <2>1, <2>2, <2>4, LoopsOn
<1> QED BY <1>2, <1>3

LEMMA RankedKeeps == ASSUME Inv, Ranked PROVE Inv'
<1> USE SearchesNamed
<1>1. /\ Bookkeeping /\ cut = "no" /\ ~Over /\ call.name = "web_discovery" /\ Payloads
      /\ \A t \in Tasks \ (WebSearches \cup {"ground", "rank"}) : task[t] = "unborn"
      /\ task["rank"] \in Answers /\ task["ground"] # "running"
  BY AtWeb DEF Ranked, At, WebStands, Ended, Answers
<1>2. /\ \A t \in Tasks : task'[t] = task[t]
      /\ at' = "handling" /\ call' = call /\ pending' = pending /\ todo' \subseteq todo
      /\ holds \subseteq holds' /\ holds' \subseteq holds \cup {"hits"} /\ Leave("handling", {})
  BY DEF Ranked, Leave, Cancelled
<1>3. Payloads'
  BY <1>1, <1>2 DEF Payloads
<1>4. Bookkeeping'
  BY <1>1, <1>2, <1>3, HandledWell
<1>5. Loops'
  BY <1>1, <1>2, <1>3, <1>4 DEF Loops, Answers
<1> QED BY <1>1, <1>2, <1>5, LoopsOn

LEMMA LoopAgainKeeps == ASSUME Inv, LoopAgain PROVE Inv'
<1>1. Loops /\ todo = {} /\ cut = "no" /\ ~Over /\ call.name = "web_discovery"
  BY AtHandling DEF LoopAgain
<1>2. Due \subseteq WebSearches /\ (SecondaryDue => SecondaryTasks \subseteq Due)
  BY SearchesNamed DEF Due, WebSearches
<1> QED BY <1>1, <1>2, WatchKeeps DEF LoopAgain

LEMMA NothingLeftKeeps == ASSUME Inv, NothingLeft PROVE Inv'
<1> USE SearchesNamed
<1>1. Loops /\ todo = {} /\ cut = "no" /\ ~Over /\ call.name = "web_discovery"
      /\ pending = {} /\ Due = {}
  BY AtHandling DEF NothingLeft
<1>2. SecondaryTasks = {} \/ SecondaryStarted
  BY <1>1 DEF Due, SecondaryDue
<1>3. BackupStarted
  BY <1>1, <1>2 DEF Due, SecondaryDue
<1>4. Owed = {"web", "news", "ddgs"} \cup SecondaryTasks
  BY <1>1 DEF Owed, CompanyCalls
<1>5. \A t \in Owed : t \in WebSearches /\ task[t] # "unborn"
  BY <1>1, <1>2, <1>3, <1>4 DEF Loops, Bookkeeping, FirstSearches, BackupStarted,
                                WebSearches
<1>6. Thorough
  BY <1>1, <1>5 DEF Thorough, Loops, Bookkeeping
<1>7. RunningTasks = {}
  BY <1>1 DEF RunningTasks, Loops, Bookkeeping, Answers
<1>8. CASE Payloads
  <2>1. Await("last_ranking", {"rank"})
    BY <1>8 DEF NothingLeft
  <2>2. /\ \A t \in Tasks : task'[t] = IF t = "rank" THEN "running" ELSE task[t]
        /\ at' = "last_ranking" /\ UNCHANGED <<call, pending, todo, holds>>
    BY <2>1 DEF Await, Same, Start, Started, With
  <2>3. /\ \A t \in WebSearches : task'[t] = task[t]
        /\ task'["rank"] = "running" /\ task'["ground"] # "running"
        /\ \A t \in Tasks \ (WebSearches \cup {"ground", "rank"}) : task'[t] = "unborn"
    BY <1>1, <2>2 DEF WebSearches, Loops
  <2>4. Payloads'
    BY <1>8, <2>2 DEF Payloads
  <2>5. Bookkeeping'
    BY <1>1, <2>2, <2>3, <2>4, HandledWell DEF Loops
  <2>6. Owed' = Owed
    BY <1>1, <1>4, <2>2 DEF Owed, CompanyCalls, SecondaryTasks, Is
  <2>7. \A t \in Owed' : task'[t] # "unborn"
    BY <1>5, <2>3, <2>6
  <2>8. Stands'
    BY <1>1, <2>2, <2>3, <2>4, <2>5, <2>7 DEF Stands, DiscoveryStands, WebStands
  <2> QED BY <1>1, <2>1, <2>8, Awaits
<1>9. CASE ~Payloads
  <2>1. NothingLost
    BY <1>1, <1>9, WebPlain DEF NothingLost, Leads, Loops, Bookkeeping, Barren
  <2> QED BY <1>1, <1>6, <1>7, <1>9, <2>1, Returns DEF NothingLeft
<1> QED BY <1>8, <1>9

LEMMA DropSearchesKeeps == ASSUME Inv, DropSearches PROVE Inv'
<1> USE SearchesNamed
<1>1. /\ Loops /\ cut = "no" /\ ~Over /\ call.name = "web_discovery"
      /\ pending \subseteq WebSearches
  BY AtHandling DEF DropSearches
<1>2. RunningTasks \subseteq pending
  BY <1>1 DEF RunningTasks, Loops, Bookkeeping, Answers
<1>3. ASSUME Return("hits", pending) PROVE Inv'
  BY <1>1, <1>2, <1>3, Returns
<1>4. ASSUME Leave("collecting", pending), Same PROVE Inv'
  <2>1. RunningTasks' = {}
    BY <1>2, <1>4 DEF Leave, Cancelled, RunningTasks
  <2>2. \A t \in Tasks \ (WebSearches \cup {"ground", "rank"}) : task'[t] = "unborn"
    BY <1>1, <1>4 DEF Leave, Cancelled, Loops
  <2>3. Stands'
    BY <1>1, <1>4, <2>1, <2>2 DEF Leave, Stands, DiscoveryStands, WebStands
  <2> QED BY <1>1, <1>4, <2>3, GoesOn DEF Same, TypedLocals, Inv, TypeOK
<1> QED BY <1>3, <1>4 DEF DropSearches

LEMMA SearchesDroppedKeeps == ASSUME Inv, SearchesDropped PROVE Inv'
<1>1. RunningTasks = {}
  BY AtWeb DEF SearchesDropped, At, WebStands
<1> QED BY <1>1, Returns DEF SearchesDropped, At

LEMMA RankedAgainKeeps == ASSUME Inv, RankedAgain PROVE Inv'
<1> USE SearchesNamed
<1>1. /\ Bookkeeping /\ cut = "no" /\ ~Over /\ call.name = "web_discovery"
      /\ \A t \in Tasks \ (WebSearches \cup {"ground", "rank"}) : task[t] = "unborn"
      /\ task["rank"] \in Answers /\ task["ground"] # "running"
      /\ pending = {} /\ \A t \in Owed : task[t] # "unborn"
  BY AtWeb DEF RankedAgain, At, WebStands, Ended, Answers
<1>2. RunningTasks = {}
  BY <1>1 DEF RunningTasks, Bookkeeping, Answers
<1>3. Thorough
  <2>1. Owed \subseteq WebSearches
    BY <1>1 DEF Owed, CompanyCalls, WebSearches, SecondaryTasks
  <2> QED BY <1>1, <2>1 DEF Thorough, Bookkeeping
<1>4. ~Got("rank") => task["rank"] = "none"
  BY <1>1, WebPlain DEF Got, Answers
<1>5. ~Got("rank") => NothingLost
  BY <1>1, <1>4, NamedTasks DEF NothingLost, WebSearches
<1> QED BY <1>1, <1>2, <1>3, <1>5, Returns DEF RankedAgain, ReturnIf

LEMMA DiscoveryKeeps == ASSUME Inv, DiscoveryResumes PROVE Inv'
BY RankPagesKeeps, PagesRankedKeeps, GroundKeeps, GroundingAnsweredKeeps, DiscoverKeeps,
   HeadStartOverKeeps, SearchesEndedKeeps, HandleKeeps, NewsGroundedKeeps, RankedKeeps,
   LoopAgainKeeps, NothingLeftKeeps, DropSearchesKeeps, SearchesDroppedKeeps,
   RankedAgainKeeps DEF DiscoveryResumes

-----------------------------------------------------------------------------
(* Asking the SEC, and the pages of a company *)

LEMMA SecPrioritizedKeeps ==
    ASSUME Inv, AskCompanyFirst \/ CompanyAnswered \/ FilingsAnswered PROVE Inv'
<1> USE NamedTasks DEF Roles
<1>1. CASE AskCompanyFirst
  <2>1. Shape({"company"}, {}, {})'
    BY <1>1, AtStart DEF AskCompanyFirst, At, Await, Start, Started, With, Shape
  <2>2. Stands'
    BY <1>1, <2>1 DEF AskCompanyFirst, At, Await, Start, Stands, FilingsStands, On
  <2> QED BY <1>1, <2>2, Awaits DEF AskCompanyFirst, At
<1>2. CASE CompanyAnswered
  <2>1. /\ Shape({"company"}, {}, {}) /\ call.name = "sec_prioritized" /\ cut = "no" /\ ~Over
    BY <1>2, AtAwait DEF CompanyAnswered, At, FilingsCallNames, FilingsStands, CompanyStands,
                         CompanyCalls, On
  <2>2. task["company"] \in Answers \ {"weak"}
    BY <1>2, <2>1, EndedPlainly DEF CompanyAnswered, Inv, Shape, Ended, Answers
  <2>3. CASE Got("company")
    <3>1. RunningTasks = {}
      BY <2>1, <2>2 DEF RunningTasks, Shape, Answers
    <3> QED BY <1>2, <2>1, <2>3, <3>1, Returns DEF CompanyAnswered
  <2>4. CASE ~Got("company")
    <3>1. Await("filings", {"filings"})
      BY <1>2, <2>4 DEF CompanyAnswered
    <3>2. Shape({"filings"}, {"company"}, {})'
      BY <2>1, <2>2, <2>4, <3>1 DEF Await, Start, Started, With, Shape, Got, Answers, Barren
    <3>3. Stands'
      BY <2>1, <3>1, <3>2 DEF Await, Start, Stands, FilingsStands, On
    <3> QED BY <2>1, <3>1, <3>3, Awaits
  <2> QED BY <2>3, <2>4
<1>3. CASE FilingsAnswered
  <2>1. /\ Shape({"filings"}, {"company"}, {}) /\ call.name = "sec_prioritized" /\ cut = "no"
        /\ ~Over
    BY <1>3, AtAwait DEF FilingsAnswered, At, FilingsCallNames, FilingsStands, CompanyStands,
                         CompanyCalls, On
  <2>2. task["filings"] \in Answers \ {"weak"} /\ task["company"] \in Answers
    BY <1>3, <2>1, EndedPlainly DEF FilingsAnswered, Inv, Shape, Ended, Answers, Barren
  <2>3. RunningTasks = {}
    BY <2>1, <2>2 DEF RunningTasks, Shape, Answers, Barren
  <2>4. ~Got("filings") => NothingLost
    BY <2>1, <2>2 DEF NothingLost, Shape, Got, Answers, Barren
  <2>5. Thorough
    BY <2>1, <2>2 DEF Thorough, Owed, CompanyCalls, SecSearches
  <2> QED BY <1>3, <2>1, <2>3, <2>4, <2>5, Returns DEF FilingsAnswered, ReturnIf
<1> QED BY <1>1, <1>2, <1>3

LEMMA AskBothKeeps == ASSUME Inv, AskBoth PROVE Inv'
<1>1. SecSearches \subseteq Tasks
  BY NamedTasks DEF Roles, SecSearches
<1>2. Shape(SecSearches, {}, {})'
  BY <1>1, AtStart DEF AskBoth, At, Start, Started, With, Shape
<1>3. Shape(pending, {}, SecSearches \ pending)' /\ pending' = SecSearches
  BY <1>2 DEF AskBoth, Shape
<1>4. Stands'
  BY <1>3 DEF AskBoth, At, Start, Stands, FilingsStands, On
<1> QED BY <1>1, <1>4, GoesOn DEF AskBoth, At, TypedLocals, Inv, TypeOK

LEMMA SecRacedKeeps == ASSUME Inv, SecRaced PROVE Inv'
<1> DEFINE done == {t \in pending : Ended(t)}
           left == pending \ done
           held == IF Usable(done) THEN {"hits"} ELSE KeptRecords(done)
<1>1. SecSearches \subseteq Tasks
  BY NamedTasks DEF Roles, SecSearches
<1>2. /\ pending \subseteq SecSearches /\ Shape(pending, {}, SecSearches \ pending)
      /\ \A t \in SecSearches \ pending :
             \/ task[t] \in Barren
             \/ task[t] = "weak" /\ holds # {}
      /\ call.name = "sec_fastest" /\ cut = "no" /\ ~Over
  BY AtAwait DEF SecRaced, At, FilingsCallNames, FilingsStands, CompanyStands, CompanyCalls,
                 On
<1>3. RunningTasks \subseteq left
  BY <1>2 DEF RunningTasks, Shape, Ended, Answers
<1>4. /\ pending' = left /\ holds' = held /\ todo' = todo
      /\ IF Usable(done)
           THEN IF left = {} THEN Finish("hits", {}) ELSE Leave("sec_collecting", left)
           ELSE IF left # {} THEN Leave("sec_race", {})
           ELSE Finish(IF KeptRecords(done) # {} THEN "hits" ELSE "empty", {})
  BY DEF SecRaced
<1>5. TypedLocals(pending', todo', holds')
  BY <1>1, <1>2, <1>4 DEF TypedLocals, Inv, TypeOK, KeptRecords
<1>6. CASE Usable(done) /\ left = {}
  BY <1>2, <1>3, <1>4, <1>5, <1>6, Ends DEF Outcomes
<1>7. CASE Usable(done) /\ left # {}
  <2>1. Leave("sec_collecting", left) /\ left \in SUBSET Tasks
    BY <1>1, <1>2, <1>4, <1>7
  <2>2. Shape({}, {}, SecSearches)'
    BY <1>2, <1>3, <2>1 DEF Leave, Cancelled, Shape, RunningTasks
  <2>3. Stands'
    BY <1>2, <2>1, <2>2 DEF Leave, Stands, FilingsStands, On
  <2> QED BY <1>2, <1>5, <2>1, <2>3, GoesOn
<1>8. \A t \in done : task[t] \in Answers
  BY <1>1, <1>2 DEF Shape, Ended, Answers
\* Once nobody has found the company, whatever was kept is among the payloads.
<1>9. ASSUME ~Usable(done), NEW t \in SecSearches \ left
      PROVE  \/ task[t] \in Barren
             \/ task[t] = "weak" /\ KeptRecords(done) # {}
  <2>1. CASE t \in done
    BY <1>8, <1>9, <2>1 DEF Usable, Got, Answers, Barren, KeptRecords
  <2>2. CASE t \notin done
    BY <1>2, <1>9, <2>2 DEF KeptRecords
  <2> QED BY <2>1, <2>2
<1>10. CASE ~Usable(done) /\ left # {}
  <2>1. /\ \A t \in Tasks : task'[t] = task[t]
        /\ pending' = left /\ holds' = KeptRecords(done) /\ at' = "sec_race"
        /\ UNCHANGED <<call, cut, outcome>> /\ Leave("sec_race", {})
    BY <1>4, <1>10 DEF Leave, Cancelled
  <2>2. Shape(left, {}, SecSearches \ left)
    BY <1>1, <1>2, <1>9, <1>10 DEF Shape, Barren
  <2>3. \A t \in SecSearches \ left :
            \/ task'[t] \in Barren
            \/ task'[t] = "weak" /\ KeptRecords(done) # {}
    BY <1>1, <1>9, <1>10, <2>1
  <2>4. left \subseteq SecSearches
    BY <1>2
  <2> HIDE DEF left, done
  <2>5. Shape(pending, {}, SecSearches \ pending)'
    BY <2>1, <2>2 DEF Shape
  <2>6. Stands'
    BY <1>2, <2>1, <2>3, <2>4, <2>5 DEF Stands, FilingsStands, On
  <2> QED BY <1>2, <1>5, <2>1, <2>6, GoesOn
<1>11. CASE ~Usable(done) /\ left = {}
  <2>1. RunningTasks = {}
    BY <1>3, <1>11
  <2>2. \A t \in SecSearches : \/ task[t] \in Barren
                               \/ task[t] = "weak" /\ KeptRecords(done) # {}
    BY <1>9, <1>11
  <2>3. Thorough
    BY <1>2, <2>2 DEF Thorough, Owed, CompanyCalls, Barren, Answers
  <2>4. KeptRecords(done) = {} => NothingLost
    <3>1. \A t \in Tasks \ SecSearches : task[t] = "unborn"
      BY <1>2 DEF Shape
    <3> QED BY <2>2, <3>1 DEF NothingLost, Barren
  <2> QED BY <1>2, <1>4, <1>5, <1>11, <2>1, <2>3, <2>4, Ends DEF Outcomes
<1> QED BY <1>6, <1>7, <1>10, <1>11

LEMMA SecCollectedKeeps == ASSUME Inv, SecCollected PROVE Inv'
<1>1. RunningTasks = {}
  BY AtAwait, ShapeRuns DEF SecCollected, At, FilingsCallNames, FilingsStands, CompanyStands,
                            CompanyCalls, On
<1> QED BY <1>1, Returns DEF SecCollected, At

LEMMA IrPagesOweNothing == ASSUME call.name = "ir_pages" PROVE Thorough
BY DEF Thorough, Owed, CompanyCalls

LEMMA IrPagesKeep ==
    ASSUME Inv, AskIrPage \/ IrPageAnswered \/ IrHomeAnswered \/ IrLinkedAnswered
    PROVE  Inv'
<1> USE NamedTasks DEF Roles
<1>1. call.name = "ir_pages" /\ cut = "no" /\ ~Over
  BY DEF AskIrPage, IrPageAnswered, IrHomeAnswered, IrLinkedAnswered, At
<1>2. ASSUME RunningTasks = {}, \A t \in Tasks \ {"ir_page"} : task[t] = "unborn",
             task["ir_page"] # "hits", Await("ir_home", {"ir_home"})
      PROVE  Inv'
  <2>1. Shape({"ir_home"}, {}, {"ir_page"})' /\ task'["ir_page"] # "hits"
    BY <1>2 DEF Await, Start, Started, With, Shape, RunningTasks
  <2>2. Stands'
    BY <1>1, <1>2, <2>1 DEF Await, Start, Stands, FilingsStands, On
  <2> QED BY <1>1, <1>2, <2>2, Awaits
<1>3. CASE AskIrPage
  <2>1. Shape({}, {}, {}) /\ RunningTasks = {} /\ NothingLost
    BY <1>1, <1>3, AtStart DEF AskIrPage, At
  <2>2. ASSUME Await("ir_page", {"ir_page"}) PROVE Inv'
    <3>1. Shape({"ir_page"}, {}, {})'
      BY <2>1, <2>2 DEF Await, Start, Started, With, Shape
    <3>2. Stands'
      BY <1>1, <2>2, <3>1 DEF Await, Start, Stands, FilingsStands, On
    <3> QED BY <1>1, <2>2, <3>2, Awaits
  <2>3. ASSUME Await("ir_home", {"ir_home"}) PROVE Inv'
    BY <1>2, <2>1, <2>3 DEF Shape
  <2>4. ASSUME Return("empty", {}) PROVE Inv'
    BY <1>1, <2>1, <2>4, IrPagesOweNothing, Returns
  <2> QED BY <1>3, <2>2, <2>3, <2>4 DEF AskIrPage
<1>4. CASE IrPageAnswered
  <2>1. Shape({"ir_page"}, {}, {}) /\ Ended("ir_page")
    BY <1>4, AtAwait DEF IrPageAnswered, At, FilingsCallNames, FilingsStands, CompanyStands,
                         CompanyCalls, On
  <2>2. RunningTasks = {} /\ (~Got("ir_page") => NothingLost)
    BY <2>1, LastAnswer DEF SecSearches
  <2>3. \A t \in Tasks \ {"ir_page"} : task[t] = "unborn"
    BY <2>1 DEF Shape
  <2> QED BY <1>1, <1>2, <1>4, <2>2, <2>3, IrPagesOweNothing, Returns DEF IrPageAnswered, Got
<1>5. CASE IrHomeAnswered
  <2>1. /\ Shape({"ir_home"}, {}, {"ir_page"}) /\ task["ir_page"] # "hits"
        /\ Ended("ir_home")
    BY <1>5, AtAwait DEF IrHomeAnswered, At, FilingsCallNames, FilingsStands, CompanyStands,
                         CompanyCalls, On
  <2>2. RunningTasks = {} /\ task["ir_home"] \in Answers
    BY <2>1 DEF RunningTasks, Shape, Ended, Answers
  <2>3. NothingLost
    BY <2>1, EndedPlainly DEF NothingLost, Leads, Shape, Inv, SecSearches
  <2>4. ASSUME Await("ir_linked", {"ir_linked"}) PROVE Inv'
    <3>1. Shape({"ir_linked"}, {}, {"ir_page", "ir_home"})'
      BY <2>1, <2>2, <2>4 DEF Await, Start, Started, With, Shape, Answers
    <3>2. Stands'
      BY <1>1, <2>4, <3>1 DEF Await, Start, Stands, FilingsStands, On
    <3> QED BY <1>1, <2>4, <3>2, Awaits
  <2> QED BY <1>1, <1>5, <2>2, <2>3, <2>4, IrPagesOweNothing, Returns DEF IrHomeAnswered
<1>6. CASE IrLinkedAnswered
  <2>1. Shape({"ir_linked"}, {}, {"ir_page", "ir_home"}) /\ Ended("ir_linked")
    BY <1>6, AtAwait DEF IrLinkedAnswered, At, FilingsCallNames, FilingsStands, CompanyStands,
                         CompanyCalls, On
  <2>2. RunningTasks = {}
    BY <2>1 DEF RunningTasks, Shape, Ended, Answers
  <2> QED BY <1>1, <1>6, <2>2, Returns DEF IrLinkedAnswered
<1> QED BY <1>3, <1>4, <1>5, <1>6

-----------------------------------------------------------------------------
(* The searches about a company *)

\* What holds wherever a company's call stands and nobody ranks ahead of time.
CompanyNotes ==
    /\ task["early"] # "hits"
    /\ call.name = "filings" /\ task["ir"] = "hits" => "payloads" \in holds

LEMMA CompanyTasks ==
    /\ EarlySteps \subseteq Tasks /\ OfficialSearches \subseteq Tasks
    /\ {"ground", "rank"} \subseteq Tasks
    /\ OfficialSearches \subseteq {"official", "web", "news"}
    /\ EarlySteps \cap {"official", "web", "news", "ground", "rank"} = {}
BY NamedTasks DEF Roles, EarlySteps, OfficialSearches

\* What a company's call owes.
LEMMA CompanyOwes ==
    ASSUME call.name \in CompanyCalls
    PROVE  Owed = OfficialSearches \cup IF ShouldQuerySec THEN {"sec"} ELSE {}
BY DEF Owed, CompanyCalls

LEMMA AtCompany ==
    ASSUME Inv, NEW a, Here(a), a # "start"
    PROVE  /\ CompanyStands /\ cut = "no" /\ ~Over /\ at = a /\ call.name \in CompanyCalls
           /\ (a \notin {"early_direct", "early_ir", "early_sec"} => task["early"] # "hits")
BY AtAwait DEF Here, At, CompanyCalls, FilingsCallNames, FilingsStands, CompanyStands, On

LEMMA AskOfficialKeeps ==
    ASSUME Inv, cut = "no", ~Over, call.name \in CompanyCalls, AskOfficial,
           Shape({}, {}, EarlySteps), CompanyNotes,
           ShouldQuerySec => task["sec"] \in Answers
    PROVE  Inv'
<1> USE CompanyTasks
<1>1. /\ at' = "official" /\ UNCHANGED <<call, holds, cut, outcome>>
      /\ \A t \in Tasks : task'[t] = IF t \in OfficialSearches THEN "running" ELSE task[t]
  BY DEF AskOfficial, Await, Same, Start, Started, With
<1>2. OfficialSearches' = OfficialSearches /\ (ShouldQuerySec' <=> ShouldQuerySec)
  BY <1>1 DEF OfficialSearches, ShouldQuerySec, Is
<1>3. Shape(OfficialSearches, {}, EarlySteps)'
  BY <1>1, <1>2 DEF Shape
<1>4. task'["early"] = task["early"] /\ task'["ir"] = task["ir"] /\ task'["sec"] = task["sec"]
  BY <1>1 DEF EarlySteps
<1>5. Stands'
  BY <1>1, <1>2, <1>3, <1>4 DEF Stands, FilingsStands, CompanyStands, CompanyNotes
<1> QED BY <1>5, Awaits DEF AskOfficial

LEMMA AskSecKeeps ==
    ASSUME Inv, cut = "no", ~Over, call.name \in CompanyCalls, AskSec,
           Shape({}, {}, {"early", "target", "ir"}), CompanyNotes
    PROVE  Inv'
<1> USE NamedTasks DEF Roles
<1>1. CASE ShouldQuerySec
  <2>1. Await("sec", {"sec"})
    BY <1>1 DEF AskSec
  <2>2. Shape({"sec"}, {}, {"early", "target", "ir"})' /\ CompanyNotes'
    BY <2>1 DEF Await, Same, Start, Started, With, Shape, CompanyNotes
  <2>3. Stands'
    BY <1>1, <2>1, <2>2 DEF Await, Start, Stands, FilingsStands, CompanyStands, CompanyNotes,
                            ShouldQuerySec, Is
  <2> QED BY <2>1, <2>3, Awaits
<1>2. CASE ~ShouldQuerySec
  <2>1. Shape({}, {}, EarlySteps)
    BY DEF Shape, EarlySteps
  <2> QED BY <1>2, <2>1, AskOfficialKeeps DEF AskSec
<1> QED BY <1>1, <1>2

LEMMA AskIrKeeps ==
    ASSUME Inv, cut = "no", ~Over, call.name \in CompanyCalls, AskIr,
           Shape({}, {}, {"early", "target"}), CompanyNotes
    PROVE  Inv'
<1> USE NamedTasks DEF Roles
<1>1. CASE ShouldQuerySec /\ Is("ir")
  <2>1. Await("ir", {"ir"})
    BY <1>1 DEF AskIr
  <2>2. Shape({"ir"}, {}, {"early", "target"})' /\ CompanyNotes'
    BY <2>1 DEF Await, Same, Start, Started, With, Shape, CompanyNotes
  <2>3. Stands'
    BY <1>1, <2>1, <2>2 DEF Await, Start, Stands, FilingsStands, CompanyStands, CompanyNotes,
                            ShouldQuerySec, Is
  <2> QED BY <2>1, <2>3, Awaits
<1>2. CASE ~(ShouldQuerySec /\ Is("ir"))
  <2>1. Shape({}, {}, {"early", "target", "ir"})
    BY DEF Shape
  <2> QED BY <1>2, <2>1, AskSecKeeps DEF AskIr
<1> QED BY <1>1, <1>2

LEMMA AskTargetKeeps ==
    ASSUME Inv, cut = "no", ~Over, call.name \in CompanyCalls, AskTarget,
           Shape({}, {}, {"early"}), CompanyNotes
    PROVE  Inv'
<1> USE NamedTasks DEF Roles
<1>1. CASE ShouldQuerySec /\ ~Is("known")
  <2>1. Await("target", {"target"})
    BY <1>1 DEF AskTarget
  <2>2. Shape({"target"}, {}, {"early"})' /\ CompanyNotes'
    BY <2>1 DEF Await, Same, Start, Started, With, Shape, CompanyNotes
  <2>3. Stands'
    BY <1>1, <2>1, <2>2 DEF Await, Start, Stands, FilingsStands, CompanyStands, CompanyNotes,
                            ShouldQuerySec, Is
  <2> QED BY <2>1, <2>3, Awaits
<1>2. CASE ~(ShouldQuerySec /\ ~Is("known"))
  <2>1. Shape({}, {}, {"early", "target"})
    BY DEF Shape
  <2> QED BY <1>2, <2>1, AskIrKeeps DEF AskTarget
<1> QED BY <1>1, <1>2

LEMMA BeginCompanyKeeps == ASSUME Inv, CompanyFixture \/ BeginCompany PROVE Inv'
<1> USE NamedTasks DEF Roles
<1>1. /\ Shape({}, {}, {}) /\ RunningTasks = {} /\ cut = "no" /\ ~Over
      /\ call.name \in CompanyCalls
  BY AtStart DEF CompanyFixture, BeginCompany, Here, At
<1>2. CASE CompanyFixture
  BY <1>1, <1>2, Returns DEF CompanyFixture
<1>3. CASE BeginCompany /\ HasDirectCandidates
  <2>1. Await("early_direct", {"early"})
    BY <1>3 DEF BeginCompany
  <2>2. Shape({"early"}, {}, {})' /\ task'["ir"] = "unborn"
    BY <1>1, <2>1 DEF Await, Start, Started, With, Shape
  <2>3. Stands'
    BY <1>1, <2>1, <2>2 DEF Await, Start, Stands, FilingsStands, CompanyStands
  <2> QED BY <1>1, <2>1, <2>3, Awaits
<1>4. CASE BeginCompany /\ ~HasDirectCandidates
  <2>1. Shape({}, {}, {"early"}) /\ CompanyNotes
    BY <1>1 DEF Shape, CompanyNotes
  <2> QED BY <1>1, <1>4, <2>1, AskTargetKeeps DEF BeginCompany
<1> QED BY <1>2, <1>3, <1>4

LEMMA DirectRankedKeeps == ASSUME Inv, DirectRanked PROVE Inv'
<1> USE NamedTasks DEF Roles
<1>1. /\ Shape({"early"}, {}, {}) /\ cut = "no" /\ ~Over /\ call.name \in CompanyCalls
      /\ Ended("early")
  BY AtCompany DEF DirectRanked, CompanyStands
<1>2. RunningTasks = {} /\ task["ir"] = "unborn" /\ Shape({}, {}, {"early"})
  BY <1>1 DEF RunningTasks, Shape, Ended, Answers
<1>3. CASE Got("early")
  BY <1>1, <1>2, <1>3, Returns DEF DirectRanked
<1>4. CASE ~Got("early")
  BY <1>1, <1>2, <1>4, AskTargetKeeps DEF DirectRanked, CompanyNotes, Got
<1> QED BY <1>3, <1>4

LEMMA TargetAnsweredKeeps == ASSUME Inv, TargetAnswered PROVE Inv'
<1> USE NamedTasks DEF Roles
<1>1. /\ Shape({"target"}, {}, {"early"}) /\ cut = "no" /\ ~Over
      /\ call.name \in CompanyCalls /\ Ended("target") /\ task["early"] # "hits"
  BY AtCompany DEF TargetAnswered, CompanyStands
<1>2. RunningTasks = {} /\ task["ir"] = "unborn" /\ Shape({}, {}, {"early", "target"})
  BY <1>1 DEF RunningTasks, Shape, Ended, Answers
<1>3. CASE task["target"] \in {"failed", "broken"}
  BY <1>1, <1>2, <1>3, Returns DEF TargetAnswered
<1>4. CASE task["target"] \notin {"failed", "broken"}
  BY <1>1, <1>2, <1>4, AskIrKeeps DEF TargetAnswered, CompanyNotes
<1> QED BY <1>3, <1>4

LEMMA IrAnsweredKeeps == ASSUME Inv, IrAnswered PROVE Inv'
<1> USE NamedTasks DEF Roles
<1>1. /\ Shape({"ir"}, {}, {"early", "target"}) /\ cut = "no" /\ ~Over
      /\ call.name \in CompanyCalls /\ Ended("ir") /\ task["early"] # "hits" /\ ShouldQuerySec
  BY AtCompany DEF IrAnswered, CompanyStands
<1>2. RunningTasks = {} /\ Shape({}, {}, {"early", "target", "ir"})
  BY <1>1 DEF RunningTasks, Shape, Ended, Answers
<1>3. CASE call.name = "filings"
  <2>1. /\ Start("sec", {"sec"})
        /\ holds' = IF Got("ir") THEN {"payloads"} ELSE {}
        /\ UNCHANGED <<pending, todo>>
    BY <1>3 DEF IrAnswered
  <2>2. Shape({"sec"}, {}, {"early", "target", "ir"})' /\ CompanyNotes'
    BY <1>1, <1>2, <2>1 DEF Start, Started, With, Shape, CompanyNotes, Got
  <2>3. Stands'
    BY <1>1, <2>1, <2>2 DEF Start, Stands, FilingsStands, CompanyStands, CompanyNotes,
                            ShouldQuerySec, Is
  <2> QED BY <1>1, <2>1, <2>3, GoesOn DEF TypedLocals, Inv, TypeOK
<1>4. CASE call.name # "filings" /\ Got("ir") /\ Is("ir_strong")
  <2>1. Await("early_ir", {"early"})
    BY <1>4 DEF IrAnswered
  <2>2. Shape({"early"}, {}, {"target", "ir"})' /\ task'["early"] = "running"
    BY <1>1, <1>2, <2>1 DEF Await, Start, Started, With, Shape
  <2>3. Stands'
    BY <1>1, <1>4, <2>1, <2>2 DEF Await, Start, Stands, FilingsStands, CompanyStands,
                                  ShouldQuerySec, Is
  <2> QED BY <1>1, <2>1, <2>3, Awaits
<1>5. CASE call.name # "filings" /\ ~(Got("ir") /\ Is("ir_strong"))
  BY <1>1, <1>2, <1>5, AskSecKeeps DEF IrAnswered, CompanyNotes
<1> QED BY <1>3, <1>4, <1>5

LEMMA IrRankedKeeps == ASSUME Inv, IrRanked PROVE Inv'
<1> USE NamedTasks DEF Roles
<1>1. /\ Shape({"early"}, {}, {"target", "ir"}) /\ cut = "no" /\ ~Over
      /\ call.name \in CompanyCalls /\ Ended("early")
      /\ call.name = "filings" /\ task["ir"] = "hits" => "payloads" \in holds
  BY AtCompany DEF IrRanked, CompanyStands
<1>2. RunningTasks = {} /\ Shape({}, {}, {"early", "target", "ir"})
  BY <1>1 DEF RunningTasks, Shape, Ended, Answers
<1>3. CASE Got("early")
  BY <1>1, <1>2, <1>3, Returns DEF IrRanked
<1>4. CASE ~Got("early")
  BY <1>1, <1>2, <1>4, AskSecKeeps DEF IrRanked, CompanyNotes, Got
<1> QED BY <1>3, <1>4

LEMMA SecAnsweredKeeps == ASSUME Inv, SecAnswered PROVE Inv'
<1> USE NamedTasks DEF Roles
<1>1. /\ Shape({"sec"}, {}, {"early", "target", "ir"}) /\ cut = "no" /\ ~Over
      /\ call.name \in CompanyCalls /\ Ended("sec") /\ task["early"] # "hits"
      /\ call.name = "filings" /\ task["ir"] = "hits" => "payloads" \in holds
  BY AtCompany DEF SecAnswered, CompanyStands
<1>2. RunningTasks = {} /\ Shape({}, {}, EarlySteps) /\ task["sec"] \in Answers
  BY <1>1 DEF RunningTasks, Shape, Ended, Answers, EarlySteps
<1>3. CASE RankSecEarly
  <2>1. Await("early_sec", {"early"})
    BY <1>3 DEF SecAnswered
  <2>2. /\ Shape({"early"}, {}, {"target", "ir", "sec"})'
        /\ task'["ir"] = task["ir"] /\ task'["sec"] = task["sec"]
    BY <1>1, <1>2, <2>1 DEF Await, Start, Started, With, Shape, EarlySteps
  <2>3. Stands'
    BY <1>1, <1>2, <2>1, <2>2 DEF Await, Same, Start, Stands, FilingsStands, CompanyStands
  <2> QED BY <1>1, <2>1, <2>3, Awaits
<1>4. CASE ~RankSecEarly
  BY <1>1, <1>2, <1>4, AskOfficialKeeps DEF SecAnswered, CompanyNotes
<1> QED BY <1>3, <1>4

LEMMA SecRankedKeeps == ASSUME Inv, SecRanked PROVE Inv'
<1> USE NamedTasks DEF Roles
<1>1. /\ Shape({"early"}, {}, {"target", "ir", "sec"}) /\ task["sec"] \in Answers
      /\ cut = "no" /\ ~Over /\ call.name \in CompanyCalls /\ Ended("early")
      /\ call.name = "filings" /\ task["ir"] = "hits" => "payloads" \in holds
  BY AtCompany DEF SecRanked, CompanyStands
<1>2. RunningTasks = {} /\ Shape({}, {}, EarlySteps)
  BY <1>1 DEF RunningTasks, Shape, Ended, Answers, EarlySteps
<1>3. CASE Got("early")
  BY <1>1, <1>2, <1>3, Returns DEF SecRanked
<1>4. CASE ~Got("early")
  BY <1>1, <1>2, <1>4, AskOfficialKeeps DEF SecRanked, CompanyNotes, Got
<1> QED BY <1>3, <1>4

LEMMA RankingAllKeeps ==
    ASSUME Inv, cut = "no", ~Over, call.name \in CompanyCalls, CompanyNotes,
           Await("ranking_all", {"rank"}),
           Shape({}, {}, EarlySteps \cup OfficialSearches \cup {"ground"}), Thorough
    PROVE  Inv'
<1> USE CompanyTasks
<1>1. /\ at' = "ranking_all" /\ UNCHANGED <<call, holds, cut, outcome>>
      /\ \A t \in Tasks : task'[t] = IF t = "rank" THEN "running" ELSE task[t]
  BY DEF Await, Same, Start, Started, With
<1>2. OfficialSearches' = OfficialSearches /\ (ShouldQuerySec' <=> ShouldQuerySec)
  BY <1>1 DEF OfficialSearches, ShouldQuerySec, Is
<1>3. Shape({"rank"}, {}, EarlySteps \cup OfficialSearches \cup {"ground"})'
  BY <1>1, <1>2 DEF Shape
<1>4. task'["early"] = task["early"] /\ task'["ir"] = task["ir"]
  BY <1>1 DEF EarlySteps
<1>5. Owed' = Owed
  BY <1>1, <1>2, CompanyOwes DEF Owed, CompanyCalls
<1>6. \A t \in Owed : t \in Tasks /\ t # "rank"
  BY CompanyOwes, NamedTasks DEF Roles
<1>7. \A t \in Owed' : task'[t] \in Answers
  BY <1>1, <1>5, <1>6 DEF Thorough
<1>8. Stands'
  BY <1>1, <1>3, <1>4, <1>7 DEF Stands, FilingsStands, CompanyStands, CompanyNotes
<1> QED BY <1>8, Awaits

LEMMA OfficialAnsweredKeeps == ASSUME Inv, OfficialAnswered PROVE Inv'
<1> USE CompanyTasks
<1>1. /\ Shape(OfficialSearches, {}, EarlySteps) /\ cut = "no" /\ ~Over
      /\ call.name \in CompanyCalls /\ CompanyNotes /\ AllEnded(OfficialSearches)
      /\ ShouldQuerySec => task["sec"] \in Answers
  BY AtCompany DEF OfficialAnswered, CompanyStands, CompanyNotes
<1>2. /\ RunningTasks = {} /\ (\A t \in OfficialSearches : task[t] \in Answers)
      /\ Shape({}, {}, EarlySteps \cup OfficialSearches)
  BY <1>1 DEF RunningTasks, Shape, AllEnded, Ended, Answers
<1>3. Thorough
  BY <1>1, <1>2, CompanyOwes DEF Thorough
<1>4. ASSUME call.name = "industry", Await("resolving", {"ground"}) PROVE Inv'
  <2>1. /\ at' = "resolving" /\ UNCHANGED <<call, holds, cut, outcome>>
        /\ \A t \in Tasks : task'[t] = IF t = "ground" THEN "running" ELSE task[t]
    BY <1>4 DEF Await, Same, Start, Started, With
  <2>2. OfficialSearches' = OfficialSearches
    BY <2>1 DEF OfficialSearches
  <2>3. Shape({"ground"}, {}, EarlySteps \cup OfficialSearches)'
    BY <1>2, <2>1, <2>2 DEF Shape
  <2>4. task'["early"] = task["early"] /\ task'["ir"] = task["ir"]
    BY <2>1 DEF EarlySteps
  <2>5. Owed' = Owed
    BY <2>1, <1>4 DEF Owed, CompanyCalls, OfficialSearches, ShouldQuerySec, Is
  <2>6. \A t \in Owed : t \in Tasks /\ t # "ground"
    BY <1>1, CompanyOwes, NamedTasks DEF Roles
  <2>7. \A t \in Owed' : task'[t] \in Answers
    BY <1>3, <2>1, <2>5, <2>6 DEF Thorough
  <2>8. Stands'
    BY <1>1, <2>1, <2>3, <2>4, <2>7 DEF Stands, FilingsStands, CompanyStands, CompanyNotes
  <2> QED BY <1>1, <1>4, <2>8, Awaits
<1>5. ASSUME Await("ranking_all", {"rank"}) PROVE Inv'
  <2>1. Shape({}, {}, EarlySteps \cup OfficialSearches \cup {"ground"})
    BY <1>2 DEF Shape
  <2> QED BY <1>1, <1>3, <1>5, <2>1, RankingAllKeeps
<1>6. ASSUME ~(call.name = "industry" /\ Got("news")), ~FoundInTheEnd, Return("empty", {})
      PROVE  Inv'
  <2>1. \A t \in OfficialSearches : task[t] \notin {"hits", "weak"}
    BY <1>6, EndedPlainly DEF FoundInTheEnd, Usable, Got, Inv, SecSearches
  <2>2. task["sec"] \notin {"hits", "weak"} /\ "payloads" \notin holds
    BY <1>6 DEF FoundInTheEnd, SecRecords
  <2>3. \A t \in {"early", "target", "ir"} : task[t] # "weak"
    BY EndedPlainly, NamedTasks DEF Inv, Roles, SecSearches
  <2>4. call.name = "industry" \/ task["ir"] # "hits"
    BY <1>1, <2>2 DEF CompanyNotes, CompanyCalls
  <2>5. \A t \in EarlySteps \ Leads : task[t] \notin {"hits", "weak"}
    BY <1>1, <2>2, <2>3, <2>4 DEF EarlySteps, Leads, CompanyNotes
  <2>6. NothingLost
    BY <1>1, <2>1, <2>5 DEF NothingLost, Shape
  <2> QED BY <1>1, <1>2, <1>3, <1>6, <2>6, Returns
<1> QED BY <1>4, <1>5, <1>6 DEF OfficialAnswered

LEMMA NewsResolvedKeeps == ASSUME Inv, NewsResolved PROVE Inv'
<1> USE CompanyTasks
<1>1. /\ Shape({"ground"}, {}, EarlySteps \cup OfficialSearches) /\ cut = "no" /\ ~Over
      /\ call.name \in CompanyCalls /\ CompanyNotes /\ Ended("ground") /\ Thorough
  BY AtCompany DEF NewsResolved, CompanyStands, CompanyNotes, Thorough
<1>2. Shape({}, {}, EarlySteps \cup OfficialSearches \cup {"ground"})
  BY <1>1 DEF Shape, Ended, Answers
<1> QED BY <1>1, <1>2, RankingAllKeeps DEF NewsResolved

LEMMA AllRankedKeeps == ASSUME Inv, AllRanked PROVE Inv'
<1> USE CompanyTasks
<1>1. /\ Shape({"rank"}, {}, EarlySteps \cup OfficialSearches \cup {"ground"})
      /\ cut = "no" /\ ~Over /\ call.name \in CompanyCalls /\ CompanyNotes /\ Ended("rank")
      /\ Thorough
  BY AtCompany DEF AllRanked, CompanyStands, CompanyNotes, Thorough
<1>2. RunningTasks = {} /\ task["rank"] \in Answers
  BY <1>1 DEF RunningTasks, Shape, Ended, Answers
<1>3. ~Got("rank") => task["rank"] = "none"
  BY <1>2, EndedPlainly DEF Got, Answers, Inv, Unfailing, SecSearches
<1>4. task["early"] \notin {"hits", "weak"}
  BY <1>1, EndedPlainly, NamedTasks DEF CompanyNotes, Inv, Roles, SecSearches
<1>5. ~Got("rank") => NothingLost
  BY <1>3, <1>4 DEF NothingLost
<1> QED BY <1>1, <1>2, <1>5, Returns DEF AllRanked, ReturnIf

LEMMA FilingsKeeps == ASSUME Inv, FilingsResumes PROVE Inv'
BY SecPrioritizedKeeps, AskBothKeeps, SecRacedKeeps, SecCollectedKeeps, IrPagesKeep,
   BeginCompanyKeeps, DirectRankedKeeps, TargetAnsweredKeeps, IrAnsweredKeeps, IrRankedKeeps,
   SecAnsweredKeeps, SecRankedKeeps, OfficialAnsweredKeeps, NewsResolvedKeeps, AllRankedKeeps
   DEF FilingsResumes

LEMMA ResumeKeeps == ASSUME Inv, Resume PROVE Inv'
BY SearchKeeps, AcademicKeeps, PolicyKeeps, DiscoveryKeeps, NewsKeeps, FilingsKeeps DEF Resume

-----------------------------------------------------------------------------
(* A task ends: where the call stands is what it was *)

Rest == <<call, at, pending, todo, holds, cut, outcome>>

\* What can become of one task.
Ends1(t) ==
    /\ \/ task[t] = "running" /\ task'[t] \in Answers
       \/ task[t] = "cancelling" /\ task'[t] = "cancelled"
    /\ \A s \in Tasks : s # t => task'[s] = task[s]
    /\ UNCHANGED Rest

LEMMA TaskEnds ==
    ASSUME Inv, NEW t \in Tasks, (\E r \in Can(t) : Answer(t, r)) \/ Unwind(t)
    PROVE  /\ Ends1(t) /\ task' \in [Tasks -> TaskStates]
           /\ task'[t] \in Can(t) \cup {"cancelled"}
BY AnswersTyped DEF Answer, Unwind, Ends1, Rest, Inv, TypeOK, TaskStates

LEMMA ShapeStays ==
    ASSUME NEW t \in Tasks, Ends1(t)
    PROVE  \A run, barren, other :
               Shape(run, barren, other) => Shape(run, barren, other)'
BY DEF Shape, Ends1, Answers, Barren

LEMMA TaskEndsStart ==
    ASSUME NEW t \in Tasks, Ends1(t), Shape({}, {}, {})
    PROVE  FALSE
BY DEF Ends1, Shape

LEMMA TaskEndsSearch ==
    ASSUME NEW t \in Tasks, Ends1(t), SearchStands PROVE SearchStands'
BY ShapeStays DEF Ends1, Rest, SearchStands, On

LEMMA TaskEndsAcademic ==
    ASSUME NEW t \in Tasks, Ends1(t), AcademicStands PROVE AcademicStands'
<1>1. task["mcp"] = "failed" => task'["mcp"] = "failed"
  BY NamedTasks DEF Ends1, Roles
<1> QED BY <1>1, ShapeStays DEF Ends1, Rest, AcademicStands, On

LEMMA TaskEndsPolicy ==
    ASSUME NEW t \in Tasks, Ends1(t), PolicyStands PROVE PolicyStands'
<1>1. RankedPages' = RankedPages
  BY NamedTasks DEF Ends1, RankedPages, Answers
<1>2. call' = call /\ Side' = Side
  BY DEF Ends1, Rest, Side, IsUsPolicyQuery, Is
<1>3. CASE RegistryStands
  <2>1. RegistryStands'
    BY <1>2, <1>3, ShapeStays DEF Ends1, Rest, RegistryStands, On, IsUsPolicyQuery,
                                  PrefersDirectSources, Is
  <2> QED BY <2>1 DEF PolicyStands
<1>4. CASE ~RegistryStands
  BY <1>1, <1>4, ShapeStays DEF Ends1, Rest, PolicyStands, On
<1> QED BY <1>3, <1>4

LEMMA TaskEndsWeb ==
    ASSUME NEW t \in Tasks, Ends1(t), WebStands PROVE WebStands'
<1> USE SearchesNamed
<1>1. /\ UNCHANGED Rest /\ SecondaryTasks' = SecondaryTasks
      /\ (Payloads' <=> Payloads) /\ (SecondaryStarted' <=> SecondaryStarted)
  BY DEF Ends1, Rest, SecondaryTasks, Payloads, SecondaryStarted, Is
<1>2. \A s \in Tasks :
        /\ task[s] = "unborn" => task'[s] = "unborn"
        /\ task[s] \in Barren \cup {"unborn"} => task'[s] \in Barren \cup {"unborn"}
        /\ task[s] \in Answers => task'[s] \in Answers
        /\ task[s] \in Answers \cup {"unborn"} => task'[s] \in Answers \cup {"unborn"}
        /\ task[s] \in Answers \cup {"running"} => task'[s] \in Answers \cup {"running"}
        /\ task[s] # "unborn" => task'[s] # "unborn"
        /\ task[s] # "running" => task'[s] # "running"
  BY DEF Ends1, Answers, Barren
<1>3. Bookkeeping => Bookkeeping'
  <2> SUFFICES ASSUME Bookkeeping PROVE Bookkeeping'
    OBVIOUS
  <2>1. /\ pending' \subseteq WebSearches /\ todo' \subseteq WebSearches
        /\ \A s \in WebSearches \ pending' : task'[s] \in Answers \cup {"unborn"}
        /\ \A s \in pending' : task'[s] \in Answers \cup {"running"}
        /\ \A s \in todo' : task'[s] # "unborn"
    BY <1>1, <1>2 DEF Bookkeeping, Rest
  <2>2. /\ \A s \in FirstSearches : task'[s] # "unborn"
        /\ SecondaryStarted' => \A s \in SecondaryTasks' : task'[s] # "unborn"
    BY <1>1, <1>2 DEF Bookkeeping, FirstSearches, WebSearches
  <2>3. ~Payloads' => /\ task'["rank"] = "unborn"
                      /\ \A s \in WebSearches \ (pending' \cup todo') :
                             task'[s] \in Barren \cup {"unborn"} \/ s = "news"
    BY <1>1, <1>2 DEF Bookkeeping, Rest
  <2> QED BY <2>1, <2>2, <2>3 DEF Bookkeeping
<1>4. call.name = "web_discovery" => Owed' = Owed /\ Owed \subseteq Tasks
  BY <1>1, OwedTasks DEF Owed, CompanyCalls, Rest, Is
<1>5. \A s \in Tasks \ (WebSearches \cup {"ground", "rank"}) : task'[s] = "unborn"
  BY <1>2 DEF WebStands
<1>6. RunningTasks = {} => RunningTasks' = {}
  BY <1>2 DEF RunningTasks
<1>7. (\A s \in Owed : task[s] # "unborn") /\ call.name = "web_discovery" =>
          \A s \in Owed' : task'[s] # "unborn"
  BY <1>2, <1>4
<1>8. /\ "ground" \in Tasks /\ "rank" \in Tasks
  OBVIOUS
<1> QED BY <1>1, <1>2, <1>3, <1>5, <1>6, <1>7, <1>8 DEF WebStands, Rest

LEMMA TaskEndsDiscovery ==
    ASSUME NEW t \in Tasks, Ends1(t), DiscoveryStands PROVE DiscoveryStands'
<1>1. CASE WebStands
  BY <1>1, TaskEndsWeb DEF DiscoveryStands
<1>2. CASE ~WebStands
  BY <1>2, ShapeStays DEF Ends1, Rest, DiscoveryStands, On, Is
<1> QED BY <1>1, <1>2

LEMMA TaskEndsNews ==
    ASSUME NEW t \in Tasks, Ends1(t), NewsStands PROVE NewsStands'
<1>1. CASE On("news_rss", "backup")
  <2>1. /\ RunningTasks \subseteq {"ddgs"} /\ task["ground"] # "hits"
        /\ \A s \in Tasks \ {"news", "ddgs", "ground"} : task[s] = "unborn"
    BY <1>1 DEF NewsStands, On
  <2>2. RunningTasks' \subseteq RunningTasks
    BY DEF Ends1, RunningTasks, Answers
  <2>3. task'["ground"] # "hits"
    BY <2>1, NamedTasks DEF Ends1, RunningTasks, Roles
  <2>4. \A s \in Tasks \ {"news", "ddgs", "ground"} : task'[s] = "unborn"
    BY <2>1 DEF Ends1
  <2> QED BY <1>1, <2>1, <2>2, <2>3, <2>4 DEF NewsStands, On, Ends1, Rest
<1>2. CASE ~On("news_rss", "backup")
  BY <1>2, ShapeStays DEF Ends1, Rest, NewsStands, On
<1> QED BY <1>1, <1>2

LEMMA TaskEndsCompany ==
    ASSUME NEW t \in Tasks, Ends1(t), CompanyStands PROVE CompanyStands'
<1> USE CompanyTasks
<1>1. /\ UNCHANGED Rest /\ OfficialSearches' = OfficialSearches
      /\ (ShouldQuerySec' <=> ShouldQuerySec)
  BY DEF Ends1, Rest, OfficialSearches, ShouldQuerySec, Is
<1>2. Owed' = Owed /\ Owed \subseteq Tasks /\ call.name \in CompanyCalls
  BY <1>1, CompanyOwes, OwedTasks DEF CompanyStands, Owed, CompanyCalls, Rest
<1>3. \A s \in Tasks : task[s] \in Answers => task'[s] \in Answers
  BY DEF Ends1, Answers
<1>4. {"early", "ir", "sec"} \subseteq Tasks
  BY DEF EarlySteps
<1>5. task["early"] = "running" => at \in {"early_direct", "early_ir", "early_sec"}
  BY <1>4, NamedTasks DEF CompanyStands, Shape, EarlySteps, Roles
<1>6. task["ir"] = "running" => at = "ir"
  BY <1>4, NamedTasks DEF CompanyStands, Shape, EarlySteps, Roles
<1>7. task'["early"] = "hits" => at \in {"early_direct", "early_ir", "early_sec"}
  BY <1>4, <1>5 DEF CompanyStands, Ends1
<1>8. call.name = "filings" /\ task'["ir"] = "hits" /\ at # "ir" => "payloads" \in holds
  BY <1>4, <1>6 DEF CompanyStands, Ends1
<1>9. /\ task["sec"] \in Answers => task'["sec"] \in Answers
      /\ (\A s \in Owed : task[s] \in Answers) => \A s \in Owed' : task'[s] \in Answers
  BY <1>2, <1>3, <1>4
<1> QED
  BY <1>1, <1>7, <1>8, <1>9, ShapeStays DEF CompanyStands, Rest

LEMMA TaskEndsFilings ==
    ASSUME NEW t \in Tasks, Ends1(t), FilingsStands PROVE FilingsStands'
<1> USE NamedTasks DEF Roles
<1>1. CASE CompanyStands
  BY <1>1, TaskEndsCompany DEF FilingsStands
<1>2. CASE On("sec_fastest", "sec_race")
  <2>1. \A s \in SecSearches \ pending : task'[s] = task[s]
    BY <1>2 DEF FilingsStands, On, CompanyStands, CompanyCalls, Ends1, SecSearches, Barren
  <2> QED BY <1>2, <2>1, ShapeStays DEF Ends1, Rest, FilingsStands, On, CompanyStands,
                                      CompanyCalls
<1>3. CASE ~CompanyStands /\ ~On("sec_fastest", "sec_race")
  <2>1. On("ir_pages", "ir_home") => task'["ir_page"] # "hits"
    BY <1>3 DEF FilingsStands, On, Ends1, Shape
  <2> QED BY <1>3, <2>1, ShapeStays DEF Ends1, Rest, FilingsStands, On
<1> QED BY <1>1, <1>2, <1>3

LEMMA TaskEndsStands ==
    ASSUME NEW t \in Tasks, Ends1(t), Stands PROVE Stands'
<1>1. ~(at = "start" /\ Shape({}, {}, {}))
  BY TaskEndsStart
<1> QED
  BY <1>1, TaskEndsSearch, TaskEndsAcademic, TaskEndsPolicy, TaskEndsDiscovery, TaskEndsNews,
     TaskEndsFilings DEF Stands

LEMMA TaskEndKeeps ==
    ASSUME Inv, NEW t \in Tasks, (\E r \in Can(t) : Answer(t, r)) \/ Unwind(t)
    PROVE  Inv'
<1>1. /\ Ends1(t) /\ task' \in [Tasks -> TaskStates]
      /\ task'[t] \in Can(t) \cup {"cancelled"} /\ UNCHANGED Rest
  BY TaskEnds DEF Ends1
<1>2. TypeOK'
  BY <1>1 DEF Inv, TypeOK, Rest
<1>3. Plain'
  BY <1>1 DEF Inv, Plain, Ends1, Rest, Can, Is
<1>4. RunningTasks' \subseteq RunningTasks
  BY <1>1 DEF Ends1, RunningTasks, Answers
<1>5. NothingLeftRunning'
  BY <1>1, <1>4 DEF Inv, Promises, NothingLeftRunning, LeftBehind, Over, Rest
<1>6. ASSUME outcome' = "empty"
      PROVE  /\ \A s \in Tasks : task[s] \in Answers => task'[s] = task[s]
             /\ \A s \in Tasks : task'[s] \in Answers => task'[s] = task[s]
  <2>1. RunningTasks = {}
    BY <1>1, <1>6 DEF Inv, Promises, NothingLeftRunning, LeftBehind, Over, Rest
  <2> QED BY <1>1, <2>1 DEF Ends1, RunningTasks, Answers
<1>7. EmptyIsThorough'
  <2> SUFFICES ASSUME outcome' = "empty" PROVE Thorough'
    BY DEF EmptyIsThorough, Thorough
  <2>1. Thorough
    BY <1>1 DEF Inv, Promises, EmptyIsThorough, Thorough, Rest
  <2>2. "mcp" \in Tasks
    BY NamedTasks DEF Roles
  <2>3. Owed' = Owed
    BY <1>1, <1>6, <2>1, <2>2 DEF Owed, IsUsPolicyQuery, Is, SecondaryTasks,
       OfficialSearches, ShouldQuerySec, Thorough, Rest
  <2> QED BY <1>6, <2>1, <2>3, OwedTasks DEF Thorough
<1>8. FoundIsKept'
  <2> SUFFICES ASSUME outcome' = "empty" PROVE NothingLost'
    BY DEF FoundIsKept, NothingLost
  <2>1. NothingLost /\ Leads' = Leads
    BY <1>1 DEF Inv, Promises, FoundIsKept, NothingLost, Rest, Leads
  <2>2. "rank" \in Tasks
    BY NamedTasks DEF Roles
  <2> QED BY <1>6, <2>1, <2>2 DEF NothingLost, Answers
<1>9. ASSUME ~Over' PROVE IF cut' = "no" THEN Stands' ELSE Reached'
  <2>1. CASE cut = "no"
    BY <1>1, <1>9, <2>1, TaskEndsStands DEF Inv, Over, Rest
  <2>2. CASE cut # "no"
    <3>1. Reached
      BY <1>1, <1>9, <2>2 DEF Inv, Over, Rest
    <3>2. Handled' = Handled /\ Unmet' = Unmet
      BY <1>1 DEF Rest, Handled, Unmet, SearchHandled, PolicyHandled, DiscoveryHandled,
                  NewsHandled, FilingsHandled, OfficialSearches, Is
    <3> QED BY <1>1, <1>4, <2>2, <3>1, <3>2 DEF Reached, Rest
  <2> QED BY <2>1, <2>2
<1> QED BY <1>2, <1>3, <1>5, <1>7, <1>8, <1>9 DEF Inv, Promises

-----------------------------------------------------------------------------
(* The call is cancelled *)

\* At every await, whoever runs is awaited there or is the handler's to cancel.
LEMMA AllReached ==
    ASSUME Inv, cut = "no", ~Over, Suspended
    PROVE  RunningTasks \subseteq Awaited \cup Handled \cup Unmet
<1> USE NamedTasks DEF Roles, SearchCallNames, AcademicCallNames, PolicyCallNames,
    DiscoveryCallNames, NewsCallNames, FilingsCallNames, CompanyCalls, OpenWebNames, On
<1>1. at # "start" /\ at # "handling"
  BY DEF Suspended
<1>2. CASE SearchStands
  BY <1>2, ShapeRuns DEF SearchStands, Awaited, Handled, SearchAwaited, SearchHandled
<1>3. CASE AcademicStands
  BY <1>3, ShapeRuns DEF AcademicStands, Awaited, Handled, AcademicAwaited, Unmet
<1>4. CASE PolicyStands
  <2>1. CASE RegistryStands
    <3>1. call.name = "registry" /\ at # "dropping"
      BY <2>1 DEF RegistryStands
    <3>2. RunningTasks \subseteq {"registry", "direct", "federal", "open_web"}
      BY <2>1, ShapeRuns DEF RegistryStands, Side
    <3> QED BY <3>1, <3>2 DEF Handled, PolicyHandled
  <2>2. CASE ~RegistryStands
    BY <1>4, <2>2, ShapeRuns DEF PolicyStands, RankedPages, Awaited, Handled, PolicyAwaited,
                                 PolicyHandled
  <2> QED BY <2>1, <2>2
<1>5. CASE DiscoveryStands
  <2>1. CASE WebStands
    <3>1. call.name = "web_discovery" /\ at # "dropping"
      BY <2>1 DEF WebStands
    <3>2. RunningTasks \subseteq WebSearches \cup {"ground", "rank"}
      BY <2>1 DEF WebStands, RunningTasks
    <3> QED BY <1>1, <2>1, <3>1, <3>2 DEF WebStands, Bookkeeping, Awaited, Handled,
            DiscoveryAwaited, DiscoveryHandled, WebSearches, RunningTasks, Answers
  <2>2. CASE ~WebStands
    BY <1>5, <2>2, ShapeRuns DEF DiscoveryStands, Awaited, Handled, DiscoveryAwaited,
                                 DiscoveryHandled
  <2> QED BY <2>1, <2>2
<1>6. CASE NewsStands
  BY <1>6, ShapeRuns DEF NewsStands, Awaited, Handled, NewsAwaited, NewsHandled
<1>7. CASE FilingsStands
  BY <1>7, ShapeRuns DEF FilingsStands, CompanyStands, Awaited, Handled, FilingsAwaited,
                         FilingsHandled
<1> QED BY <1>1, <1>2, <1>3, <1>4, <1>5, <1>6, <1>7 DEF Inv, Stands

LEMMA CancelKeeps ==
    ASSUME Inv, NEW S,
           task' = Cancelled(S), UNCHANGED <<call, pending, todo, holds>>
    PROVE  /\ task' \in [Tasks -> TaskStates] /\ Plain'
           /\ RunningTasks' = RunningTasks \ S
BY DEF Inv, TypeOK, Cancelled, TaskStates, Plain, Can, Is, RunningTasks

LEMMA CutKeeps == ASSUME Inv, CallerCuts \/ TimeIsUp PROVE Inv'
<1>1. PICK c \in {"caller", "timer"} :
          CutBy(c, Awaited) /\ (c = "timer" => call.name \in OpenWebNames)
  BY DEF CallerCuts, TimeIsUp
<1>2. task' \in [Tasks -> TaskStates] /\ Plain' /\ RunningTasks' = RunningTasks \ Awaited
  BY <1>1, CancelKeeps DEF CutBy
<1>3. TypeOK'
  BY <1>1, <1>2 DEF Inv, TypeOK, CutBy
<1>4. ~Over' /\ Promises'
  BY <1>1 DEF CutBy, Over, Promises, NothingLeftRunning, EmptyIsThorough, FoundIsKept
<1>5. Handled' = Handled /\ Unmet' = Unmet
  BY <1>1 DEF CutBy, Handled, Unmet, SearchHandled, PolicyHandled, DiscoveryHandled,
              NewsHandled, FilingsHandled, OfficialSearches, Is
<1>6. RunningTasks \subseteq Awaited \cup Handled \cup Unmet
  BY <1>1, AllReached DEF CutBy, Inv, Reached
<1>7. cut' # "no" /\ Reached'
  BY <1>1, <1>2, <1>5, <1>6 DEF Reached, CutBy
<1> QED BY <1>2, <1>3, <1>4, <1>7 DEF Inv

LEMMA HandleCutKeeps == ASSUME Inv, HandleCut PROVE Inv'
<1> USE DEF HandleCut, CutSeen
<1>1. task' \in [Tasks -> TaskStates] /\ Plain' /\ RunningTasks' = RunningTasks \ Handled
  BY CancelKeeps
<1>2. Reached /\ cut # "no" /\ RunningTasks' \subseteq Unmet
  BY <1>1 DEF Inv, Reached
<1>3. outcome' \in {"none", "timeout", "cancelled"}
  BY DEF Over
<1>4. TypeOK'
  BY <1>1, <1>3 DEF Inv, TypeOK, Outcomes
<1>5. NothingLeftRunning'
  BY <1>2 DEF NothingLeftRunning, LeftBehind, Over, Unmet, Reached, OpenWebNames
<1>6. EmptyIsThorough' /\ FoundIsKept'
  BY <1>3 DEF EmptyIsThorough, FoundIsKept
<1>7. cut' # "no" /\ Reached'
  BY <1>2 DEF Reached, Unmet
<1> QED BY <1>1, <1>4, <1>5, <1>6, <1>7 DEF Inv, Promises

-----------------------------------------------------------------------------
(* The theorems *)

LEMMA InitInv == Init => Inv
<1> SUFFICES ASSUME Init PROVE Inv
  OBVIOUS
<1>1. /\ call.name \in Calls /\ call.traits \subseteq TraitsOf(call.name)
      /\ ~Over /\ outcome = "none" /\ cut = "no" /\ at = "start"
  BY DEF Init, Over
<1>2. TypeOK
  BY <1>1 DEF Init, TypeOK, TaskStates, Outcomes
<1>3. Plain /\ Stands
  BY <1>1 DEF Init, Plain, Stands, Shape
<1> QED BY <1>1, <1>2, <1>3 DEF Inv, Promises, NothingLeftRunning, EmptyIsThorough, FoundIsKept

\* A step that changes nothing leaves every shape what it is.
LEMMA StutterKeeps == ASSUME Inv, UNCHANGED groupVars PROVE Inv'
<1> USE DEF groupVars
<1>1. TypeOK' /\ Plain'
  BY DEF Inv, TypeOK, Plain, Can, Is
<1>2. Handled' = Handled /\ Unmet' = Unmet /\ RunningTasks' = RunningTasks
  BY DEF Handled, Unmet, SearchHandled, PolicyHandled, DiscoveryHandled, NewsHandled,
         FilingsHandled, OfficialSearches, Is, RunningTasks
<1>3. Owed' = Owed /\ Leads' = Leads /\ LeftBehind' = LeftBehind
  BY DEF Owed, IsUsPolicyQuery, Is, SecondaryTasks, OfficialSearches, ShouldQuerySec,
         Leads, LeftBehind
<1>4. Promises'
  BY <1>2, <1>3 DEF Inv, Promises, NothingLeftRunning, EmptyIsThorough, FoundIsKept, Over
<1>5. Reached => Reached'
  BY <1>2 DEF Reached
<1>6. \A run, barren, other : Shape(run, barren, other) => Shape(run, barren, other)'
  BY DEF Shape
<1>7. (SearchStands => SearchStands') /\ (AcademicStands => AcademicStands')
  BY <1>6 DEF SearchStands, AcademicStands, On
<1>8. PolicyStands => PolicyStands'
  BY <1>6 DEF PolicyStands, RegistryStands, On, RankedPages, Side, IsUsPolicyQuery,
              PrefersDirectSources, Is
<1>9. DiscoveryStands => DiscoveryStands'
  BY <1>2, <1>3, <1>6 DEF DiscoveryStands, WebStands, Bookkeeping, On, Is, Payloads,
     SecondaryStarted, SecondaryTasks
<1>10. NewsStands => NewsStands'
  BY <1>2, <1>6 DEF NewsStands, On
<1>11. FilingsStands => FilingsStands'
  BY <1>3, <1>6 DEF FilingsStands, CompanyStands, On, Is, ShouldQuerySec, OfficialSearches
<1>12. Shape({}, {}, {}) => Shape({}, {}, {})'
  BY <1>6
<1>13. Stands => Stands'
  BY <1>7, <1>8, <1>9, <1>10, <1>11, <1>12 DEF Stands
<1> QED BY <1>1, <1>4, <1>5, <1>13 DEF Inv, Over

LEMMA StepKeeps == Inv /\ [Next]_groupVars => Inv'
BY TaskEndKeeps, ResumeKeeps, CutKeeps, HandleCutKeeps, StutterKeeps DEF Next

\* The invariant: at every await, which tasks run, which have answered without
\* hits, and, once the call is cancelled, that its handler reaches whoever runs.
THEOREM Invariance == Spec => []Inv
<1>1. Init => Inv
  BY InitInv
<1>2. Inv /\ [Next]_groupVars => Inv'
  BY StepKeeps
<1> QED BY <1>1, <1>2, PTL DEF Spec

\* Every task of a call is in a state that asyncio gives it, and what the call keeps in
\* its local variables is what its code can put there.
THEOREM TypeCorrect == Spec => []TypeOK
<1>1. Inv => TypeOK
  BY DEF Inv
<1> QED BY <1>1, Invariance, PTL

\* Whichever way a call ends, by its answer, by an error, by its timer or because its
\* caller gave up, and in whatever order its searches end: none of the tasks it started
\* runs on, except the speculative OpenAlex search of a cut Semantic Scholar call.
THEOREM NothingIsLeftRunning == Spec => []NothingLeftRunning
<1>1. Inv => NothingLeftRunning
  BY DEF Inv, Promises
<1> QED BY <1>1, Invariance, PTL

\* A call says "no hits" only when every search it owes, the ones it starts on the way
\* included, has ended by itself: never while one was still out, cancelled or not begun.
THEOREM EmptyAfterEverySearch == Spec => []EmptyIsThorough
<1>1. Inv => EmptyIsThorough
  BY DEF Inv, Promises
<1> QED BY <1>1, Invariance, PTL

\* What one of a call's searches found is not forgotten on the way through its awaits:
\* if the call still says "no hits", it is because all the finds were ranked and rejected.
THEOREM FindsAreKept == Spec => []FoundIsKept
<1>1. Inv => FoundIsKept
  BY DEF Inv, Promises
<1> QED BY <1>1, Invariance, PTL
=============================================================================
