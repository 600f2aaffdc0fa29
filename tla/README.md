# A TLA+ project for the WASC grounded-search skill

The program (`src/skill`) answers a question from retrieved evidence: it
classifies the query, plans which sources to ask, asks them concurrently under
hard time budgets with backups for those that fail, packs what came back as
evidence, and writes an answer whose claims cite that evidence. This directory
holds TLA+ models of it, the TLC configurations that check them, and proofs
checked by TLAPS.

    tlc -workers 2 -config fallback_path.cfg MCFallbackPath.tla
    tlapm FirstWave_proofs.tla

## 1. The system

One request goes through these parts, top to bottom; all of it runs in one
asyncio event loop per process.

| part | code (`src/skill/...`) | state | what it does |
|---|---|---|---|
| HTTP API | `api/entry.py`, `api/schema.py` | `app.state.last_runtime_trace`, shared by requests | validates requests and responses |
| Query classification | `orchestrator/intent.py`, `query_traits.py`, `normalize.py`, `planner.py`, `config/routes.py` | none | one route, or a mix of a primary and a supplemental route |
| Retrieval plan | `orchestrator/retrieval_plan.py`, `config/retrieval.py` | local worklist | first-wave steps, backups per failure reason, budgets |
| First-wave fan-out | `retrieval/engine.py` `_run_first_wave`, `_run_source_step` | tasks, semaphore, deadlines, `by_source` | asks all first-wave sources at once |
| Variants of a step | `retrieval/engine.py` `_run_source_variants`, `retrieval/query_variants.py` | merged hits, deadline | several wordings of the query, one after the other |
| Fallback paths | `retrieval/engine.py` `_run_standard_retrieval_path`, `_run_mixed_pooled_path` | attempts, hits, gaps, reasons | settles each step, calls backups |
| Retrieval pipeline | `retrieval/orchestrate.py`, `retrieval/priority.py` | last trace (a ContextVar) | orders hits, builds the evidence pack |
| Evidence | `evidence/*.py` | none | duplicates, scores, token-bounded pack |
| Answer pipeline | `synthesis/orchestrate.py`, `orchestrator/budget.py` | elapsed times, budgets | enrichment, guardrails, synthesis, hard cap |
| Answer cache | `synthesis/cache.py` | entries without bound | grounded answers by query and route |
| Answer checks | `synthesis/citation_check.py`, `state.py`, `uncertainty.py`, `retrieval_policy.py` | none | which claims stand, which status follows |
| Generation backend | `synthesis/generator.py`, `prompt.py` | last usage | a synchronous HTTP call |
| Live caches, HTTP | `retrieval/live/cache.py`, `live/clients/http.py` | memory LRU, JSON files shared by processes | cached fetches |
| Adapters | `retrieval/adapters/*.py`, `live/clients/*.py` | tasks raced inside one call | one call = hits of one source |
| Parsers | `retrieval/live/parsers/*.py` | none | text to records |
| Benchmark, judge | `benchmark/*.py` | result files | runs and compares answers |
| Autotune | `autotune/*.py`, `scripts/autotune_round.py` | git worktree | keep-or-revert rounds |

How they interact: the API calls classification, plan and pipeline as plain
functions; the pipeline awaits `run_retrieval`; the wave and the steps share a
semaphore and a dictionary of tasks; cancellation travels from the request's
hard cap down to the adapters; requests share the answer cache, the HTTP caches
and `app.state`; processes share the cache directory.

What is hard, and what makes each part correct:

* *Fan-out.* A permit can be granted in the iteration in which its waiter is
  cancelled; answers arrive together with the deadline; cut tasks have to unwind.
  Correct: permits are conserved, budgets are hard, finished work is reported, no
  task survives a wave that returned.
* *Plan.* The table of backups is cyclic and the worklist revisits steps.
  Correct: it ends, loses no link, and no source is reachable by two chains.
* *Fallback paths.* Every combination of answered, weak, recovered and lost
  steps, with a deadline between any two calls. Correct: status, reason, gaps
  and hits agree, no hit is dropped, no source is called twice, the deadline holds.
* *Variants.* A cut between two variants, and which failure stops the walk.
  Correct: hits of earlier variants survive the step's own timeout; the walk ends.
* *Evidence.* Token budget against a minimum share per side of a mix. Correct:
  the pack fits, keeps the best, and says when it clipped or pruned.
* *Answer pipeline.* What one phase spends is missing to the next; a cap may fire
  anywhere. Correct: an answer within the cap, no status better than its evidence.
* *Caches.* Lifetimes across two levels, files shared by processes. Correct:
  nothing is served past two lifetimes (one on disk, a fresh one in memory), no reader sees a half-written entry as a
  value, only clean answers are stored.
* *Adapters.* Speculative tasks and races. Correct: every task is used, or
  cancelled and collected, on every way out.
* *Benchmark and autotune.* A worker that dies, a round that is interrupted.
  Correct: a round either keeps or fully reverts.

`PROJECT.json` lists the hazards at their lines with the properties that cover
them; the one without a property says why.

## 2. What is modelled

| module | code | notes |
|---|---|---|
| `QueryClass` | `orchestrator/intent.py` `classify_query` | the cascade, over route scores and marker families |
| `SourceCatalog` | `config/retrieval.py` | the tables as constants |
| `PlanTables` | the choices of `build_retrieval_plan` that are plain functions | markers of a query stand for its words |
| `RetrievalPlan` | `_build_fallback_steps` and the hand-written chains | the worklist, in any order |
| `WaveState` | | state and properties of the wave, shared by `FirstWave` and `RetrievalRun` |
| `FirstWave` | `_run_first_wave`, `_run_source_step`, the call in `_run_single_source` | one action per point where a task or the wave resumes |
| `RetrievalContract` | what `run_retrieval` owes its caller | abstract: steps settled once, a verdict |
| `EnginePlans` | `RetrievalPlan` | a plan as the engine takes it to be, and what its chains may come to |
| `FallbackPath` | `_run_standard_retrieval_path`, `_run_mixed_pooled_path`, `_fallback_timeout_seconds`, `_skip_academic_asta_fallback` | implements `RetrievalContract` |
| `RetrievalRun` | `run_retrieval` | `FirstWave` and `FallbackPath` on one clock |
| `SourceVariants` | `_run_source_variants`, `_variant_timeout_seconds`, `_should_retry_direct_variant`, `query_variants.py` for the order of the wordings | one step's adapter seen from inside |
| `TaskGroup` | | what all adapter calls share: tasks, awaits, cancellation |
| `SearchCalls` | `live/clients/search_discovery.py` | one engine with retries, several engines for all or for the first find |
| `AcademicCalls` | `adapters/academic_*.py` | Semantic Scholar, arXiv and Asta |
| `PolicyCalls` | `adapters/policy_*.py` and the clients they call | registry, direct sources, open web, allowlist |
| `IndustryDiscovery`, `IndustryNews`, `IndustryFilings` | `adapters/industry_*.py` | the live industry searches with their helpers |
| `AdapterCalls` | | all of these calls, one at a time, and what a call promises |
| `Ranking` | `retrieval/priority.py`, the `sorted` calls | orders by a key, ties either way |
| `EvidencePack` | `evidence/pack.py` | selection under a token budget with a reserve for the supplement |
| `Evidence` | `evidence/normalize.py`, `dedupe.py`, `academic.py`, `policy.py`, `score.py` | which hits are one work, and what a merged record is worth |
| `RetrievalPipeline` | `retrieval/orchestrate.py` | from the classified query to the records of the response |
| `SharedCache` | `retrieval/live/cache.py`, the fetches of `clients/http.py` | several tasks and processes |
| `AnswerPipeline` | `synthesis/orchestrate.py` from `execute_answer_pipeline_with_trace` down, `synthesis/cache.py`, `orchestrator/budget.py` | several requests on one event loop |
| `MC...` | | give the constants: the plans `PlanTables` makes, which task runs where, hits worth merging, the symmetry |

**QueryClass.** A query counts through the score of each route and through the
families of markers it shows. `Classify` is the cascade in the order of the code:
the first rule that applies decides. Scores of 0, 2 and 4 are enough: a marker is
worth two points, and the thresholds tell a score from none, from one marker and
from another score. `Classifications` is the set of all that can come out, and
every run that needs a plan takes it from there.

**FirstWave.** `phase[i]` is where the task of step *i* is suspended: not yet
begun (`created`), in `semaphore.acquire()` (`waiting`), with a permit but not
resumed (`granted`), in the adapter (`running`), with the adapter unwinding
after its own timeout (`expiring`) or after `task.cancel()` (`cancelling`),
ended (`done`). `permits` is the semaphore's value, `result` what the task
returned, `bySource` the wave's dictionary, `wave` the coroutine of the wave.
`Release` hands the permit to the head of the queue, as
`asyncio.Semaphore` does. `Collect` is one turn of the `while tasks` loop after
`asyncio.wait` returned a batch; `WaveDeadline` the turn in which it returned
nothing; `DrainEnds` the `gather` and the reports for what was cut; `Abandon`
the caller cancelling the wave at any await. What an adapter does is
external: it answers at any time, with any result, or never; cancelled, it
takes up to `UnwindMax` to unwind. It may also let out a `CancelledError` that nobody
asked for (`adapter_cancel` shows one that does): its task then ends as cancelled, and
when the wave collects it the exception leaves the wave (`CancelledTaskRaises`). The wave
is then over as if its caller had given it up: the other tasks run on, uncancelled.

**PlanTables, RetrievalPlan.** A query counts only through the markers the
builder looks for, so eight booleans stand for all queries. `PlanTables` reads
the backup of a source off the table; `RetrievalPlan` runs the code's worklist
with its dedupe key, its triggers and its processed set, and is compared with
the table. `PlanOf` is the record the engine works from.

**FallbackPath.** Starts with any results the wave may have left. `at` is the
step of the `for` loop, `chain` the locals of the `while` loop under it,
`attempts` the `source_results`, `found`, `unresolved` and `gaps` the lists the
outcome is made from. Hits are known by their source. A call of a backup takes
any time up to its timeout plus the unwinding of the adapter. In `EnginePlans`, `ChainFrom`
is what a chain may come to from a source, and `ChainsApart`, part of the shape of a plan,
says that the chains of two steps do not meet. `BackupRaises` is
the payload that `_normalize_hits` cannot read: in the wave the exception is
turned into a result, here it leaves `run_retrieval`. A `CancelledError` that a backup lets
out by itself leaves it the same way.

**RetrievalRun.** Takes the actions of both by `INSTANCE`, with the clock
shared; `HandOver` is the moment the wave's dictionary becomes the input of the
paths. The wave has two instances, `Single` and `Mixed`, since the two kinds of
plan give it different timeouts; both share the variables of `WaveState`. The end
of a wave, with all that hangs on it, is part of `RunEnds`, and so is that the tasks left behind
by a wave that its caller or an adapter's own `CancelledError` ended do end.

**The adapter calls.** A call is a coroutine that starts tasks, awaits some and
drops others. `call` is its name and its *traits*: what it reads off the query or
the configuration (a fixture, a company whose pages are known, a filing to look
for). `at` is the await at which it stands, `task[t]` what became of each task
it may start, `pending` and `todo` the sets of an `asyncio.wait` loop, `holds` the
lists it has put finds into. `asyncio.wait` only watches: a cancellation is
raised at once and the tasks go on unless the handler cancels them (`Handled`). Every
other await passes the cancellation on first (`Awaited`). An open web search
has a timer of its own that may strike anywhere (`TimeIsUp`). A call that another
call awaits is a task there and a call of its own here; that it ends, and takes
its tasks with it, is checked here and assumed there. What a task can answer is
`Can`: a search whose errors its helper catches never fails, others may. What the
ranking of found pages leaves over is the answer of a task `rank`.

Three things the models show and no property is about. The thread behind the
`ddgs` package cannot be cancelled: its task ends, the thread does not. A
Semantic Scholar call cut from outside leaves its OpenAlex task running: none of
its handlers is at that await (`LeftBehind`). The block after the loop of
`search_web_discovery_live` is never reached, as the loop always returns.

Two things are assumed or left out. The client of Asta MCP bounds each httpx operation
(`live/clients/asta_mcp.py:77`) and not the search as a whole, so that this search ends by
itself is assumed. The registry's client caches an empty list also when both of
its searches failed (`live/clients/policy_registry.py:146`); a later call that finds it
in the cache owes no search, and that its "no hits" rests on failures is not covered.
Up to three linked pages of a company are fetched in a row without a decision between
them, and are one task.

**Ranking, EvidencePack, Evidence, RetrievalPipeline.** A hit is a record of what
is compared about it: its source and name, the identifiers or dates it can be
merged by (`marks`), how well it matches (a number, which the text scores of
`priority.py` would give), its quality, its tokens. `RetrievalPipeline` takes
the plan from `RetrievalPlan`, walks the hits as `orchestrate.py` does
(`prioritise`, one merge per hit, score, pack, shape), and keeps what the response
says. Lists are sorted by the keys of the code; where the packing breaks a tie by the
text of a slice or an `evidence_id`, which the model does not have, it goes either
way. `EvidencePack` selects records, with a reserve for the supplement of a mix, and
prunes slices and records, the lowest first, until the budget holds. `Evidence` merges papers that
share an identifier, with each hit joining all groups it bridges, and texts that
are versions of one policy; `AliasClosure`, against which the merging of papers
is compared, is the reference definition.

What these modules show beyond their properties: `_seed_mixed_coverage_records`
cuts a mix to its top records before the packing, so that a pack of them is never
called clipped and may hold one supplement although two are asked for; a paper that
joins two groups puts the second one's records behind itself, though they came
before it, against the comment at `evidence/dedupe.py:166`; two groups of policy versions can carry one
`evidence_id`; a pack with a reserve may give up every primary before it gives up
a supplement; and a dated industry page of an authority counts as a policy.

**SourceVariants.** What `FirstWave` calls the adapter of a step is a walk over
wordings of the query. `walk` is what the step starts with: its source, route,
wordings and budgets. `at` the wording whose call is next or under way, `hits`
whether an earlier one found anything, `reason` the local
`last_failure_reason`. Each call gets a slice of what is left
(`_variant_timeout_seconds`). The actions are the outcomes of one call (hits,
nothing, a failure, the slice's own timeout), the step's timeout and the
cancellation, which strike in any call. The model shows what the functions only
imply: hits of earlier wordings are lost when the step is cut, and a source with
a gloss as its only other wording gives that one a third of the budget.

**SharedCache.** `memory` and `recency` are the `OrderedDict` of each process,
`path` and `tmp` the two names a key has in the cache directory, `content` what
the inodes behind them hold. A task runs alone in its process from one await to
the next; tasks of other processes come between any two of its file operations:
open and truncate, write, rename. The temporary name depends on the key alone,
so a writer may truncate or rename the file of another. A value is the time at
which it was fetched, so its age is what a served value tells. `Restart` ends a
process anywhere and leaves its files. The wall clock, which the files use, agrees
with the monotonic one, which memory uses; renaming is POSIX's. `recency` is the
order of an `OrderedDict`, as a bijection: storing moves a key to the end
(`MoveToEnd`), the bound takes the first live one. An expired file
is removed after it was read (`Unlink`), by then perhaps another's fresh one;
that costs a later miss, nothing else.

**AnswerPipeline.** `request[r]` holds the locals of the coroutine of one
request. Its `stage` says where that is: awaiting (`retrieving`,
`same_route_probe`, `frontier_probe`), or running, between two awaits
(`retrieved`, `same_route`, `frontier`, `gates`, `generating`), which one request
at most does, or over (`answered`, `raised`). `cache` is `ANSWER_CACHE`. A step
that the loop gives a request (`Arrive`, `RetrievalReturns`, `RetrievalRaises`,
`ProbeReturns`, `ProbeRaises`, `CapFires`) needs `LoopFree`; the steps under `Run` are what it does until it
awaits again. The backend is called synchronously, so a request that generates
keeps the loop while the clock goes on, and the timers of the others expire
unheard: `Tick` says so. An answer is its status, the evidence records it
quotes, whether anything in it (gaps, notes) keeps it out of the cache, and
whether it is over the token budget. What the words of query and evidence decide
is a choice: whether a local answer can be built and which records it quotes,
whether a gate closes, whether a probe's hit is aligned, what the packing keeps,
whether a generated answer says less than the local one. So the properties hold
whatever those functions say. Retrieval returns at any time with any evidence,
raises, or hangs, and so does a probe; a cancelled request is over at once, the unwinding being `RetrievalRun`'s
matter. The backend is at most `Overrun` late on its timeout (`urlopen` bounds
each socket operation, not the call). Exceptions that nothing catches are an outcome
(`raised`): the `ValueError` of an unreadable draft or of a backup's unreadable
payload, and a `CancelledError` that an adapter lets out by itself, which the probes'
`except Exception` does not stop. No test says it should be another.

Definitions under the heading *Slip* in a comment (a release forgotten, a batch
read only in part, a guard dropped) are no part of any specification: each is a
plausible bug, and a property is only kept if putting the slip in the place of
the definition it follows makes TLC refute the property.

*Time.* Discrete, and the loop is prompt: the clock moves only when no callback
is ready and no timer due. Only in `AnswerPipeline` a request may block the loop,
while it generates.

## 3. The runs

| run | question | bounds |
|---|---|---|
| `retrieval_run` | permits, budgets and reports of the wave under every interleaving; do the halves fit, does all of it end | an industry plan of three sources of which one may stop the wave, and a mix with backups on both sides; two permits, ticks of three seconds and of one, a source timeout shorter than the longer wave's, unwinding of one tick, fairness |
| `retrieval_early_stop` | is a retrieval stopped by a success a success | industry query, three sources; *violated*, see below |
| `fallback_path` | what the paths make of every wave; is no source asked twice, and Asta last (`AskedOnce`, `AstaIsLastResort`) | every plan for filing, generic-actor, impact and Europe PMC queries; ticks of two seconds |
| `retrieval_pipeline` | in whatever order it is walked, is the plan the table's, are the chains disjoint, does a backup keep its side of a mix (`PlanSound`); what becomes of hits on the way to the response | all classifications and markers for the plan; up to four of twelve hits for queries without markers; three records, four tokens, two slices, a minimum of two for the supplement |
| `source_variants` | what a walk over wordings keeps, and whether it ends in its budget | plans with one, two and three wordings of each kind, single and mixed, seconds as ticks, unwinding of one |
| `adapter_calls` | is every task used or cancelled, is "nothing found" thorough, is what was found kept, does every call end | every live call and helper with every combination of traits; two engines, two pages; the caller's cut at any await, fairness |
| `adapter_cancel` | is a call cancelled only by its caller | the news search; *violated*, see below |
| `shared_cache` | how old is what the caches serve; who spoils a file; what does the memory's bound evict | two processes with one key and, side by side, one process with three; room for two, lifetime two, clock to five, seven inodes |
| `shared_cache_writers` | do processes share the directory safely | two processes, one key; *violated*, see below |
| `answer_pipeline` | are times measured and budgets shared truly, does an answer rest on what is reported with it, how long can one request hold up another | two requests, one key, two records, request deadline 4, synthesis 1, up to two probes, a backend that keeps its timeout |
| `answer_delivery` | what gets into the cache and out of it, does every request end | two requests, two keys, one record, arrivals until 1, fairness |
| `answer_hard_cap` | does the hard cap hold | one request, an overrun of three; *violated*, see below |

Three steps are the most a plan ever has in its first wave apart from mixes of
the same kind, and with two permits one step queues while another
is granted, which is where the queue's races are. One tick of unwinding
separates "cancelled" from "gone". In `retrieval_run` the properties taken from
`WaveState` speak of `WaveTimeout`, the longer of the two waves', which is the
weaker bound for the mix; the theorem holds for every value, so for each instance's
own. In `fallback_path` the numbers come from the
code (`PlanTables`), rounded up to ticks; four ticks of a mixed plan's deadline
leave room for the wave, for a backup that fits, for one that is shortened and
for one that comes too late. Markers that only choose among waves whose steps
have no backup are left out there.

The hits of `retrieval_pipeline` are chosen to meet: papers of which one joins
two others by different identifiers, policy versions of which one shares a date with
two that share none, pages worded alike with different hosts, one without a
snippet, a dated filing. Four hits fill three places and leave one over; four
tokens make the pruning trim a slice, drop a record, or empty the pack. Each hit
matches the query or does not, which is what its order turns on. Markers change
the plan, not what is done to the hits, so only plans are built for the others.

In `adapter_calls` two engines are one to win a race and one to lose it, and
two pages are one to be kept and one to be dropped. No call starts more than one
search of a kind, and calls do not share tasks, so one call at a time is enough.

`retrieval_early_stop` is expected to fail. `tests/test_retrieval_fallback.py:617`
(`..._stops_first_wave_early_after_web_discovery_hit`, line 674
`assert outcome.status == "success"`) calls the early stop a success. Its query
gets a plan with one source, so nothing is cut there. With three sources the
code reports the steps it cut on purpose as timeouts and gaps, and the outcome
is `partial` with reason `timeout`.

`adapter_cancel` is expected to fail. `tests/test_industry_live_adapter.py:685`
(`..._uses_ddgs_backup_when_google_news_grounding_is_slow`) says what the news
search has its backup for. When Google News names a single article behind a link,
finding that article races the backup. If the link is settled first the code cancels
the backup (`adapters/industry_ddgs.py:2285`), and if it was settled with no
article it awaits the backup it has just cancelled (line 2311): the search ends as
cancelled though nobody cancelled it, and the engine, which takes
`CancelledError` for its own cancellation, gives up the retrieval.

`shared_cache_writers` is expected to fail. `retrieval/live/cache.py:61` calls
the disk cache "shared across fresh processes" and `README.md:80` offers it for
"persistent cross-process cache reuse". Two processes that store the same key
open the same `<digest>.tmp`; the rename of the first takes it away, and that of
the second raises `FileNotFoundError`, which nothing between `set` and the
caller of `fetch_text` catches: the response had arrived and the fetch fails.
`shared_cache` and the proofs say that nothing else does this.

`answer_hard_cap` is expected to fail. `synthesis/orchestrate.py:4855` says
"Enforce request_deadline_seconds as a hard cap around the pipeline body.", and
`tests/test_request_deadline_guard.py:3` has the pipeline return a failure "when
internal retrieval/synthesis hangs past request_deadline_seconds + the small grace
buffer". The call of the backend (line 5290) is synchronous: while it hangs no
timer fires, and when it returns the coroutine finishes without another await,
so a late answer is delivered. `answer_pipeline` shows what does hold
(`AnsweredInTime`): the cap, plus the backend's overrun, plus one synthesis for
every other request on the loop.

Two requests are the fewest that share a loop and a cache entry; the second may
arrive while the first is under way. In `answer_pipeline` the deadline leaves
room for a probe, for a second one with less time, and for a generation after
it; with two records a merge may add one and the packing drop the other.

Two processes are enough for files, since a file is shared only by its key and
spoilt by one other writer; three keys and room for two tell the least recently used
entry from the one just stored and from one that was used since. `MCSharedCache`
checks these two side by side (`Focus`) and leaves out their mixture: what processes do
with different keys shares neither a file nor a memory. With a lifetime of two a value can be
read from disk when it is one old and be served from memory when it is two: past one
lifetime, and as old as the two allow. The clock to five is past two lifetimes, so
that entries expire before an eviction and a second value is fetched and aged.

*Fairness.* `RetrievalRun` asks weak fairness of what the event loop does by
itself: callbacks that are ready, timers that are due, time; of the hand-over; and
of the paths, in which every call is bounded by its timeout. Nothing is asked of
an adapter's answer in the wave or of the caller. That a cancelled adapter is gone by
`UnwindMax` is an assumption: every adapter re-raises `CancelledError` after
collecting or detaching its own tasks (`AdapterCalls`), and `gather` has no timeout
that would hold without it. `FallbackPath` asks it of `Next`.
`RetrievalPipeline` asks it of the planner and of the pack, which wait for
nothing. `AdapterCalls` asks that some running search answers, since each has a
timeout of its own (for Asta MCP an assumption, see section 2), that cancelled ones unwind, and that the loop resumes a call
that can go on; that suffices as a call starts finitely many tasks. `AnswerPipeline`
asks it of the clock, of a request that has the loop (the backend returns, late or
not), of the timers of a probe and of the hard cap; neither retrieval nor an adapter
ever has to return.

`CHECK_DEADLOCK FALSE` where a finished retrieval, call or request stops. The
caches never do, and `retrieval_pipeline` says itself where it may (`Stop`), so
there TLC also finds that the planner, the merging, the pack and the shaping are
never stuck.

## 4. The proofs

The `_proofs` modules prove, for every number of steps, every cap, every plan of
the right shape, all timeouts, any processes and keys, what the runs check on
small instances. Assumptions: `WaveConstants`, `FallbackConstants`,
`VariantsConstants`, `CacheConstants`, `PackConstants`, `PipelineConstants`,
`AdapterConstants`, `OutcomesAreHits` and `WaveOfPlan` (types, positive timeouts and limits, finitely
many requests and keys, names that do not coincide, a plan's wave no longer than its
deadline and given the plan's own steps and budgets), stated in
the modules and evaluated by TLC in the runs of those modules. `FallbackConstants`
also asks `ChainsApart` of the plans. That is no assumption about the code: `PlansAreShaped` proves
that every plan `PlanTables` makes has it, for every classification and query
and ticks of any length, and `EveryPlanIsShaped` has TLC evaluate the same for the ticks
of the run.

*FirstWave.* `PermitAccounting` alone is not inductive: that a release
either wakes a waiter or raises the value only balances if nobody waits while
the value is positive, and a wave that cuts its tasks must not cut one that is
done. `PermitInv` joins types, accounting, `NoIdlePermit` and "a reported step
is done". `BudgetInv` adds that no deadline lies beyond the step's timeout and
that a draining wave's unwindings end by the wave's deadline plus `UnwindMax`.
`ReportInv` adds what each result and report is worth. The invariants are proved in that order, each using
the ones before it, with a lemma for the tasks' steps and one for the
wave's. Theorems: types, permits, cap, budgets, finished work, the deadline flag,
no orphans, no call after the cut.

*FallbackPath.* `Inv` joins types with what the loop knows at each stage
(`at` is a step while a chain is open, the current source and the reason are
those of a failure). `WithinBudget` follows since each call is given at most what is
left. For the refinement `SettleInv` says what the lists mean: a step before
`at` is answered or unresolved, one from `at` on is open, `found` is nonempty as soon as
a step is answered or weak. `NextSettles` maps every step to a step of the
contract or to a stutter, and `ContractHolds` states `Spec => Contract!Spec`.

What the outcome says of the attempts is told, step by step, by the
set of attempts made so far: `found` with the open chain's provisional hits is
what delivered (`HitInv`), `gaps` with the chain's own what failed for an
unresolved step (`GapInv`), and the reason of an unresolved step that of its
last attempt, or the deadline (`ReasonInv`). An append adds one element to that set, so each action
shows one side of the equality.

That no source is asked twice has two halves. Along one chain, every attempt's
source is in `chain.visited`, which is looked up before a call. Across chains,
every attempt's source lies in the `ChainFrom` of its step (`AskInv`), and these
do not meet. The table of backups may be cyclic: neither half looks at its shape.
For `AstaIsLastResort`: `_skip_academic_asta_fallback` looks at the results of all
steps but the one whose chain it is asked for. That one had failed too, for its chain is
open and a weak success is nothing a supplement's step can have (`AstaInv`); and an
academic plan has that one step, whose first backup is not Asta.

*RetrievalRun.* The wave and the paths are proved apart and taken over by `INSTANCE`:
`SameSingle`, `SameMixed` and `SamePath` say that the steps of the composition are
theirs. `RunInv` is the wave's invariant while the wave runs, "it returned in time"
until the hand-over, and the paths' invariant after it; the hand-over makes an
initial state of `FallbackPath` (`HandOverStarts`). So the two budgets compose
(`WholeRetrievalInTime`), and the wave's promises last (`WavePromisesLast`). What
is handed over is true (`Handed`: delivered to the paths is what the task
returned), the wave changes no more, and what the paths say of a source then
carries over (`TellInv`). `ReportsAreTrue` needs `AskedOnce` for it: were a source
asked again by a backup, its gap or its hits would not be the wave's.

*SourceVariants.* `WalkInv` says that while the loop runs the clock is within the
budget plus one unwinding. It is kept because a slice is never more than what
is left (`SliceWithinBudget`, by cases of `_variant_timeout_seconds`), and the
loop returns before a call when nothing is left. That is what `FirstWave` assumes
of an adapter: `WalkKeepsBudget`. A refusal ends the loop, so no call follows it
(`RefusalInv`, `RefusalEndsWalk`). `ThoroughInv`: as long as the loop runs it has asked
for every wording before the one it is at. `RetryInv` rests on `ShortSliceRetries`: each
case in which `_variant_timeout_seconds` gives less than what is left is one in which
`_should_continue_after_variant_failure` goes on after a timeout, though the two
functions spell their cases differently.

*SharedCache.* `LifeInv`: what a file holds expires one lifetime after its value
was fetched, what memory holds at most two; whatever is purged or evicted keeps
that, so ages are bounded (`TwoLifetimes`). `FileInv`: no two names for
a file, an open file is at its own key's name or at none, and at a key where no
two processes have met the writer is alone, its file is in place, empty
before its write and whole after it. Neither `FilesWhole` nor
`RaisesOnlyInRace` is inductive without it. `MemoryInv`: the order
of a memory is a bijection from places to keys, and the live entries keep the bound. A
key that is stored goes to the last place, so what the bound evicts, the
first live one, is another, and no entry that was used less recently outlives it
(`StoredIsKept`); one eviction is enough, as one entry at most was
added. `AgeInv`, that nothing was fetched later than now, gives `TypeCorrect`.

*AnswerPipeline.* `IInv` says of each stage how the times measured so far relate
to the clock (`OnTime`: before a probe they are all the time since arrival,
during it all but the probe's own) and that estimate, candidate and answer are
of the evidence at hand (`Grounded`). A probe's and the backend's timeouts are
cut from what is left, so they end within the deadline (`DeadlineCorrect`); a
request is only ready to be answered (`Ready`) once its probes are charged and
its generation is timed (`MeasuredCorrect`, `AnswerRests`). `CacheCorrect` adds
that a request that was answered never changes, so that what was delivered stays
witnessed (`Kept`, `HandedOn`).

For `AnsweredInTime` the time others take from a request is counted, not
summed: `Latest(r)` is the cap of *r* plus one generation for each other request that is
already over. A pending request has not outlived it whenever the loop is free, and
no generation began after it (`Paced`): when one ends, at most one
generation later, its request joins those that are over, so `Latest` grows by as
much. A request that is answered is so before its own `Latest`, plus its overrun.

*AdapterCalls.* `Stands` says, await by await, what became of every task of the call
(`Shape`: which may run, which have answered without a find, which do not run any more; the rest was
never started) and what the local lists hold. There are some forty awaits, and each
step leads from one to another or ends the call; that every search a call owes has
answered when it says "no hits" is read off the `Shape` it comes from. Once a
call is cut the shape is gone, and what is kept is that all that still runs is what
the handler of that await cancels (`Reached`). Both are one invariant (`Inv`), proved for any
engines and pages: engine by engine in the races of `SearchCalls`, for which the `asyncio.wait`
loops keep "`pending` is what still runs, and nothing seen so far was a find". A call that another awaits is
a task there, so the theorem for the one is what the other assumes of that task.

*RetrievalPipeline.* `MergeInv` says what the loop over the hits has made of the first *n*
(`Grouped`): records have no hit in common and hold exactly the accepted ones; the record of a paper (`OneWork`)
is closed under sharing an alias, and no smaller set that is closed has any of it. Closure alone is not
inductive, as two papers in one record are closed too. The next hit joins
all records that have an alias of it (`JoinsByMember`), so their union with it is closed
again, and every closed set that has a part of the union has the hit, and
with it the rest (`AcceptedHit`). After the last hit this is the intersection of closed sets that
`AliasClosure` takes (`WorkIsClosure`), for every order of the hits. That sorting and flattening lists keep
each member once (`SortedLists`, `FlattenLists`) is proved by counting places and by
least counterexamples, as the induction theorems cannot be used.

`PlanSound` says of a finished plan what the walk must have done in any order, so `PlanInv` says of each
moment what it has done so far (`WalkInv`): an entry is the table's and of a source that was taken from the
worklist; such a source has all its entries; and where two reasons lead from it, that target was
taken or waits. The code goes on from a target only on the second reason, so a target with
one reason might be missed. It is not, because along each route the second reasons alone lead round
all of its sources (`TwiceClosed`, row by row of the table): with nothing pending, what was
taken is closed under every reason (`WalkSettles`). That two chains do not meet is an argument by routes:
a backup is of the route of its source (`BackupAtHome`), so chains of two routes are
apart, and a first wave has two sources of one route only if one of them has no backup left outside
the wave (`FirstWaveSources`, `NoBackupLeft`). A hand-written chain replaces the entries of one route
and of no other (`HandPlan`). `Reach` is a recursion; that
it stays in any set the entries do not leave (`ReachWithin`) is proved by counting up.

`PlansAreShaped` is the same argument on `PlanTables`, for the definition of a chain the engine's
model uses. `WalkIsBounded` needs what `WalkInv` does not say: a key is pending or processed and never both
(`KeysInv`), so each iteration takes a new one of finitely many. `PruningIsBounded` counts the slices
and records left; that their number is finite comes from the merging, `RolesInv` again.

`PackInv` is `SupplementKept` and `UnclippedIsWhole`, with nothing kept before the selection. The
selection leaves the supplement its reserve because the reserve is never more than the
supplement has, and all of the other places are taken from the front of the
primary side (`SelectKeepsInv`). A trim removes no record. A drop takes a protected
record only if all that is left is protected, so when no primary is left; else
it takes one that was more than the reserve (`DropKeepsInv`). Of the records it needs
that they are a list, so it holds of `EvidencePack` given any records and, once the ranking is shown to
give a list of finite length (`RankedLists`), of the retrieval.

For `RolesFollowPlan`, `SidesInv` says that every step the planner makes is on the side of its route, whichever
way it was reached; no mix is of one route with itself (`SidesDiffer`), so the role
of a hit is the side of its step (`RoleIsSide`). From there a record must reach the response as it
was made. `FoundInv` says that the hits are hits of planned sources; `RolesInv` that what is ranked are
canonical records, none twice, and that the response is made of them. What needs proof in it is
the sorting, three times over: sorted() returns a permutation when the keys are tuples of numbers of one length
no two of which are equal (`SortedByKeys`), so the keys must be shown to be numbers
(`IdOfGroup`, `KeyParts`; the sum of slice scores by `SumsExist`, counting up the sets a sum goes through) and to
differ: they end in the record's first hit, and records have no hit in common (`Apart`).

*Proved and not run.* Types, with the bound of a process's memory; `NoIdlePermit`, `DeadlineFlagHonest`, `SchemaAccepts` (the
validators of `RetrieveOutcome`) and `MeasuredIsElapsed` are theorems for every
value of the constants; no run repeats them.

*Only model-checked.* What is temporal beyond an invariant or a step, which the prover does
not do: `LoopsEnd`, `Terminates`, `RunEnds`, `CallEnds`, `EveryRequestEnds`. Of `LoopsEnd`, what
bounds its two loops is proved: the walk over the cyclic table (`WalkIsBounded`) and the pruning of the
pack (`PruningIsBounded`). That neither is ever stuck and that they go on is left to TLC.

## 5. Not modelled, and what may come next

Not modelled, with the reason:

* The words: which markers a query has, how `query_variants.py` words it, how well a
  text matches (`priority.py`, `fact_density.py`), the answerability profile of
  `query_traits.py`, the problem structure and evidence slots of a plan. They
  turn text into the flags and numbers the models start from.
* The checks of an answer: `citation_check.py`, `state.py`, `uncertainty.py`,
  `retrieval_policy.py`. What they decide is a choice in `AnswerPipeline`, so what it
  promises holds whatever they say; that they say the right thing is not shown.
* HTTP and parsing (`live/clients/*` apart from the races, `live/parsers/*`), prompt
  wording, report layout, judge packets, environment files. They move or format data
  without control of their own.
* `api/entry.py`'s `app.state`: the last request's trace, which its readers fetch
  between requests that they send one at a time.
* The benchmark and autotune scripts: sequential, with git and the file system as
  their state.

What would add most, in this order: a module for the status of an answer, which
refines the choices of `AnswerPipeline`; that `SourceVariants` implements the
step of `FirstWave` beyond its budget; and, as an abstract
specification, that a request is answered once, by a status its evidence supports.
