------------------------------ MODULE TaskGroup ------------------------------
(***************************************************************************)
(* What the live adapters of src/skill/retrieval have in common: one call  *)
(* starts tasks, awaits some of them, cancels the ones it no longer needs, *)
(* and may itself be cancelled at every await by its caller, which ran out *)
(* of budget.                                                              *)
(*                                                                         *)
(* asyncio.wait only watches its tasks: a cancellation is raised in the    *)
(* call at once.  Any other await (of a task, a coroutine, gather or       *)
(* wait_for) first passes the cancellation on to what is awaited, and the  *)
(* call sees CancelledError when that has unwound.  A task cancelled while *)
(* it runs ends as "cancelled".  A coroutine awaited in line is a task     *)
(* here.  A wait_for that runs out counts as a failure of what it awaits.  *)
(***************************************************************************)
EXTENDS Naturals, FiniteSets

CONSTANTS
    Engines,    \* the search engines a query goes to
    Candidates  \* the pages a search may return for ranking

VARIABLES
    call,    \* name of the coroutine, and what it reads off query and configuration
    at,      \* the await it stands at; "start" before the first
    task,    \* state of every task it may start
    pending, \* the tasks a watching await still waits for
    todo,    \* tasks that were seen to end and are not handled yet
    holds,   \* what the call's local variables hold: "payloads", "hits"
    cut,     \* "timer" or "caller", once one of them has cancelled the call
    outcome  \* what the call returned or raised

groupVars == <<call, at, task, pending, todo, holds, cut, outcome>>

DirectSources == {"eur_lex", "nist", "fincen", "us_agencies", "uk_legislation"}

Roles == {"registry", "direct", "federal", "open_web", "title", "broader",
          "arxiv", "hinted", "fallback", "semantic_scholar", "openalex", "mcp", "discovery",
          "search", "web", "news", "focused", "bing", "ddgs", "ground", "rank",
          "resolution", "publisher", "target", "ir", "sec", "early", "official",
          "company", "filings", "attempt", "again", "ir_page", "ir_home", "ir_linked"}

Tasks == Engines \cup Candidates \cup DirectSources \cup Roles

\* "weak": an answer the call keeps and does not settle for.
Answers == {"hits", "weak", "none", "failed", "broken"}
TaskStates == Answers \cup {"unborn", "running", "cancelling", "cancelled"}
Outcomes == {"none", "hits", "empty", "raised", "timeout", "cancelled"}

Over == outcome # "none"
Ended(t) == task[t] \in Answers \cup {"cancelled"}
AllEnded(S) == \A t \in S : Ended(t)
Got(t) == task[t] = "hits"
Usable(S) == \E t \in S : Got(t)
WithoutHits(t) == task[t] \in {"none", "failed", "broken"}
RunningTasks == {t \in Tasks : task[t] = "running"}
Is(trait) == trait \in call.traits

\* create_task, or a coroutine that is awaited at once.
With(states, S) == [t \in Tasks |-> IF t \in S THEN "running" ELSE states[t]]
Started(S) == With(task, S)

\* cancel() of every task of S that is not done; the detached ones are only
\* kept from complaining about a result nobody reads.
Cancelled(S) ==
    [t \in Tasks |-> IF t \in S /\ task[t] = "running" THEN "cancelling" ELSE task[t]]

\* The call stands at the await a and nothing has cancelled it.
At(name, a) == call.name = name /\ at = a /\ cut = "no" /\ ~Over

Same == UNCHANGED <<pending, todo, holds>>

\* The call goes on to the await a, having started S, or cancelled S.
Start(a, S) == at' = a /\ task' = Started(S) /\ UNCHANGED <<call, cut, outcome>>
Leave(a, S) == at' = a /\ task' = Cancelled(S) /\ UNCHANGED <<call, cut, outcome>>
Await(a, S) == Start(a, S) /\ Same

\* The call ends, having cancelled S.
Finish(r, S) == outcome' = r /\ task' = Cancelled(S) /\ UNCHANGED <<call, at, cut>>
Return(r, S) == Finish(r, S) /\ Same
ReturnIf(found) == Return(IF found THEN "hits" ELSE "empty", {})

-----------------------------------------------------------------------------
(* What the tasks and the caller do, whatever the call *)

\* "start" and "handling" are places between two awaits: nothing else runs.
Suspended == Over \/ at \notin {"start", "handling"}

Answer(t, r) ==
    /\ Suspended
    /\ task[t] = "running"
    /\ task' = [task EXCEPT ![t] = r]
    /\ UNCHANGED <<call, at, pending, todo, holds, cut, outcome>>

Unwind(t) ==
    /\ Suspended
    /\ task[t] = "cancelling"
    /\ task' = [task EXCEPT ![t] = "cancelled"]
    /\ UNCHANGED <<call, at, pending, todo, holds, cut, outcome>>

\* The call is cancelled by c while it stands at an await that passes the
\* cancellation on to S.
CutBy(c, S) ==
    /\ Suspended /\ ~Over
    /\ cut' = c
    /\ task' = Cancelled(S)
    /\ UNCHANGED <<call, at, pending, todo, holds, outcome>>

\* CancelledError is raised in the call: its handler cancels H, and collects
\* them first if it says so.
CutSeen(S, H, collects) ==
    /\ cut # "no" /\ ~Over
    /\ AllEnded(S)
    /\ task' = Cancelled(H)
    /\ IF collects /\ \E t \in H : ~Ended(t)
         THEN at' = "dropping" /\ UNCHANGED outcome
         ELSE /\ outcome' = IF cut = "timer" THEN "timeout" ELSE "cancelled"
              /\ UNCHANGED at
    /\ UNCHANGED <<call, pending, todo, holds, cut>>
=============================================================================
