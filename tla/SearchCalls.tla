----------------------------- MODULE SearchCalls -----------------------------
(***************************************************************************)
(* src/skill/retrieval/live/clients/search_discovery.py: one engine with   *)
(* its retries (search_candidates), and one query sent to several engines  *)
(* (search_multi_engine), either for what all of them find or only until   *)
(* the first finds something.                                              *)
(***************************************************************************)
EXTENDS TaskGroup

SearchCallNames == {"search_candidates", "search_all", "search_first"}

-----------------------------------------------------------------------------
(* search_candidates: "failed" is a connection error or a timeout, which    *)
(* an engine with the trait "retries" tries once more; "broken" any other. *)

AskEngine ==
    At("search_candidates", "start") /\ Await("attempt", {"attempt"})

EngineAnswered ==
    /\ At("search_candidates", "attempt") /\ Ended("attempt")
    /\ \/ Got("attempt") /\ Return("hits", {})
       \/ task["attempt"] = "none" /\ Return("empty", {})
       \/ task["attempt"] = "failed" /\ Is("retries") /\ Await("resting", {})
       \/ task["attempt"] = "failed" /\ ~Is("retries") /\ Return("raised", {})
       \/ task["attempt"] = "broken" /\ Return("raised", {})

\* asyncio.sleep between the attempts.
AskAgain == At("search_candidates", "resting") /\ Await("again", {"again"})

AnsweredAgain ==
    /\ At("search_candidates", "again") /\ Ended("again")
    /\ \/ Got("again") /\ Return("hits", {})
       \/ task["again"] = "none" /\ Return("empty", {})
       \/ task["again"] \in {"failed", "broken"} /\ Return("raised", {})

-----------------------------------------------------------------------------
(* search_multi_engine *)

AskAll == At("search_all", "start") /\ Await("gathering", Engines)

AllAnswered ==
    At("search_all", "gathering") /\ AllEnded(Engines) /\ ReturnIf(Usable(Engines))

AskFirst ==
    /\ At("search_first", "start")
    /\ Start("watching", Engines)
    /\ pending' = Engines
    /\ UNCHANGED <<todo, holds>>

\* The first hits are returned once the engines still asked were cancelled and
\* have unwound.
SettleForFirst(left) ==
    /\ pending' = left
    /\ holds' = {"hits"}
    /\ UNCHANGED todo
    /\ IF left = {} THEN Finish("hits", {}) ELSE Leave("collecting", left)

\* asyncio.wait returns the engines that have ended by now.
SomeAnswered ==
    /\ At("search_first", "watching")
    /\ LET done == {t \in pending : Ended(t)}
           left == pending \ done
       IN  /\ done # {}
           /\ \/ Usable(done) /\ SettleForFirst(left)
              \/ /\ ~Usable(done)
                 /\ pending' = left
                 /\ UNCHANGED <<todo, holds>>
                 /\ IF left = {} THEN Finish("empty", {}) ELSE Leave("watching", {})

LosersCollected ==
    At("search_first", "collecting") /\ AllEnded(pending) /\ Return("hits", {})

-----------------------------------------------------------------------------

SearchResumes ==
    \/ AskEngine \/ EngineAnswered \/ AskAgain \/ AnsweredAgain
    \/ AskAll \/ AllAnswered
    \/ AskFirst \/ SomeAnswered \/ LosersCollected

\* The tasks a cancellation is passed on to, and those its handler cancels.
SearchAwaited ==
    CASE at \in {"attempt", "again"} -> {at}
      [] at = "gathering" -> Engines
      [] at = "collecting" -> pending
      [] OTHER -> {}

SearchHandled == IF call.name = "search_candidates" THEN {} ELSE Engines
=============================================================================
