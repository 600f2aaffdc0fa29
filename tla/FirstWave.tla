------------------------------ MODULE FirstWave ------------------------------
(***************************************************************************)
(* The fan-out of src/skill/retrieval/engine.py: _run_first_wave creates   *)
(* one asyncio task per first-wave step, the tasks share a semaphore of    *)
(* the plan's concurrency cap, and the wave collects their results until   *)
(* its deadline or an early stop, then cancels and drains what is left.    *)
(*                                                                         *)
(* Steps are numbered in plan order.  asyncio starts tasks in creation     *)
(* order and each task acquires once, so the semaphore's FIFO queue is     *)
(* always in step order and is represented by the set of waiting steps.    *)
(* What one step does while it holds its permit (_run_source_variants) is  *)
(* abstracted to the result it returns; SourceVariants refines it.         *)
(*                                                                         *)
(* Time is discrete and the event loop is prompt: Tick waits for every     *)
(* timer that is due and every callback that is ready.                     *)
(***************************************************************************)
EXTENDS WaveState

vars == <<now, wave, stoppedEarly, phase, permits, deadline, unwindBy,
          result, bySource>>

Waiting(ph) == {i \in Steps : ph[i] = "waiting"}
First(S) == CHOOSE i \in S : \A j \in S : i <= j

Init ==
    /\ now = 0
    /\ wave = "waiting"
    /\ stoppedEarly = FALSE
    /\ phase = [i \in Steps |-> "created"]
    /\ permits = Permits
    /\ deadline = [i \in Steps |-> 0]
    /\ unwindBy = [i \in Steps |-> 0]
    /\ result = [i \in Steps |-> "none"]
    /\ bySource = [i \in Steps |-> Unreported]

-----------------------------------------------------------------------------
(* The tasks: _run_source_step *)

\* asyncio: a permit given back goes to the longest waiter, else to the value.
HandOn(ph) ==
    IF Waiting(ph) = {}
      THEN /\ phase' = ph
           /\ permits' = permits + 1
      ELSE /\ phase' = [ph EXCEPT ![First(Waiting(ph))] = "granted"]
           /\ UNCHANGED permits

\* Slip: the release is forgotten.
ReleaseSkipped(ph) == phase' = ph /\ UNCHANGED permits

\* The finally clause around the variants: semaphore.release().
Release(ph) == HandOn(ph)

Return(i, r) == result' = [result EXCEPT ![i] = r]

\* Slip: the two timeouts of _run_first_wave's signature swapped at the call.
StepDeadlineSwapped == now + WaveTimeout

\* deadline_at of a step's task: taken before it queues for a permit.
StepDeadline == now + SourceTimeout

\* The task's first slice, up to its first await.  Every plan's timeouts are
\* positive, so there is time left when it asks for its permit.
Start(i) ==
    /\ phase[i] = "created"
    /\ \A j \in Steps : phase[j] = "created" => i <= j
    /\ deadline' = [deadline EXCEPT ![i] = StepDeadline]
    /\ \/ /\ permits > 0 /\ Waiting(phase) = {}
          /\ phase' = [phase EXCEPT ![i] = "running"]
          /\ permits' = permits - 1
       \/ /\ permits = 0 \/ Waiting(phase) # {}
          /\ phase' = [phase EXCEPT ![i] = "waiting"]
          /\ UNCHANGED permits
    /\ UNCHANGED <<now, wave, stoppedEarly, unwindBy, result, bySource>>

\* A granted task resumes.  _run_source_variants finds no time left when the
\* deadline passed in the queue, and calls no adapter.
Resume(i) ==
    /\ phase[i] = "granted"
    /\ \/ /\ now < deadline[i]
          /\ phase' = [phase EXCEPT ![i] = "running"]
          /\ UNCHANGED <<permits, result>>
       \/ /\ now >= deadline[i]
          /\ Release([phase EXCEPT ![i] = "done"])
          /\ Return(i, "timeout")
    /\ UNCHANGED <<now, wave, stoppedEarly, deadline, unwindBy, bySource>>

\* wait_for(semaphore.acquire(), remaining) times out.  A permit that was
\* granted but not yet taken is given back.
AcquireTimesOut(i) ==
    /\ phase[i] \in {"waiting", "granted"}
    /\ now >= deadline[i]
    /\ Return(i, "timeout")
    /\ IF phase[i] = "granted"
         THEN HandOn([phase EXCEPT ![i] = "done"])
         ELSE /\ phase' = [phase EXCEPT ![i] = "done"]
              /\ UNCHANGED permits
    /\ UNCHANGED <<now, wave, stoppedEarly, deadline, unwindBy, bySource>>

\* The variants end by themselves, also in a CancelledError the adapter itself let
\* out, which is not taken for a failure; the finally clause releases the permit.
VariantsReturn(i) ==
    /\ phase[i] = "running"
    /\ \E r \in TaskResults : Return(i, r)
    /\ Release([phase EXCEPT ![i] = "done"])
    /\ UNCHANGED <<now, wave, stoppedEarly, deadline, unwindBy, bySource>>

\* The adapter call's own timer fires at the step's deadline.
AdapterTimesOut(i) ==
    /\ phase[i] = "running"
    /\ now >= deadline[i]
    /\ phase' = [phase EXCEPT ![i] = "expiring"]
    /\ unwindBy' = [unwindBy EXCEPT ![i] = now + UnwindMax]
    /\ UNCHANGED <<now, wave, stoppedEarly, permits, deadline, result, bySource>>

\* A cancelled adapter is gone and the task ends.  After its own timeout the
\* step still returns the hits of an earlier variant, if there were any.
Unwound(i) ==
    /\ \/ /\ phase[i] = "expiring"
          /\ \E r \in {"timeout", "ok"} : Return(i, r)
       \/ /\ phase[i] = "cancelling"
          /\ Return(i, "cancelled")
    /\ Release([phase EXCEPT ![i] = "done"])
    /\ UNCHANGED <<now, wave, stoppedEarly, deadline, unwindBy, bySource>>

-----------------------------------------------------------------------------
(* The wave: _run_first_wave *)

\* Tasks that are done and still in the wave's `tasks`.
Finished == {i \in Steps : phase[i] = "done" /\ bySource[i] = Unreported}
\* Those of them whose adapter let a CancelledError out: the wave has cut none yet.
Cancelled(batch) == {i \in batch : result[i] = "cancelled"}
Pending(reported) == {i \in Steps : reported[i] = Unreported}

\* Slip: the loop over `done` left at its first task.
CollectFirst(batch) ==
    [i \in Steps |-> IF i = First(batch) THEN Collected(result[i]) ELSE bySource[i]]

CollectInto(batch) ==
    [i \in Steps |-> IF i \in batch THEN Collected(result[i]) ELSE bySource[i]]

StopsEarly(reported) == \E i \in EarlyStop : reported[i].reason = "ok"

\* Slip: only tasks that have begun their retrieval are cancelled.
CutBegun(S) == {i \in S : phase[i] \notin {"created", "waiting", "granted"}}

\* The tasks the wave cancels: every one in S that is not done.
Cut(S) == {i \in S : phase[i] # "done"}

\* pending_task.cancel() for every task in S that is not done: a queued
\* acquire ends at once, an adapter in flight has to unwind first.
CancelAll(S) ==
    LET granted == {i \in Cut(S) : phase[i] = "granted"}
        inFlight == {i \in Cut(S) : phase[i] \in {"running", "expiring", "cancelling"}}
        ended == {i \in Cut(S) : phase[i] \in {"created", "waiting", "granted"}}
    IN  /\ phase' = [i \in Steps |-> CASE i \in ended -> "done"
                                       [] i \in inFlight -> "cancelling"
                                       [] OTHER -> phase[i]]
        /\ permits' = permits + Cardinality(granted)
        /\ unwindBy' = [i \in Steps |-> IF i \in inFlight THEN now + UnwindMax
                                                          ELSE unwindBy[i]]
        /\ result' = [i \in Steps |-> IF i \in ended THEN "cancelled" ELSE result[i]]

\* asyncio.wait returns a batch of done tasks; the loop then returns, waits
\* again, or breaks: on an early stop or because its deadline has passed.
Collect ==
    /\ wave = "waiting"
    /\ Finished # {} /\ Cancelled(Finished) = {}
    /\ \A i \in Steps : phase[i] # "created"
    /\ bySource' = CollectInto(Finished)
    /\ stoppedEarly' = StopsEarly(bySource')
    /\ LET left == Pending(bySource') IN
       \/ /\ left = {}
          /\ wave' = "returned"
          /\ UNCHANGED <<phase, permits, unwindBy, result>>
       \/ /\ left # {} /\ ~stoppedEarly' /\ now < WaveTimeout
          /\ UNCHANGED <<wave, phase, permits, unwindBy, result>>
       \/ /\ left # {} /\ (stoppedEarly' \/ now >= WaveTimeout)
          /\ wave' = "draining"
          /\ CancelAll(left)
    /\ UNCHANGED <<now, deadline>>

\* done_task.result() raises the CancelledError of such a task out of the loop, and
\* out of the wave: nobody is left to cancel the other tasks or to await them.
CancelledTaskRaises ==
    /\ wave = "waiting"
    /\ Cancelled(Finished) # {}
    /\ \A i \in Steps : phase[i] # "created"
    /\ wave' = "abandoned"
    /\ UNCHANGED <<now, stoppedEarly, phase, permits, deadline, unwindBy, result, bySource>>

\* The wave's deadline passes with nothing done to collect.
WaveDeadline ==
    /\ wave = "waiting"
    /\ now >= WaveTimeout
    /\ Finished = {}
    /\ wave' = "draining"
    /\ CancelAll(Pending(bySource))
    /\ UNCHANGED <<now, stoppedEarly, deadline, bySource>>

\* Slips around gather(): not awaited; or awaited for results never given.
DrainNotAwaited == TRUE
DrainAwaitsAll == \A i \in Steps : result[i] = "cancelled"

\* gather() over the cancelled tasks: each of them has ended.
Drained == \A i \in Steps : phase[i] = "done"

\* was_cancelled_by_deadline of the tasks the wave cut
CutByDeadline == ~stoppedEarly

\* gather() has seen every cancelled task end: all of them are reported as
\* timed out, and as cut by the deadline unless the wave stopped early.
DrainEnds ==
    /\ wave = "draining"
    /\ Drained
    /\ wave' = "returned"
    /\ bySource' = [i \in Steps |->
                      IF i \in Pending(bySource) THEN Reported("timeout", CutByDeadline)
                                                 ELSE bySource[i]]
    /\ UNCHANGED <<now, stoppedEarly, phase, permits, deadline, unwindBy, result>>

\* The caller's own cap cancels the wave.  Out of asyncio.wait the tasks are
\* left running; out of gather the children were cancelled already.
Abandon ==
    /\ wave \in {"waiting", "draining"}
    /\ \A i \in Steps : phase[i] # "created"
    /\ wave' = "abandoned"
    /\ IF wave = "draining"
         THEN CancelAll(Pending(bySource) \ Finished)
         ELSE UNCHANGED <<phase, permits, unwindBy, result>>
    /\ UNCHANGED <<now, stoppedEarly, deadline, bySource>>

-----------------------------------------------------------------------------

\* Nothing is due at this instant for the task of step i.
Settled(i) ==
    \/ phase[i] = "done"
    \/ phase[i] \in {"waiting", "running"} /\ now < deadline[i]
    \/ phase[i] \in {"expiring", "cancelling"} /\ now < unwindBy[i]

Tick ==
    /\ \E i \in Steps : phase[i] # "done"
    /\ \A i \in Steps : Settled(i)
    /\ wave = "waiting" => now < WaveTimeout /\ Finished = {}
    /\ now' = now + 1
    /\ UNCHANGED <<wave, stoppedEarly, phase, permits, deadline, unwindBy, result, bySource>>

\* The call is over and no task of it is left.
Over ==
    /\ wave \in {"returned", "abandoned"}
    /\ \A i \in Steps : phase[i] = "done"

TaskStep(i) ==
    Start(i) \/ Resume(i) \/ AcquireTimesOut(i) \/ AdapterTimesOut(i) \/ Unwound(i)

\* What the event loop runs without waiting for an adapter or for the caller.
LoopStep ==
    \/ \E i \in Steps : TaskStep(i)
    \/ Collect \/ CancelledTaskRaises \/ WaveDeadline \/ DrainEnds \/ Tick

Next == LoopStep \/ (\E i \in Steps : VariantsReturn(i)) \/ Abandon

Spec == Init /\ [][Next]_vars

-----------------------------------------------------------------------------
(* What the wave promises *)

\* A step never queues while a permit is free, so the cap is the only thing
\* that delays it.
NoIdlePermit == permits > 0 => Waiting(phase) = {}

\* was_cancelled_by_deadline tells the two ways of being cut apart: it is set
\* only past the deadline, and a step cut without it was cut by a success.
DeadlineFlagHonest ==
    \A i \in Steps : bySource[i] # Unreported /\ result[i] = "cancelled" =>
        IF bySource[i].byDeadline THEN now >= WaveTimeout ELSE StopsEarly(bySource)
=============================================================================
