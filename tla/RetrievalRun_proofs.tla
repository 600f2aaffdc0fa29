------------------------- MODULE RetrievalRun_proofs -------------------------
(***************************************************************************)
(* Theorems about RetrievalRun: the wave and the fallback paths, each      *)
(* proved alone in FirstWave_proofs and FallbackPath_proofs, keep the      *)
(* plan's deadline together.  An instance has definitions of its own, so   *)
(* the Same* lemmas first say that the steps of RetrievalRun are the steps *)
(* those proofs are about.                                                 *)
(***************************************************************************)
EXTENDS RetrievalRun, TLAPS

SingleP == INSTANCE FirstWave_proofs
MixedP == INSTANCE FirstWave_proofs WITH WaveTimeout <- MixedWaveTimeout, EarlyStop <- {}
PathP == INSTANCE FallbackPath_proofs

\* The single wave of this module is the one FirstWave_proofs is about.
LEMMA SameSingle == Single!Next => SingleP!Next
<1> USE DEF Single!Steps, SingleP!Steps, Single!Unreported, SingleP!Unreported,
   Single!Reported, SingleP!Reported
<1>1. Single!Finished = SingleP!Finished
  BY DEF Single!Finished, SingleP!Finished
<1>2. \A r : Single!Pending(r) = SingleP!Pending(r)
  BY DEF Single!Pending, SingleP!Pending
<1>3. ASSUME NEW S, Single!CancelAll(S) PROVE SingleP!CancelAll(S)
  <2>1. Single!Cut(S) = SingleP!Cut(S)
    BY DEF Single!Cut, SingleP!Cut
  <2> QED
    BY <1>3, <2>1 DEF Single!CancelAll, SingleP!CancelAll, Single!Cardinality,
       SingleP!Cardinality
<1>4. ASSUME NEW i, Single!Start(i) PROVE SingleP!Start(i)
  BY <1>4 DEF Single!Start, SingleP!Start, Single!StepDeadline,
     SingleP!StepDeadline, Single!Waiting, SingleP!Waiting
<1>5. ASSUME NEW i, Single!Resume(i) PROVE SingleP!Resume(i)
  BY <1>5 DEF Single!Resume, SingleP!Resume, Single!Release, SingleP!Release,
     Single!HandOn, SingleP!HandOn, Single!Waiting, SingleP!Waiting, Single!First,
     SingleP!First, Single!Return, SingleP!Return
<1>6. ASSUME NEW i, Single!AcquireTimesOut(i) PROVE SingleP!AcquireTimesOut(i)
  BY <1>6 DEF Single!AcquireTimesOut, SingleP!AcquireTimesOut, Single!HandOn,
     SingleP!HandOn, Single!Waiting, SingleP!Waiting, Single!First, SingleP!First,
     Single!Return, SingleP!Return
<1>7. ASSUME NEW i, Single!AdapterTimesOut(i) PROVE SingleP!AdapterTimesOut(i)
  BY <1>7 DEF Single!AdapterTimesOut, SingleP!AdapterTimesOut
<1>8. ASSUME NEW i, Single!Unwound(i) PROVE SingleP!Unwound(i)
  BY <1>8 DEF Single!Unwound, SingleP!Unwound, Single!Release, SingleP!Release,
     Single!HandOn, SingleP!HandOn, Single!Waiting, SingleP!Waiting, Single!First,
     SingleP!First, Single!Return, SingleP!Return
<1>9. ASSUME NEW i, Single!VariantsReturn(i) PROVE SingleP!VariantsReturn(i)
  BY <1>9 DEF Single!VariantsReturn, SingleP!VariantsReturn, Single!TaskResults,
     SingleP!TaskResults, Single!Reasons, SingleP!Reasons, Single!Release, SingleP!Release,
     Single!HandOn, SingleP!HandOn, Single!Waiting, SingleP!Waiting, Single!First, SingleP!First,
     Single!Return, SingleP!Return
<1>10. Single!Collect => SingleP!Collect
  BY <1>1, <1>2, <1>3 DEF Single!Collect, SingleP!Collect, Single!CollectInto,
     SingleP!CollectInto, Single!Collected, SingleP!Collected, Single!Cancelled, SingleP!Cancelled,
     Single!Reasons, SingleP!Reasons, Single!StopsEarly, SingleP!StopsEarly
<1>11. Single!WaveDeadline => SingleP!WaveDeadline
  BY <1>1, <1>2, <1>3 DEF Single!WaveDeadline, SingleP!WaveDeadline
<1>12. Single!DrainEnds => SingleP!DrainEnds
  BY <1>2 DEF Single!DrainEnds, SingleP!DrainEnds, Single!Drained, SingleP!Drained,
     Single!CutByDeadline, SingleP!CutByDeadline
<1>13. Single!Abandon => SingleP!Abandon
  BY <1>1, <1>2, <1>3 DEF Single!Abandon, SingleP!Abandon
<1>14. Single!Tick => SingleP!Tick
  BY <1>1 DEF Single!Tick, SingleP!Tick, Single!Settled, SingleP!Settled
<1>15. Single!CancelledTaskRaises => SingleP!CancelledTaskRaises
  BY <1>1 DEF Single!CancelledTaskRaises, SingleP!CancelledTaskRaises, Single!Cancelled,
     SingleP!Cancelled
<1>16. ASSUME NEW i \in Single!Steps, Single!TaskStep(i) PROVE SingleP!TaskStep(i)
  BY <1>4, <1>5, <1>6, <1>7, <1>8, <1>16 DEF Single!TaskStep, SingleP!TaskStep
<1>17. Single!LoopStep => SingleP!LoopStep
  BY <1>10, <1>11, <1>12, <1>14, <1>15, <1>16 DEF Single!LoopStep, SingleP!LoopStep
<1> QED
  BY <1>9, <1>13, <1>17 DEF Single!Next, SingleP!Next

\* And so is that of a mix, with its own time and no early stop.
LEMMA SameMixed == Mixed!Next => MixedP!Next
<1> USE DEF Mixed!Steps, MixedP!Steps, Mixed!Unreported, MixedP!Unreported,
   Mixed!Reported, MixedP!Reported
<1>1. Mixed!Finished = MixedP!Finished
  BY DEF Mixed!Finished, MixedP!Finished
<1>2. \A r : Mixed!Pending(r) = MixedP!Pending(r)
  BY DEF Mixed!Pending, MixedP!Pending
<1>3. ASSUME NEW S, Mixed!CancelAll(S) PROVE MixedP!CancelAll(S)
  <2>1. Mixed!Cut(S) = MixedP!Cut(S)
    BY DEF Mixed!Cut, MixedP!Cut
  <2> QED
    BY <1>3, <2>1 DEF Mixed!CancelAll, MixedP!CancelAll, Mixed!Cardinality,
       MixedP!Cardinality
<1>4. ASSUME NEW i, Mixed!Start(i) PROVE MixedP!Start(i)
  BY <1>4 DEF Mixed!Start, MixedP!Start, Mixed!StepDeadline, MixedP!StepDeadline,
     Mixed!Waiting, MixedP!Waiting
<1>5. ASSUME NEW i, Mixed!Resume(i) PROVE MixedP!Resume(i)
  BY <1>5 DEF Mixed!Resume, MixedP!Resume, Mixed!Release, MixedP!Release,
     Mixed!HandOn, MixedP!HandOn, Mixed!Waiting, MixedP!Waiting, Mixed!First,
     MixedP!First, Mixed!Return, MixedP!Return
<1>6. ASSUME NEW i, Mixed!AcquireTimesOut(i) PROVE MixedP!AcquireTimesOut(i)
  BY <1>6 DEF Mixed!AcquireTimesOut, MixedP!AcquireTimesOut, Mixed!HandOn,
     MixedP!HandOn, Mixed!Waiting, MixedP!Waiting, Mixed!First, MixedP!First,
     Mixed!Return, MixedP!Return
<1>7. ASSUME NEW i, Mixed!AdapterTimesOut(i) PROVE MixedP!AdapterTimesOut(i)
  BY <1>7 DEF Mixed!AdapterTimesOut, MixedP!AdapterTimesOut
<1>8. ASSUME NEW i, Mixed!Unwound(i) PROVE MixedP!Unwound(i)
  BY <1>8 DEF Mixed!Unwound, MixedP!Unwound, Mixed!Release, MixedP!Release,
     Mixed!HandOn, MixedP!HandOn, Mixed!Waiting, MixedP!Waiting, Mixed!First,
     MixedP!First, Mixed!Return, MixedP!Return
<1>9. ASSUME NEW i, Mixed!VariantsReturn(i) PROVE MixedP!VariantsReturn(i)
  BY <1>9 DEF Mixed!VariantsReturn, MixedP!VariantsReturn, Mixed!TaskResults,
     MixedP!TaskResults, Mixed!Reasons, MixedP!Reasons, Mixed!Release, MixedP!Release,
     Mixed!HandOn, MixedP!HandOn, Mixed!Waiting, MixedP!Waiting, Mixed!First, MixedP!First,
     Mixed!Return, MixedP!Return
<1>10. Mixed!Collect => MixedP!Collect
  BY <1>1, <1>2, <1>3 DEF Mixed!Collect, MixedP!Collect, Mixed!CollectInto,
     MixedP!CollectInto, Mixed!Collected, MixedP!Collected, Mixed!Cancelled, MixedP!Cancelled,
     Mixed!Reasons, MixedP!Reasons, Mixed!StopsEarly, MixedP!StopsEarly
<1>11. Mixed!WaveDeadline => MixedP!WaveDeadline
  BY <1>1, <1>2, <1>3 DEF Mixed!WaveDeadline, MixedP!WaveDeadline
<1>12. Mixed!DrainEnds => MixedP!DrainEnds
  BY <1>2 DEF Mixed!DrainEnds, MixedP!DrainEnds, Mixed!Drained, MixedP!Drained,
     Mixed!CutByDeadline, MixedP!CutByDeadline
<1>13. Mixed!Abandon => MixedP!Abandon
  BY <1>1, <1>2, <1>3 DEF Mixed!Abandon, MixedP!Abandon
<1>14. Mixed!Tick => MixedP!Tick
  BY <1>1 DEF Mixed!Tick, MixedP!Tick, Mixed!Settled, MixedP!Settled
<1>15. Mixed!CancelledTaskRaises => MixedP!CancelledTaskRaises
  BY <1>1 DEF Mixed!CancelledTaskRaises, MixedP!CancelledTaskRaises, Mixed!Cancelled,
     MixedP!Cancelled
<1>16. ASSUME NEW i \in Mixed!Steps, Mixed!TaskStep(i) PROVE MixedP!TaskStep(i)
  BY <1>4, <1>5, <1>6, <1>7, <1>8, <1>16 DEF Mixed!TaskStep, MixedP!TaskStep
<1>17. Mixed!LoopStep => MixedP!LoopStep
  BY <1>10, <1>11, <1>12, <1>14, <1>15, <1>16 DEF Mixed!LoopStep, MixedP!LoopStep
<1> QED
  BY <1>9, <1>13, <1>17 DEF Mixed!Next, MixedP!Next

\* The second half of this module is the one FallbackPath_proofs is about.
LEMMA SamePath == F!Next => PathP!Next
<1> USE DEF F!Positions, PathP!Positions, F!SourceAt, PathP!SourceAt, F!Unresolved,
   PathP!Unresolved, F!Attempt, PathP!Attempt, F!Delivered, PathP!Delivered,
   F!NoChain, PathP!NoChain, F!SourceIds, PathP!SourceIds, F!SourceBackupChain,
   PathP!SourceBackupChain, F!Backup, PathP!Backup, F!NoBackup, PathP!NoBackup,
   F!FailureReasons, PathP!FailureReasons, F!ChainReasons, PathP!ChainReasons
<1>1. F!Failed = PathP!Failed /\ F!Shortlists = PathP!Shortlists
  BY DEF F!Failed, PathP!Failed, F!Shortlists, PathP!Shortlists, F!WaveHits,
     PathP!WaveHits
<1>2. \A status, us, gs, hits :
        F!Verdict(status, us, gs, hits) = PathP!Verdict(status, us, gs, hits)
  BY DEF F!Verdict, PathP!Verdict, F!FirstReason, PathP!FirstReason
<1>3. F!Target = PathP!Target /\ (F!HasBackup <=> PathP!HasBackup)
  BY DEF F!Target, PathP!Target, F!HasBackup, PathP!HasBackup, F!SkipsAsta,
     PathP!SkipsAsta, F!Metadata, PathP!Metadata
<1>4. ASSUME NEW r, F!GiveUp(r) PROVE PathP!GiveUp(r)
  BY <1>4 DEF F!GiveUp, PathP!GiveUp, F!Provisional, PathP!Provisional, F!LostGaps,
     PathP!LostGaps, F!Close, PathP!Close
<1>5. F!CallAllowed /\ F!CallEnds => PathP!CallAllowed /\ PathP!CallEnds
  BY <1>3 DEF F!CallAllowed, PathP!CallAllowed, F!CallEnds, PathP!CallEnds,
     F!CallTimeout, PathP!CallTimeout, F!AtMost, PathP!AtMost
<1>6. F!Pool => PathP!Pool
  BY <1>1, <1>2 DEF F!Pool, PathP!Pool
<1>7. F!PoolDeclines => PathP!PoolDeclines
  BY DEF F!PoolDeclines, PathP!PoolDeclines
<1>8. F!TakeHits => PathP!TakeHits
  BY DEF F!TakeHits, PathP!TakeHits, F!OwnAttempt, PathP!OwnAttempt
<1>9. F!OpenChain => PathP!OpenChain
  BY DEF F!OpenChain, PathP!OpenChain, F!OwnAttempt, PathP!OwnAttempt
<1>10. F!OutOfTime => PathP!OutOfTime
  BY <1>4 DEF F!OutOfTime, PathP!OutOfTime
<1>11. F!NoBackupLeft => PathP!NoBackupLeft
  BY <1>3, <1>4 DEF F!NoBackupLeft, PathP!NoBackupLeft, F!ChainEnds, PathP!ChainEnds
<1>12. F!BackupDelivers => PathP!BackupDelivers
  BY <1>3, <1>5 DEF F!BackupDelivers, PathP!BackupDelivers, F!Provisional,
     PathP!Provisional, F!Close, PathP!Close
<1>13. F!BackupFails => PathP!BackupFails
  BY <1>3, <1>5 DEF F!BackupFails, PathP!BackupFails, F!ReasonAfter,
     PathP!ReasonAfter
<1>14. F!BackupRaises => PathP!BackupRaises
  BY <1>5 DEF F!BackupRaises, PathP!BackupRaises
<1>15. F!Conclude => PathP!Conclude
  BY <1>2 DEF F!Conclude, PathP!Conclude, F!FinalStatus, PathP!FinalStatus
<1> QED
  BY <1>6, <1>7, <1>8, <1>9, <1>10, <1>11, <1>12, <1>13, <1>14, <1>15 DEF F!Next,
     PathP!Next, F!CallBackup, PathP!CallBackup

\* Chains are the same, and the assumptions of the modules the proofs are taken from.
LEMMA SameChains ==
    ASSUME NEW p, F!ChainsApart(p)
    PROVE  PathP!ChainsApart(p)
<1>1. \A s : F!ChainFrom(p, s) = PathP!ChainFrom(p, s)
  BY DEF F!ChainFrom, PathP!ChainFrom, F!ClosedUnder, PathP!ClosedUnder, F!SourceIds,
     PathP!SourceIds, F!SourceBackupChain, PathP!SourceBackupChain, F!Backup, PathP!Backup,
     F!NoBackup, PathP!NoBackup, F!ChainReasons, PathP!ChainReasons
<1> QED
  BY <1>1 DEF F!ChainsApart, PathP!ChainsApart, F!Metadata, PathP!Metadata, F!ChainReasons,
     PathP!ChainReasons

LEMMA PathConstants == PathP!FallbackConstants
BY WaveOfPlan, SameChains DEF F!FallbackConstants, PathP!FallbackConstants, F!PlanShape,
   PathP!PlanShape, F!SourceIds, PathP!SourceIds, F!SourceBackupChain,
   PathP!SourceBackupChain, F!Backup, PathP!Backup, F!NoBackup, PathP!NoBackup,
   F!Routes, PathP!Routes, F!ChainReasons, PathP!ChainReasons

LEMMA MixedConstants == MixedP!WaveConstants
BY WaveOfPlan DEF Mixed!WaveConstants, MixedP!WaveConstants, Mixed!Steps, MixedP!Steps

-----------------------------------------------------------------------------
(* The invariant *)

\* What the paths start from, kept while the wave runs.
PathWaits ==
    /\ at = 1 /\ chain = F!NoChain /\ attempts = << >>
    /\ found = {} /\ unresolved = {} /\ gaps = {} /\ outcome = F!NoOutcome

\* The wave is as FirstWave leaves it, and in time; then the paths are as
\* FallbackPath leaves them, and in time.
RunInv ==
    /\ plan \in Plans
    /\ stage = "wave" =>
         /\ IF plan.mixed THEN MixedP!WaveInv ELSE SingleP!WaveInv
         /\ wave = "returned" => now <= plan.waveTimeout + UnwindMax
         /\ PathWaits
    /\ stage # "wave" => PathP!Inv /\ PathP!WithinBudget

\* What else the wave promises, to whatever comes after it.
Promises == PermitAccounting /\ FinishedWorkKept /\ NoOrphans

LEMMA SinglePromises == SingleP!WaveInv => Promises
BY DEF Promises, SingleP!WaveInv, SingleP!PermitInv, SingleP!ReportInv,
   SingleP!PermitAccounting, PermitAccounting, SingleP!Owning, Owning,
   SingleP!Cardinality, Cardinality, SingleP!Permits, Permits, SingleP!FinishedWorkKept,
   FinishedWorkKept, SingleP!NoOrphans, NoOrphans, SingleP!Steps, Steps,
   SingleP!Unreported, Unreported, SingleP!Collected, Collected, SingleP!Reported,
   Reported, SingleP!Reasons, Reasons

LEMMA MixedPromises == MixedP!WaveInv => Promises
BY DEF Promises, MixedP!WaveInv, MixedP!PermitInv, MixedP!ReportInv,
   MixedP!PermitAccounting, PermitAccounting, MixedP!Owning, Owning,
   MixedP!Cardinality, Cardinality, MixedP!Permits, Permits, MixedP!FinishedWorkKept,
   FinishedWorkKept, MixedP!NoOrphans, NoOrphans, MixedP!Steps, Steps,
   MixedP!Unreported, Unreported, MixedP!Collected, Collected, MixedP!Reported,
   Reported, MixedP!Reasons, Reasons

LEMMA InitRun == Init => RunInv
<1> SUFFICES ASSUME Init PROVE RunInv
  OBVIOUS
<1>1. CASE plan.mixed
  <2>1. MixedP!Init
    BY <1>1 DEF Init, Mixed!Init, MixedP!Init, Mixed!Steps, MixedP!Steps,
       Mixed!Permits, MixedP!Permits, Mixed!Unreported, MixedP!Unreported,
       Mixed!Reported, MixedP!Reported
  <2> QED
    BY <1>1, <2>1, MixedP!InitWave, MixedConstants DEF Init, MixedP!Init, RunInv,
       PathWaits, MixedP!WaveConstants
<1>2. CASE ~plan.mixed
  <2>1. SingleP!Init
    BY <1>2 DEF Init, Single!Init, SingleP!Init, Single!Steps, SingleP!Steps,
       Single!Permits, SingleP!Permits, Single!Unreported, SingleP!Unreported,
       Single!Reported, SingleP!Reported
  <2> QED
    BY <1>2, <2>1, SingleP!InitWave, WaveConstants DEF Init, SingleP!Init, RunInv,
       PathWaits, SingleP!Steps, Steps
<1> QED
  BY <1>1, <1>2

\* A wave keeps its invariant to the end, and returns in time.
LEMMA SingleKeeps ==
    ASSUME SingleP!WaveInv, Single!Next, wave # "returned"
    PROVE  SingleP!WaveInv' /\ (wave' = "returned" => now' <= WaveTimeout + UnwindMax)
<1>1. SingleP!Next
  BY SameSingle
<1>2. SingleP!WaveInv'
  BY <1>1, SingleP!NextKeepsWave, WaveConstants DEF SingleP!Steps, Steps, SingleP!vars
<1>3. ASSUME wave' = "returned" PROVE now' = now /\ wave \in {"waiting", "draining"}
  BY <1>1, <1>3 DEF SingleP!Next, SingleP!LoopStep, SingleP!TaskStep, SingleP!Start,
     SingleP!Resume, SingleP!AcquireTimesOut, SingleP!AdapterTimesOut,
     SingleP!Unwound, SingleP!VariantsReturn, SingleP!Collect, SingleP!WaveDeadline,
     SingleP!CancelledTaskRaises, SingleP!DrainEnds, SingleP!Abandon, SingleP!Tick
<1>4. now \in Nat
  BY DEF SingleP!WaveInv, SingleP!PermitInv, SingleP!TypeOK
<1> QED
  BY <1>2, <1>3, <1>4, WaveConstants DEF SingleP!Steps, Steps, SingleP!WaveInv, SingleP!BudgetInv

LEMMA MixedKeeps ==
    ASSUME MixedP!WaveInv, Mixed!Next, wave # "returned"
    PROVE  MixedP!WaveInv' /\ (wave' = "returned" => now' <= MixedWaveTimeout + UnwindMax)
<1>1. MixedP!Next
  BY SameMixed
<1>2. MixedP!WaveInv'
  BY <1>1, MixedP!NextKeepsWave, MixedConstants DEF MixedP!WaveConstants, MixedP!vars
<1>3. ASSUME wave' = "returned" PROVE now' = now /\ wave \in {"waiting", "draining"}
  BY <1>1, <1>3 DEF MixedP!Next, MixedP!LoopStep, MixedP!TaskStep, MixedP!Start,
     MixedP!Resume, MixedP!AcquireTimesOut, MixedP!AdapterTimesOut, MixedP!Unwound,
     MixedP!VariantsReturn, MixedP!Collect, MixedP!WaveDeadline, MixedP!DrainEnds,
     MixedP!CancelledTaskRaises, MixedP!Abandon, MixedP!Tick
<1>4. now \in Nat
  BY DEF MixedP!WaveInv, MixedP!PermitInv, MixedP!TypeOK
<1> QED
  BY <1>2, <1>3, <1>4, MixedConstants DEF MixedP!WaveConstants, MixedP!WaveInv, MixedP!BudgetInv

-----------------------------------------------------------------------------
(* The steps *)

\* What the wave hands over is a state the paths may start from.
LEMMA HandOverStarts ==
    ASSUME RunInv, HandOver
    PROVE  PathP!Init'
<1>1. now \in Nat
  BY DEF RunInv, HandOver, SingleP!WaveInv, SingleP!PermitInv, SingleP!TypeOK,
         MixedP!WaveInv, MixedP!PermitInv, MixedP!TypeOK
<1>2. now \in 0..plan.waveTimeout + UnwindMax
  <2>1. plan.waveTimeout \in Int /\ UnwindMax \in Int
    BY WaveOfPlan, WaveConstants, MixedConstants DEF RunInv, MixedP!WaveConstants
  <2> QED
    BY <1>1, <2>1 DEF RunInv, HandOver
<1>3. \A i \in F!Positions : results'[i] = "weak" => F!CanBeWeak(plan, i)
  <2>1. \A i \in 1..N : bySource[i].reason # "weak"
    BY DEF RunInv, HandOver, SingleP!WaveInv, SingleP!PermitInv, SingleP!TypeOK,
           MixedP!WaveInv, MixedP!PermitInv, MixedP!TypeOK, SingleP!Steps, MixedP!Steps,
           SingleP!Reasons, MixedP!Reasons
  <2> QED
    BY <2>1, WaveOfPlan DEF RunInv, HandOver, ResultOf, F!Positions
<1> QED
  BY <1>2, <1>3 DEF HandOver, RunInv, PathWaits, PathP!Init, F!Results, PathP!Results,
     F!Delivered, PathP!Delivered, F!FailureReasons, PathP!FailureReasons,
     F!ChainReasons, PathP!ChainReasons, F!Positions, PathP!Positions, F!CanBeWeak,
     PathP!CanBeWeak, F!NoChain, PathP!NoChain, F!NoOutcome, PathP!NoOutcome,
     F!NoBackup, PathP!NoBackup

LEMMA PathStart == PathP!Init => PathP!Inv /\ PathP!WithinBudget
<1>1. PathP!Init => PathP!WithinBudget
  BY PathConstants, WaveConstants DEF PathP!FallbackConstants, PathP!Init,
     PathP!WithinBudget, PathP!PlanShape
<1> QED
  BY <1>1, PathP!InitInv, PathConstants DEF PathP!FallbackConstants

\* One step of the wave, the hand-over or the paths keeps the invariant.
LEMMA NextRun == RunInv /\ [Next]_vars => RunInv'
<1> SUFFICES ASSUME RunInv, [Next]_vars PROVE RunInv'
  OBVIOUS
<1>1. CASE WaveStep
  <2>1. UNCHANGED pathVars
    BY <1>1 DEF WaveStep
  <2>2. plan' = plan /\ stage' = stage /\ PathWaits'
    BY <1>1, <2>1 DEF WaveStep, pathVars, RunInv, PathWaits
  <2>3. CASE plan.mixed
    BY <1>1, <2>2, <2>3, MixedKeeps, WaveOfPlan DEF WaveStep, RunInv
  <2>4. CASE ~plan.mixed
    BY <1>1, <2>2, <2>4, SingleKeeps, WaveOfPlan DEF WaveStep, RunInv
  <2> QED
    BY <2>3, <2>4
<1>2. CASE HandOver
  <2>1. PathP!Inv' /\ PathP!WithinBudget'
    <3>1. (PathP!Init)'
      BY <1>2, HandOverStarts
    <3> QED
      BY <3>1, PathStart, PTL
  <2> QED
    BY <1>2, <2>1 DEF HandOver, RunInv
<1>3. CASE PathStep
  <2>1. PathP!Next
    BY <1>3, SamePath DEF PathStep
  <2>2. PathP!Inv' /\ PathP!WithinBudget'
    BY <1>3, <2>1, PathP!NextKeepsInv, PathP!NextKeepsBudget, PathConstants
       DEF PathStep, RunInv, PathP!FallbackConstants, PathP!vars
  <2>3. plan' = plan /\ stage' # "wave"
    BY <1>3 DEF PathStep, F!Next, F!Pool, F!PoolDeclines, F!TakeHits, F!OpenChain,
       F!OutOfTime, F!NoBackupLeft, F!GiveUp, F!CallBackup, F!BackupDelivers,
       F!BackupFails, F!BackupRaises, F!Close, F!Conclude
  <2> QED
    BY <1>3, <2>2, <2>3 DEF PathStep, RunInv
<1>4. CASE UNCHANGED vars
  <2>1. UNCHANGED SingleP!vars /\ UNCHANGED MixedP!vars /\ UNCHANGED PathP!vars
    BY <1>4 DEF vars, waveVars, pathVars, SingleP!vars, MixedP!vars, PathP!vars
  <2>2. SingleP!WaveInv => SingleP!WaveInv'
    BY <2>1, SingleP!NextKeepsWave, WaveConstants DEF SingleP!Steps, Steps
  <2>3. MixedP!WaveInv => MixedP!WaveInv'
    BY <2>1, MixedP!NextKeepsWave, MixedConstants DEF MixedP!WaveConstants
  <2>4. PathP!Inv /\ PathP!WithinBudget => PathP!Inv' /\ PathP!WithinBudget'
    BY <2>1, PathP!NextKeepsInv, PathP!NextKeepsBudget, PathConstants
       DEF PathP!FallbackConstants
  <2> QED
    BY <1>4, <2>2, <2>3, <2>4 DEF vars, waveVars, pathVars, RunInv, PathWaits
<1> QED
  BY <1>1, <1>2, <1>3, <1>4 DEF Next

\* "Hard per-source and overall budgets" (run_retrieval): whatever the plan, the
\* wave and the backups after it together end by the plan's deadline plus the
\* unwinding of one adapter.
THEOREM WholeRetrievalInTime == Spec => []WholeBudget
<1>1. RunInv => WholeBudget
  <2> SUFFICES ASSUME RunInv, wave # "abandoned" PROVE now <= plan.overall + UnwindMax
    BY DEF WholeBudget
  <2>1. CASE stage # "wave"
    BY <2>1 DEF RunInv, PathP!WithinBudget
  <2>2. CASE stage = "wave"
    <3>1. /\ plan.overall \in Nat /\ plan.waveTimeout \in 0..plan.overall
          /\ UnwindMax \in Nat
      BY WaveOfPlan, WaveConstants DEF RunInv, F!FallbackConstants, F!PlanShape
    <3>2. now \in Nat /\ wave \in {"waiting", "draining", "returned", "abandoned"}
      BY <2>2 DEF RunInv, SingleP!WaveInv, SingleP!PermitInv, SingleP!TypeOK,
                  MixedP!WaveInv, MixedP!PermitInv, MixedP!TypeOK
    <3>3. now <= plan.waveTimeout + UnwindMax
      <4>1. CASE plan.mixed
        BY <2>2, <3>1, <3>2, <4>1, WaveOfPlan DEF RunInv, MixedP!WaveInv, MixedP!BudgetInv
      <4>2. CASE ~plan.mixed
        BY <2>2, <3>1, <3>2, <4>2, WaveOfPlan DEF RunInv, SingleP!WaveInv, SingleP!BudgetInv
      <4> QED
        BY <4>1, <4>2
    <3> QED
      BY <3>1, <3>2, <3>3
  <2> QED
    BY <2>1, <2>2
<1> QED
  BY <1>1, InitRun, NextRun, PTL DEF Spec

\* Permits, finished work and tasks are as the wave left them, whatever the
\* paths do: the retrieval as a whole keeps what the wave alone promised.
THEOREM WavePromisesLast == Spec => [](PermitAccounting /\ FinishedWorkKept /\ NoOrphans)
<1> DEFINE Kept == stage # "wave" => Promises
<1>1. RunInv /\ Kept => Promises
  BY SinglePromises, MixedPromises DEF RunInv
<1>2. Init => Kept
  BY DEF Init
<1>3. RunInv /\ Kept /\ [Next]_vars => Kept'
  <2> SUFFICES ASSUME RunInv, Promises, [Next]_vars, stage' # "wave" PROVE Promises'
    BY <1>1
  <2>1. UNCHANGED waveVars
    BY DEF Next, WaveStep, HandOver, PathStep, vars, pathVars, RunInv
  <2> QED
    BY <2>1 DEF waveVars, Promises, PermitAccounting, Owning, FinishedWorkKept, NoOrphans
<1> QED
  BY <1>1, <1>2, <1>3, InitRun, NextRun, PTL DEF Spec, Promises

-----------------------------------------------------------------------------
(* What the whole retrieval reports *)

\* The paths work from the wave's results, and say of each source what is true.
Handed ==
    \A i \in PathP!Positions : results[i] \in PathP!Delivered <=> result[i] = "ok"

TellInv == stage # "wave" => PathP!PathInv /\ Handed

LEMMA PathTells == PathP!Init => PathP!PathInv
BY PathP!InitPath, PathConstants DEF PathP!FallbackConstants

\* A wave that returned reports every step as its task left it.
LEMMA HandsOverTruly ==
    ASSUME RunInv, HandOver
    PROVE  Handed'
<1>1. stage = "wave" /\ wave = "returned" /\ UNCHANGED <<waveVars, plan>>
  BY DEF HandOver
<1>2. NoOrphans /\ FinishedWorkKept
  BY <1>1, SinglePromises, MixedPromises DEF RunInv, Promises
<1>3. PathP!Positions' = F!Positions /\ F!Positions = Steps
  BY <1>1, WaveOfPlan DEF RunInv, PathP!Positions, F!Positions, Steps
<1>4. ASSUME NEW i \in Steps PROVE results'[i] \in PathP!Delivered <=> result'[i] = "ok"
  <2>1. ResultOf(i) = IF result[i] = "cancelled" THEN "timeout"
                      ELSE IF result[i] \in Reasons THEN result[i] ELSE "adapter_error"
    BY <1>1, <1>2, <1>4 DEF NoOrphans, FinishedWorkKept, ResultOf, Collected, Reported
  <2>2. results'[i] = ResultOf(i) \/ (results'[i] = "weak" /\ ResultOf(i) = "ok")
    BY <1>3, <1>4 DEF HandOver
  <2>3. ResultOf(i) # "weak" /\ (ResultOf(i) = "ok" <=> result[i] = "ok")
    BY <2>1 DEF Reasons
  <2> QED BY <1>1, <2>2, <2>3 DEF PathP!Delivered, waveVars
<1> QED BY <1>3, <1>4 DEF Handed, PathP!Delivered

LEMMA NextTells == RunInv /\ TellInv /\ [Next]_vars => TellInv'
<1> SUFFICES ASSUME RunInv, TellInv, [Next]_vars PROVE TellInv'
  OBVIOUS
<1>1. CASE WaveStep
  BY <1>1 DEF WaveStep, pathVars, TellInv
<1>2. CASE HandOver
  <2>1. (PathP!Init)'
    BY <1>2, HandOverStarts
  <2>2. PathP!PathInv'
    BY <2>1, PathTells, PTL
  <2> QED BY <1>2, <2>2, HandsOverTruly DEF TellInv
<1>3. CASE PathStep
  <2>1. PathP!Next /\ stage # "wave" /\ UNCHANGED waveVars
    BY <1>3, SamePath DEF PathStep
  <2>2. PathP!PathInv'
    BY <2>1, PathP!NextKeepsPath, PathConstants DEF TellInv, PathP!FallbackConstants, PathP!vars
  <2>3. plan' = plan /\ results' = results
    BY <2>1 DEF PathP!Next, PathP!Pool, PathP!PoolDeclines, PathP!TakeHits, PathP!OpenChain,
       PathP!OutOfTime, PathP!NoBackupLeft, PathP!CallBackup, PathP!BackupDelivers,
       PathP!BackupFails, PathP!BackupRaises, PathP!Conclude
  <2> QED BY <2>1, <2>2, <2>3 DEF TellInv, Handed, PathP!Positions, PathP!Delivered, waveVars
<1>4. CASE UNCHANGED vars
  <2>1. UNCHANGED PathP!vars
    BY <1>4 DEF vars, pathVars, PathP!vars
  <2>2. PathP!PathInv => PathP!PathInv'
    BY <2>1, PathP!NextKeepsPath, PathConstants DEF PathP!FallbackConstants
  <2> QED BY <1>4, <2>2 DEF vars, waveVars, pathVars, TellInv, Handed, PathP!Positions, PathP!Delivered
<1> QED BY <1>1, <1>2, <1>3, <1>4 DEF Next

\* The two halves agree on who delivered: a source named as a gap did not deliver in
\* the wave, and one whose hits are returned did, on the pooled and the standard path.
THEOREM ReportsAreTrue == Spec => []ReportsTrue
<1>1. Init => TellInv
  BY DEF Init, TellInv
<1>2. RunInv /\ TellInv => ReportsTrue
  <2> SUFFICES ASSUME RunInv, TellInv, NEW i \in F!Positions, outcome.status # "none"
               PROVE  /\ plan.steps[i].source \in outcome.gaps => result[i] # "ok"
                      /\ plan.steps[i].source \in outcome.hits => result[i] = "ok"
    BY DEF ReportsTrue
  <2>1. stage # "wave"
    BY DEF RunInv, PathWaits, F!NoOutcome
  <2>2. PathP!TellsTheWave
    BY <2>1, PathP!OutcomeTells, PathConstants DEF TellInv, PathP!PathInv, PathP!FallbackConstants
  <2>3. i \in PathP!Positions /\ PathP!SourceAt(i) = plan.steps[i].source
    BY DEF F!Positions, PathP!Positions, PathP!SourceAt
  <2> QED BY <2>1, <2>2, <2>3 DEF TellInv, Handed, PathP!TellsTheWave
<1> QED
  BY <1>1, <1>2, InitRun, NextRun, NextTells, PTL DEF Spec
=============================================================================
