------------------------- MODULE FallbackPath_proofs -------------------------
(***************************************************************************)
(* Theorems about FallbackPath, for every set of plans and every budget.   *)
(***************************************************************************)
EXTENDS FallbackPath, SequenceTheorems, WellFoundedInduction, TLAPS

\* Where the loops stand, stage by stage: the strengthening TypeOK needs.
LoopInv ==
    /\ stage = "chain" => at \in Positions /\ chain.current \in SourceIds
    /\ stage = "pooling" => at = 1 /\ unresolved = {}
    /\ stage \in {"pooled", "done"} => at = Len(plan.steps) + 1
    /\ stage \in {"pooling", "walking", "chain", "raised"} => outcome.status = "none"
    /\ \A u \in unresolved : u.at < at

Inv == TypeOK /\ LoopInv

\* A plan has steps at its positions 1 to Len, each a record of a step.
LEMMA StepsTyped ==
    ASSUME TypeOK
    PROVE  /\ Len(plan.steps) \in Nat \ {0}
           /\ \A i \in Positions : plan.steps[i] \in
                [source : SourceIds, route : Routes, supplemental : BOOLEAN]
           /\ \A i \in Positions : SourceAt(i) \in SourceIds
<1> DEFINE S == [source : SourceIds, route : Routes, supplemental : BOOLEAN]
<1>1. plan.steps \in Seq(S) /\ plan.steps # << >>
  BY DEF TypeOK, PlanShape
<1> HIDE DEF S
<1>2. Len(plan.steps) \in Nat
  BY <1>1
<1>3. Len(plan.steps) # 0
  BY <1>1, EmptySeq
<1>4. \A i \in Positions : plan.steps[i] \in S
  BY <1>1, <1>2, ElementOfSeq DEF Positions
<1>5. \A i \in Positions : SourceAt(i) \in SourceIds
  BY <1>4 DEF S, SourceAt
<1> QED
  BY <1>2, <1>3, <1>4, <1>5 DEF S

\* The time a backup may take never reaches past the deadline.
LEMMA CallTimeoutBounded ==
    ASSUME TypeOK, NEW s
    PROVE  CallTimeout(s) \in Int /\ CallTimeout(s) <= plan.overall - now
  BY FallbackConstants DEF TypeOK, PlanShape, CallTimeout, AtMost

\* A call moves the clock forward, and past the deadline by UnwindMax at most.
LEMMA CallEndsBounded ==
    ASSUME TypeOK, CallEnds
    PROVE  now' \in Nat /\ now <= now' /\ now' <= plan.overall + UnwindMax
<1>1. PICK d \in 0..CallTimeout(Target) + UnwindMax : now' = now + d
  BY DEF CallEnds
<1>2. now \in Nat /\ plan.overall \in Nat /\ UnwindMax \in Nat
  BY FallbackConstants DEF TypeOK, PlanShape
<1> QED BY <1>1, <1>2, CallTimeoutBounded

\* What _run_standard_retrieval_path's `if not recovered` does to the state.
LEMMA GiveUpKeepsInv ==
    ASSUME Inv, stage = "chain", NEW r \in FailureReasons, GiveUp(r),
           UNCHANGED <<plan, now, results, attempts, outcome>>
    PROVE  Inv'
<1>1. at \in Positions /\ SourceAt(at) \in SourceIds
  BY StepsTyped DEF Inv, LoopInv
<1>2. Provisional \subseteq SourceIds
  BY <1>1 DEF Provisional
<1>3. TypeOK'
  <2>1. found' \subseteq SourceIds
    BY <1>2 DEF Inv, TypeOK, GiveUp
  <2>2. (unresolved \subseteq [at : Positions, reason : FailureReasons])'
    BY <1>1 DEF Inv, TypeOK, GiveUp, Unresolved, Positions
  <2>3. gaps' \subseteq SourceIds
    BY DEF Inv, TypeOK, GiveUp, LostGaps, ChainStates
  <2>4. chain' \in ChainStates
    BY DEF GiveUp, Close, NoChain, ChainStates, FailureReasons, ChainReasons
  <2>5. at' \in 1..Len(plan'.steps) + 1
    BY <1>1, StepsTyped DEF Inv, GiveUp, Close, Positions
  <2>6. PlanShape(plan)' /\ now' \in Nat /\ (results \in [Positions -> Results])'
    BY DEF Inv, TypeOK, Positions
  <2>7. (attempts \in Seq([at : Positions, source : SourceIds, result : Results]))'
    BY DEF Inv, TypeOK, Positions
  <2>8. stage' = "walking" /\ outcome' \in Outcomes
    BY DEF Inv, TypeOK, GiveUp, Close
  <2> QED BY <2>1, <2>2, <2>3, <2>4, <2>5, <2>6, <2>7, <2>8 DEF TypeOK
<1>4. LoopInv'
  <2>1. at' = at + 1 /\ stage' = "walking" /\ outcome'.status = "none"
    BY DEF Inv, LoopInv, GiveUp, Close
  <2>2. \A u \in unresolved' : u.at < at'
    <3> SUFFICES ASSUME NEW u \in unresolved' PROVE u.at < at'
      OBVIOUS
    <3>1. at \in Int
      BY <1>1, StepsTyped DEF Inv, Positions
    <3>2. CASE u \in unresolved
      <4>1. u.at \in Int
        BY <3>2, StepsTyped DEF Inv, TypeOK, Positions
      <4> QED BY <3>1, <3>2, <4>1, <2>1 DEF Inv, LoopInv
    <3>3. CASE u = Unresolved(at, r)
      BY <3>1, <3>3, <2>1 DEF Unresolved
    <3> QED BY <3>2, <3>3 DEF GiveUp
  <2> QED BY <2>1, <2>2 DEF LoopInv
<1> QED BY <1>3, <1>4 DEF Inv

\* A nonempty set of unresolved steps has a first one: unresolved_reasons[0].
LEMMA FirstUnresolved ==
    ASSUME NEW us \in SUBSET [at : Positions, reason : FailureReasons], us # {}
    PROVE  \E u \in us : \A v \in us : u.at <= v.at
<1> DEFINE P == {u.at : u \in us}
<1>1. P \subseteq Nat /\ P # {}
  BY DEF Positions
<1>2. \E p \in P : \A q \in P : ~ (<<q, p>> \in OpToRel(<, Nat))
  BY <1>1, NatLessThanWellFounded, WFMin
<1>3. PICK u \in us : \A v \in us : ~ (<<v.at, u.at>> \in OpToRel(<, Nat))
  BY <1>2
<1>4. ASSUME NEW v \in us PROVE u.at <= v.at
  <2>1. u.at \in Nat /\ v.at \in Nat
    BY <1>1
  <2>2. ~ (v.at < u.at)
    BY <1>3, <2>1 DEF OpToRel
  <2> QED BY <2>1, <2>2
<1> QED
  BY <1>4

LEMMA FirstReasonTyped ==
    ASSUME NEW us \in SUBSET [at : Positions, reason : FailureReasons], us # {}
    PROVE  FirstReason(us) \in FailureReasons
BY FirstUnresolved DEF FirstReason

\* An outcome is well typed when its parts are.
LEMMA VerdictTyped ==
    ASSUME NEW status \in {"success", "partial", "failure_gaps"},
           NEW us \in SUBSET [at : Positions, reason : FailureReasons],
           NEW gs \in SUBSET SourceIds, NEW hits \in SUBSET SourceIds
    PROVE  /\ Verdict(status, us, gs, hits) \in Outcomes
           /\ us # {} => Verdict(status, us, gs, hits).reason \in FailureReasons
           /\ us = {} => Verdict(status, us, gs, hits).reason = "none"
           /\ Verdict(status, us, gs, hits).status = status
           /\ Verdict(status, us, gs, hits).gaps = gs
BY FirstReasonTyped DEF Verdict, Outcomes

LEMMA InitInv == Init => Inv
<1> SUFFICES ASSUME Init PROVE Inv
  OBVIOUS
<1>1. PlanShape(plan)
  BY FallbackConstants DEF Init
<1>2. Len(plan.steps) \in Nat \ {0}
  <2> DEFINE S == [source : SourceIds, route : Routes, supplemental : BOOLEAN]
  <2>1. plan.steps \in Seq(S) /\ plan.steps # << >>
    BY <1>1 DEF PlanShape
  <2> HIDE DEF S
  <2> QED BY <2>1, EmptySeq
<1>3. now \in Nat
  BY <1>1, FallbackConstants DEF Init, PlanShape
<1>4. TypeOK
  BY <1>1, <1>2, <1>3 DEF Init, TypeOK, NoChain, NoOutcome, ChainStates, Outcomes,
                          FailureReasons, ChainReasons
<1>5. LoopInv
  BY <1>2 DEF Init, LoopInv, NoOutcome
<1> QED BY <1>4, <1>5 DEF Inv

\* One step of the code keeps the types and the loops' bookkeeping.
LEMMA NextKeepsInv ==
    ASSUME Inv, [Next]_vars
    PROVE  Inv'
<1> USE DEF Inv
<1>1. CASE Pool
  <2>1. Failed \subseteq Positions
    BY DEF Failed
  <2>2. WaveHits(FALSE) \cup WaveHits(TRUE) \subseteq SourceIds
    BY StepsTyped DEF WaveHits
  <2>3. PICK hits \in SUBSET (WaveHits(FALSE) \cup WaveHits(TRUE)) :
          /\ unresolved' = {Unresolved(i, results[i]) : i \in Failed}
          /\ gaps' = {SourceAt(i) : i \in Failed}
          /\ found' = hits
          /\ attempts' = [i \in Positions |-> Attempt(i, SourceAt(i), results[i])]
          /\ outcome' = Verdict(IF Failed = {} THEN "success" ELSE "partial",
                                unresolved', gaps', hits)
    BY <1>1 DEF Pool, Shortlists
  <2>4. \A i \in Failed : results[i] \in FailureReasons
    BY <2>1 DEF TypeOK, Failed, Results
  <2>5. unresolved' \subseteq [at : Positions, reason : FailureReasons]
    BY <2>1, <2>3, <2>4 DEF Unresolved
  <2>6. gaps' \subseteq SourceIds
    BY <2>1, <2>3, StepsTyped
  <2>7. attempts' \in Seq([at : Positions, source : SourceIds, result : Results])
    <3>1. \A i \in Positions : Attempt(i, SourceAt(i), results[i]) \in
            [at : Positions, source : SourceIds, result : Results]
      BY StepsTyped DEF Attempt, TypeOK
    <3>2. Positions = 1..Len(plan.steps) /\ Len(plan.steps) \in Nat
      BY StepsTyped DEF Positions
    <3> QED BY <2>3, <3>1, <3>2
  <2>8. outcome' \in Outcomes
    BY <2>2, <2>3, <2>5, <2>6, VerdictTyped
  <2>9. /\ plan' = plan /\ now' = now /\ results' = results /\ chain' = chain
        /\ at' = Len(plan.steps) + 1 /\ stage' = "pooled"
    BY <1>1 DEF Pool
  <2>10. TypeOK'
    <3>1. Positions' = Positions
      BY <2>9 DEF Positions
    <3>2. PlanShape(plan)' /\ now' \in Nat /\ (results \in [Positions -> Results])'
      BY <2>9, <3>1 DEF TypeOK
    <3>3. at' \in 1..Len(plan'.steps) + 1 /\ chain' \in ChainStates
      BY <2>9, StepsTyped DEF TypeOK
    <3>4. found' \subseteq SourceIds
      BY <2>2, <2>3
    <3> HIDE DEF Inv
    <3> QED BY <2>5, <2>6, <2>7, <2>8, <2>9, <3>1, <3>2, <3>3, <3>4 DEF TypeOK
  <2>11. LoopInv'
    <3>1. \A u \in unresolved' : u.at < at'
      BY <2>1, <2>3, <2>9, StepsTyped DEF Unresolved, Positions
    <3> QED BY <3>1, <2>9 DEF LoopInv
  <2> QED BY <2>10, <2>11
<1>2. CASE PoolDeclines
  BY <1>2 DEF PoolDeclines, TypeOK, LoopInv, Positions
<1>3. CASE TakeHits
  <2>1. attempts' \in Seq([at : Positions, source : SourceIds, result : Results])
    BY <1>3, StepsTyped DEF TakeHits, OwnAttempt, Attempt, TypeOK
  <2>2. found' \subseteq SourceIds /\ at' \in 1..Len(plan.steps) + 1
    BY <1>3, StepsTyped DEF TakeHits, TypeOK, Positions
  <2>3. TypeOK'
    BY <1>3, <2>1, <2>2 DEF TakeHits, TypeOK, Positions
  <2>4. \A u \in unresolved : u.at < at + 1
    BY StepsTyped DEF TypeOK, LoopInv, Positions
  <2> QED BY <1>3, <2>3, <2>4 DEF TakeHits, LoopInv
<1>4. CASE OpenChain
  <2>1. attempts' \in Seq([at : Positions, source : SourceIds, result : Results])
    BY <1>4, StepsTyped DEF OpenChain, OwnAttempt, Attempt, TypeOK
  <2>2. chain' \in ChainStates /\ chain'.current \in SourceIds
    <3>1. results[at] \in Results /\ results[at] # "ok"
      BY <1>4 DEF OpenChain, TypeOK
    <3>2. (IF results[at] = "weak" THEN "no_hits" ELSE results[at]) \in FailureReasons
      BY <3>1 DEF Results, Delivered, FailureReasons, ChainReasons
    <3>3. SourceAt(at) \in SourceIds
      BY <1>4, StepsTyped DEF OpenChain
    <3> QED BY <1>4, <3>2, <3>3 DEF OpenChain, ChainStates
  <2>3. TypeOK'
    BY <1>4, <2>1, <2>2 DEF OpenChain, TypeOK, Positions
  <2> QED BY <1>4, <2>2, <2>3 DEF OpenChain, LoopInv, Positions
<1>5. CASE OutOfTime
  BY <1>5, GiveUpKeepsInv DEF OutOfTime, FailureReasons, ChainReasons
<1>6. CASE NoBackupLeft
  <2>1. chain.reason \in FailureReasons
    BY DEF TypeOK, ChainStates
  <2> QED BY <1>6, <2>1, GiveUpKeepsInv DEF NoBackupLeft
<1>7. CASE CallBackup
  <2>1. CallAllowed /\ CallEnds
    BY <1>7 DEF CallBackup, BackupDelivers, BackupFails, BackupRaises
  <2>2. at \in Positions /\ Target \in SourceIds /\ now' \in Nat
    BY <2>1, CallEndsBounded DEF CallAllowed, HasBackup, LoopInv
  <2>3. CASE BackupDelivers
    <3>1. attempts' \in Seq([at : Positions, source : SourceIds, result : Results])
      BY <2>2, <2>3 DEF BackupDelivers, Attempt, TypeOK, Results, Delivered
    <3>2. found' \subseteq SourceIds
      BY <2>2, <2>3, StepsTyped DEF BackupDelivers, TypeOK, Provisional
    <3>3. chain' \in ChainStates
      BY <2>3 DEF BackupDelivers, Close, NoChain, ChainStates, FailureReasons, ChainReasons
    <3>4. at' \in 1..Len(plan.steps) + 1
      BY <2>2, <2>3, StepsTyped DEF BackupDelivers, Close, Positions
    <3>5. TypeOK'
      BY <2>2, <2>3, <3>1, <3>2, <3>3, <3>4 DEF BackupDelivers, Close, TypeOK, Positions
    <3>6. \A u \in unresolved : u.at < at + 1
      BY StepsTyped DEF TypeOK, LoopInv, Positions
    <3> QED BY <2>1, <2>3, <3>5, <3>6 DEF BackupDelivers, Close, CallAllowed, LoopInv
  <2>4. CASE BackupFails
    <3>1. PICK r \in FailureReasons :
            /\ attempts' = Append(attempts, Attempt(at, Target, r))
            /\ chain' = [current |-> Target, reason |-> ReasonAfter(r),
                         visited |-> chain.visited \cup {Target},
                         gaps |-> chain.gaps \cup {Target}]
      BY <2>4 DEF BackupFails
    <3>2. attempts' \in Seq([at : Positions, source : SourceIds, result : Results])
      BY <2>2, <3>1 DEF Attempt, TypeOK, Results
    <3>3. chain' \in ChainStates /\ chain'.current \in SourceIds
      BY <2>2, <3>1 DEF TypeOK, ChainStates, ReasonAfter
    <3>4. TypeOK'
      BY <2>2, <2>4, <3>2, <3>3 DEF BackupFails, TypeOK, Positions
    <3> QED BY <2>2, <2>4, <3>3, <3>4 DEF BackupFails, LoopInv, Positions
  <2>5. CASE BackupRaises
    BY <2>1, <2>2, <2>5 DEF BackupRaises, CallAllowed, TypeOK, LoopInv, Positions
  <2> QED BY <1>7, <2>3, <2>4, <2>5 DEF CallBackup
<1>8. CASE Conclude
  <2>1. FinalStatus \in {"success", "partial", "failure_gaps"}
    BY DEF FinalStatus
  <2>2. outcome' \in Outcomes
    BY <1>8, <2>1, VerdictTyped DEF Conclude, TypeOK
  <2>3. at = Len(plan.steps) + 1
    BY <1>8, StepsTyped DEF Conclude, TypeOK, Positions
  <2> QED BY <1>8, <2>2, <2>3 DEF Conclude, TypeOK, LoopInv, Positions
<1>9. CASE UNCHANGED vars
  BY <1>9 DEF vars, TypeOK, LoopInv, Positions
<1> QED
  BY <1>1, <1>2, <1>3, <1>4, <1>5, <1>6, <1>7, <1>8, <1>9 DEF Next

\* TypeOK holds of every retrieval: each local of the two paths keeps its type.
THEOREM TypeCorrect == Spec => []TypeOK
<1>1. Inv => TypeOK
  BY DEF Inv
<1> QED BY <1>1, InitInv, NextKeepsInv, PTL DEF Spec

-----------------------------------------------------------------------------
(* The budget *)

\* A call starts before the deadline and gets no more than what is left of it.
LEMMA NextKeepsBudget ==
    ASSUME Inv, WithinBudget, [Next]_vars
    PROVE  WithinBudget'
<1>1. CASE CallEnds /\ plan' = plan
  BY <1>1, CallEndsBounded DEF Inv, WithinBudget
<1>2. CASE UNCHANGED <<plan, now>>
  BY <1>2 DEF WithinBudget
<1> QED
  BY <1>1, <1>2 DEF Next, vars, Pool, PoolDeclines, TakeHits, OpenChain, OutOfTime,
                    NoBackupLeft, CallBackup, BackupDelivers, BackupFails, BackupRaises,
                    Conclude

\* However long its chains, a retrieval ends by its deadline plus one unwinding.
THEOREM DeadlineIsHard == Spec => []WithinBudget
<1>1. Init => WithinBudget
  BY FallbackConstants DEF Init, WithinBudget, PlanShape
<1> QED BY <1>1, InitInv, NextKeepsInv, NextKeepsBudget, PTL DEF Spec

-----------------------------------------------------------------------------
(* The settlement and the status *)

\* found and gaps, told from how the steps taken so far were settled.
SettleInv ==
    /\ stage \in {"pooling", "walking", "chain"} =>
         (found = {} <=> \A i \in 1..at - 1 : Settled[i] = "lost")
    /\ \A u \in unresolved : results[u.at] # "weak" => SourceAt(u.at) \in gaps
    /\ stage = "chain" /\ results[at] # "weak" => SourceAt(at) \in chain.gaps

\* A closed chain settles its own step and no other.
LEMMA CloseSettles ==
    ASSUME Inv, at \in Positions, plan' = plan, results' = results, at' = at + 1,
           NEW us, us \in SUBSET {Unresolved(at, r) : r \in FailureReasons},
           unresolved' = unresolved \cup us
    PROVE  Settled' = [Settled EXCEPT ![at] =
                         IF us = {} THEN "answered"
                         ELSE IF results[at] = "weak" THEN "weak" ELSE "lost"]
<1>1. Positions' = Positions /\ Positions \subseteq Nat
  BY StepsTyped DEF Inv, Positions
<1>2. \A u \in unresolved : u.at \in Nat /\ u.at < at
  BY <1>1 DEF Inv, TypeOK, LoopInv
<1>3. \A u \in us : u.at = at
  BY DEF Unresolved
<1>4. ASSUME NEW i \in Positions, i # at
      PROVE  /\ (\E u \in unresolved' : u.at = i) <=> (\E u \in unresolved : u.at = i)
             /\ i < at + 1 <=> i < at
  BY <1>1, <1>2, <1>3, <1>4
<1>5. (\E u \in unresolved' : u.at = at) <=> us # {}
  BY <1>2, <1>3, <1>1
<1>6. at < at + 1
  BY <1>1
<1> DEFINE verdictAt == IF us = {} THEN "answered"
                        ELSE IF results[at] = "weak" THEN "weak" ELSE "lost"
<1>7. ASSUME NEW i \in Positions
      PROVE  Settled'[i] = IF i = at THEN verdictAt ELSE Settled[i]
  <2>1. CASE i = at
    BY <2>1, <1>1, <1>5, <1>6 DEF Settled
  <2>2. CASE i # at
    BY <2>2, <1>1, <1>4 DEF Settled
  <2> QED BY <2>1, <2>2
<1> HIDE DEF verdictAt
<1>8. Settled' = [i \in Positions |-> IF i = at THEN verdictAt ELSE Settled[i]]
  BY <1>7, <1>1 DEF Settled
<1>9. [Settled EXCEPT ![at] = verdictAt] =
        [i \in Positions |-> IF i = at THEN verdictAt ELSE Settled[i]]
  BY DEF Settled
<1> QED BY <1>8, <1>9 DEF verdictAt

LEMMA SettledTyped ==
    ASSUME TypeOK
    PROVE  /\ Settled \in [Positions -> Contract!Settlements]
           /\ DOMAIN Settled = Positions
           /\ 1 \in Positions
BY StepsTyped DEF Settled, Contract!Settlements, Positions

\* What is settled is a step the loop has passed.
LEMMA OpenFromAt ==
    ASSUME Inv
    PROVE  \A i \in Positions : Settled[i] # "open" <=> i < at
<1>1. \A u \in unresolved : u.at < at
  BY DEF Inv, LoopInv
<1> QED BY <1>1 DEF Settled

\* Closing the chain of the loop's step keeps found and gaps in line with it.
LEMMA CloseKeepsFound ==
    ASSUME Inv, SettleInv, stage \in {"walking", "chain"}, at \in Positions,
           at' = at + 1, stage' = "walking",
           NEW to \in {"answered", "weak", "lost"},
           Settled' = [Settled EXCEPT ![at] = to],
           found' = {} <=> (found = {} /\ to = "lost")
    PROVE  found' = {} <=> \A i \in 1..at' - 1 : Settled'[i] = "lost"
<1>1. at \in Nat /\ 1..at' - 1 = (1..at - 1) \cup {at} /\ at \notin 1..at - 1
  BY StepsTyped DEF Inv, Positions
<1>2. 1..at - 1 \subseteq Positions
  BY StepsTyped DEF Inv, Positions
<1>3. \A i \in 1..at - 1 : Settled'[i] = Settled[i]
  BY <1>1, <1>2, SettledTyped DEF Inv
<1>4. Settled'[at] = to
  BY SettledTyped DEF Inv
<1> QED BY <1>1, <1>3, <1>4 DEF SettleInv

\* `if not recovered`: the step is settled as weak or lost.
LEMMA GiveUpSettles ==
    ASSUME Inv, SettleInv, stage = "chain", NEW r \in FailureReasons, GiveUp(r),
           UNCHANGED <<plan, now, results, attempts, outcome>>
    PROVE  /\ SettleInv'
           /\ Settled' = [Settled EXCEPT ![at] = IF results[at] = "weak" THEN "weak" ELSE "lost"]
<1>1. at \in Positions
  BY DEF Inv, LoopInv
<1>2. Settled' = [Settled EXCEPT ![at] = IF results[at] = "weak" THEN "weak" ELSE "lost"]
  <2>1. {Unresolved(at, r)} \in SUBSET {Unresolved(at, q) : q \in FailureReasons}
    OBVIOUS
  <2>2. unresolved' = unresolved \cup {Unresolved(at, r)} /\ at' = at + 1
    BY DEF GiveUp, Close
  <2> QED BY <1>1, <2>1, <2>2, CloseSettles
<1>3. found' = {} <=> (found = {} /\ (IF results[at] = "weak" THEN "weak" ELSE "lost") = "lost")
  BY DEF GiveUp, Provisional
<1>4. found' = {} <=> \A i \in 1..at' - 1 : Settled'[i] = "lost"
  BY <1>1, <1>2, <1>3, CloseKeepsFound DEF GiveUp, Close
<1>5. \A u \in unresolved' : results[u.at] # "weak" => SourceAt(u.at) \in gaps'
  <2> SUFFICES ASSUME NEW u \in unresolved', results[u.at] # "weak"
               PROVE  SourceAt(u.at) \in gaps'
    OBVIOUS
  <2>1. CASE u \in unresolved
    BY <2>1 DEF SettleInv, GiveUp
  <2>2. CASE u = Unresolved(at, r)
    BY <2>2 DEF SettleInv, GiveUp, LostGaps, Unresolved
  <2> QED BY <2>1, <2>2 DEF GiveUp
<1>6. stage' = "walking"
  BY DEF GiveUp, Close
<1> QED BY <1>2, <1>4, <1>5, <1>6 DEF SettleInv, SourceAt

\* `recovered = True`, or a step that delivered in the wave: it is answered.
LEMMA AnswerSettles ==
    ASSUME Inv, SettleInv, stage \in {"walking", "chain"}, at \in Positions,
           at' = at + 1, stage' = "walking", found' # {},
           UNCHANGED <<plan, results, unresolved, gaps>>
    PROVE  /\ SettleInv'
           /\ Settled' = [Settled EXCEPT ![at] = "answered"]
<1>1. Settled' = [Settled EXCEPT ![at] = "answered"]
  <2>1. {} \in SUBSET {Unresolved(at, q) : q \in FailureReasons}
    OBVIOUS
  <2>2. unresolved' = unresolved \cup {}
    OBVIOUS
  <2> QED BY <2>1, <2>2, CloseSettles
<1>2. found' = {} <=> \A i \in 1..at' - 1 : Settled'[i] = "lost"
  BY <1>1, CloseKeepsFound
<1> QED BY <1>1, <1>2 DEF SettleInv, SourceAt

\* The steps that settle nothing leave the settlement alone.
LEMMA SettledUnchanged ==
    ASSUME UNCHANGED <<plan, results, unresolved, at>>
    PROVE  Settled' = Settled
BY DEF Settled, Positions

\* A source the pool's hits came from delivered: its step is answered.
LEMMA PoolSettles ==
    ASSUME Inv, Pool
    PROVE  /\ Settled' = [i \in Positions |-> IF i \in Failed THEN "lost" ELSE "answered"]
           /\ \E i \in Positions : i \notin Failed
<1>1. /\ unresolved' = {Unresolved(i, results[i]) : i \in Failed}
      /\ at' = Len(plan.steps) + 1 /\ plan' = plan /\ results' = results
  BY DEF Pool
<1>2. ASSUME NEW i \in Positions
      PROVE  (\E u \in unresolved' : u.at = i) <=> i \in Failed
  <2>1. \A j : Unresolved(j, results[j]).at = j
    BY DEF Unresolved
  <2>2. ASSUME i \in Failed PROVE \E u \in unresolved' : u.at = i
    BY <1>1, <2>1, <2>2
  <2>3. ASSUME NEW u \in unresolved', u.at = i PROVE i \in Failed
    BY <1>1, <2>1, <2>3
  <2> QED BY <2>2, <2>3
<1>3. \A i \in Positions : i < at'
  BY <1>1, StepsTyped DEF Inv, Positions
<1>4. \A i \in Failed : results[i] # "weak"
  BY DEF Failed, Delivered
<1>5. Positions' = Positions
  BY <1>1 DEF Positions
<1>6. \E i \in Positions : i \notin Failed
  <2>1. WaveHits(FALSE) # {}
    BY DEF Pool, Shortlists
  <2>2. PICK i \in Positions : results[i] = "ok"
    BY <2>1 DEF WaveHits
  <2> QED BY <2>2 DEF Failed, Delivered
<1> QED BY <1>1, <1>2, <1>3, <1>4, <1>5, <1>6 DEF Settled

LEMMA NextKeepsSettle ==
    ASSUME Inv, SettleInv, [Next]_vars
    PROVE  SettleInv'
<1>1. CASE Pool
  <2>1. \A u \in unresolved' : results'[u.at] # "weak" => SourceAt(u.at)' \in gaps'
    BY <1>1 DEF Pool, Unresolved, SourceAt
  <2> QED BY <1>1, <2>1 DEF Pool, SettleInv
<1>2. CASE PoolDeclines
  BY <1>2, SettledUnchanged DEF PoolDeclines, SettleInv, SourceAt
<1>3. CASE TakeHits
  BY <1>3, AnswerSettles DEF TakeHits
<1>4. CASE OpenChain
  BY <1>4, SettledUnchanged DEF OpenChain, SettleInv, SourceAt
<1>5. CASE OutOfTime
  BY <1>5, GiveUpSettles DEF OutOfTime, FailureReasons, ChainReasons
<1>6. CASE NoBackupLeft
  BY <1>6, GiveUpSettles DEF NoBackupLeft, Inv, TypeOK, ChainStates
<1>7. CASE BackupDelivers
  BY <1>7, AnswerSettles DEF BackupDelivers, CallAllowed, Close, Inv, LoopInv
<1>8. CASE BackupFails
  <2>1. SourceAt(at)' = SourceAt(at) /\ chain.gaps \subseteq chain'.gaps
    BY <1>8 DEF BackupFails, SourceAt
  <2>2. Settled' = Settled
    BY <1>8, SettledUnchanged DEF BackupFails
  <2> QED BY <1>8, <2>1, <2>2 DEF BackupFails, CallAllowed, SettleInv, SourceAt
<1>9. CASE BackupRaises
  BY <1>9, SettledUnchanged DEF BackupRaises, SettleInv, SourceAt
<1>10. CASE Conclude
  BY <1>10, SettledUnchanged DEF Conclude, SettleInv, SourceAt
<1>11. CASE UNCHANGED vars
  BY <1>11, SettledUnchanged DEF vars, SettleInv, SourceAt
<1> QED
  BY <1>1, <1>2, <1>3, <1>4, <1>5, <1>6, <1>7, <1>8, <1>9, <1>10, <1>11 DEF Next, CallBackup

LEMMA InitSettle == Init => SettleInv
BY DEF Init, SettleInv

\* At the end of the loop the status is the one the settlement calls for.
LEMMA ConcludeVerdict ==
    ASSUME Inv, SettleInv, Conclude
    PROVE  /\ Contract!Final(Settled)
           /\ FinalStatus = Contract!VerdictFor(Settled)
<1>1. at = Len(plan.steps) + 1 /\ 1..at - 1 = Positions
  BY StepsTyped DEF Conclude, Inv, TypeOK, Positions
<1>2. \A i \in Positions : i < at
  BY <1>1, StepsTyped DEF Inv, Positions
<1>3. DOMAIN Settled = Positions /\ 1 \in Positions
  BY SettledTyped DEF Inv
<1>4. Contract!Final(Settled)
  BY <1>2, <1>3, OpenFromAt DEF Contract!Final
<1>5. found = {} <=> \A i \in Positions : Settled[i] = "lost"
  BY <1>1 DEF Conclude, SettleInv
<1>6. unresolved = {} <=> \A i \in Positions : Settled[i] = "answered"
  <2>1. \A u \in unresolved : u.at \in Positions
    BY DEF Inv, TypeOK
  <2>2. ASSUME NEW u \in unresolved PROVE Settled[u.at] # "answered"
    BY <2>1 DEF Settled
  <2>3. ASSUME unresolved = {}, NEW i \in Positions PROVE Settled[i] = "answered"
    BY <1>2, <2>3 DEF Settled
  <2> QED BY <2>1, <2>2, <2>3
<1>7. FinalStatus = Contract!VerdictFor(Settled)
  BY <1>3, <1>5, <1>6 DEF FinalStatus, Contract!VerdictFor
<1> QED BY <1>4, <1>7

\* A step settled one at a time is a step of the contract.
LEMMA OneSettled ==
    ASSUME Inv, at \in Positions, Positions' = Positions,
           NEW to \in {"answered", "weak", "lost"},
           Settled' = [Settled EXCEPT ![at] = to],
           outcome.status = "none", outcome' = outcome
    PROVE  Contract!Settle
<1>1. Settled' \in [DOMAIN Settled -> Contract!Settlements]
  BY SettledTyped DEF Inv, Contract!Settlements
<1>2. ASSUME NEW i \in Positions, Settled[i] # "open" PROVE Settled'[i] = Settled[i]
  <2>1. i # at
    BY <1>2, OpenFromAt, StepsTyped DEF Inv, Positions
  <2> QED BY <2>1, SettledTyped DEF Inv
<1> QED BY <1>1, <1>2, SettledTyped DEF Contract!Settle, Inv

\* Every step of the code is a step of the contract or changes nothing it sees.
LEMMA NextSettles ==
    ASSUME Inv, SettleInv, [Next]_vars
    PROVE  Contract!Settle \/ UNCHANGED <<Settled, outcome.status>>
<1>1. CASE Pool
  <2>1. /\ Settled' = [i \in Positions |-> IF i \in Failed THEN "lost" ELSE "answered"]
        /\ \E i \in Positions : i \notin Failed
    BY <1>1, PoolSettles
  <2>2. outcome.status = "none" /\ at = 1
    BY <1>1 DEF Pool, Inv, LoopInv
  <2>3. \A i \in Positions : Settled[i] = "open"
    BY <2>2, OpenFromAt, StepsTyped DEF Inv, Positions
  <2>4. DOMAIN Settled = Positions /\ DOMAIN Settled' = Positions
    BY <2>1, SettledTyped DEF Inv
  <2>5. Settled' \in [DOMAIN Settled -> Contract!Settlements]
    BY <2>1, <2>4 DEF Contract!Settlements
  <2>6. outcome'.status = IF Failed = {} THEN "success" ELSE "partial"
    BY <1>1 DEF Pool, Verdict
  <2>7. outcome'.status = Contract!VerdictFor(Settled') /\ Contract!Final(Settled')
    <3>1. Failed \subseteq Positions
      BY DEF Failed
    <3> QED BY <2>1, <2>4, <2>6, <3>1 DEF Contract!VerdictFor, Contract!Final
  <2> QED BY <2>2, <2>3, <2>4, <2>5, <2>7 DEF Contract!Settle
<1>2. CASE TakeHits
  BY <1>2, AnswerSettles, OneSettled DEF TakeHits, Inv, LoopInv, Positions
<1>3. CASE OutOfTime \/ NoBackupLeft
  <2>1. /\ stage = "chain" /\ at \in Positions /\ outcome.status = "none"
        /\ UNCHANGED <<plan, outcome>>
    BY <1>3 DEF OutOfTime, NoBackupLeft, Inv, LoopInv
  <2>2. Settled' = [Settled EXCEPT ![at] = IF results[at] = "weak" THEN "weak" ELSE "lost"]
    <3>1. CASE OutOfTime
      BY <3>1, GiveUpSettles DEF OutOfTime, FailureReasons, ChainReasons
    <3>2. CASE NoBackupLeft
      BY <3>2, GiveUpSettles DEF NoBackupLeft, Inv, TypeOK, ChainStates
    <3> QED BY <1>3, <3>1, <3>2
  <2>3. Positions' = Positions
    BY <2>1 DEF Positions
  <2> QED BY <2>1, <2>2, <2>3, OneSettled
<1>4. CASE BackupDelivers
  <2>1. /\ stage = "chain" /\ at \in Positions /\ outcome.status = "none"
        /\ UNCHANGED <<plan, outcome>>
    BY <1>4 DEF BackupDelivers, CallAllowed, Inv, LoopInv
  <2>2. Settled' = [Settled EXCEPT ![at] = "answered"]
    BY <1>4, <2>1, AnswerSettles DEF BackupDelivers, Close
  <2>3. Positions' = Positions
    BY <2>1 DEF Positions
  <2> QED BY <2>1, <2>2, <2>3, OneSettled
<1>5. CASE Conclude
  <2>1. outcome.status = "none" /\ Settled' = Settled
    BY <1>5, SettledUnchanged DEF Conclude, Inv, LoopInv
  <2>2. outcome'.status = FinalStatus
    BY <1>5 DEF Conclude, Verdict
  <2>3. Settled \in [DOMAIN Settled -> Contract!Settlements]
    BY SettledTyped DEF Inv
  <2> QED BY <1>5, <2>1, <2>2, <2>3, ConcludeVerdict DEF Contract!Settle
<1>6. CASE PoolDeclines \/ OpenChain \/ BackupFails \/ BackupRaises \/ UNCHANGED vars
  BY <1>6, SettledUnchanged DEF PoolDeclines, OpenChain, BackupFails, BackupRaises, vars
<1> QED BY <1>1, <1>2, <1>3, <1>4, <1>5, <1>6 DEF Next, CallBackup

LEMMA InitContract == Init => Contract!Init
<1> SUFFICES ASSUME Init PROVE Contract!Init
  OBVIOUS
<1>1. Inv
  BY InitInv
<1>2. Len(plan.steps) \in Nat \ {0}
  BY <1>1, StepsTyped DEF Inv
<1>3. Settled = [i \in 1..Len(plan.steps) |-> "open"]
  BY <1>2 DEF Init, Settled, Positions
<1>4. Settled \in Seq({"open"}) /\ Settled # << >>
  BY <1>2, <1>3
<1>5. outcome.status = "none"
  BY DEF Init, NoOutcome
<1> QED BY <1>4, <1>5 DEF Contract!Init

\* The retrieval implements its contract: every first-wave step is settled once
\* and for good, and the status given is the one the settlement calls for.
THEOREM ContractHolds == Spec => SettlesByContract
<1>1. Init => Contract!Init
  BY InitContract
<1>2. Inv /\ SettleInv /\ [Next]_vars => [Contract!Settle]_<<Settled, outcome.status>>
  BY NextSettles
<1> QED
  BY <1>1, <1>2, InitInv, NextKeepsInv, InitSettle, NextKeepsSettle, PTL
     DEF Spec, SettlesByContract, Contract!Spec

-----------------------------------------------------------------------------
(* The API's validators *)

\* A failed retrieval names a gap: nothing was found, so its first step is lost.
LEMMA FailureHasGap ==
    ASSUME Inv, SettleInv, Conclude, found = {}
    PROVE  gaps # {}
<1>1. 1 \in 1..at - 1 /\ 1 \in Positions
  BY StepsTyped DEF Conclude, Inv, TypeOK, Positions
<1>2. Settled[1] = "lost"
  BY <1>1 DEF Conclude, SettleInv
<1>3. PICK u \in unresolved : u.at = 1 /\ results[u.at] # "weak"
  BY <1>1, <1>2 DEF Settled
<1> QED BY <1>3 DEF SettleInv

\* RetrieveOutcome never refuses an outcome: a failure names its gaps, a success
\* has no reason and everything else has one.
THEOREM SchemaAlwaysAccepts == Spec => []SchemaAccepts
<1>1. Init => SchemaAccepts
  BY DEF Init, SchemaAccepts, NoOutcome
<1>2. Inv /\ SettleInv /\ SchemaAccepts /\ [Next]_vars => SchemaAccepts'
  <2> SUFFICES ASSUME Inv, SettleInv, SchemaAccepts, [Next]_vars PROVE SchemaAccepts'
    OBVIOUS
  <2>1. CASE outcome' = outcome
    BY <2>1 DEF SchemaAccepts
  <2>2. CASE Pool
    <3>1. PICK hits \in SUBSET (WaveHits(FALSE) \cup WaveHits(TRUE)) :
            /\ unresolved' = {Unresolved(i, results[i]) : i \in Failed}
            /\ gaps' = {SourceAt(i) : i \in Failed}
            /\ outcome' = Verdict(IF Failed = {} THEN "success" ELSE "partial",
                                  unresolved', gaps', hits)
      BY <2>2 DEF Pool, Shortlists
    <3>2. unresolved' = {} <=> Failed = {}
      BY <3>1
    <3>3. unresolved' \in SUBSET [at : Positions, reason : FailureReasons]
      <4>1. Positions' = Positions
        BY <2>2 DEF Pool, Positions
      <4>2. Inv'
        BY NextKeepsInv
      <4> QED BY <4>1, <4>2 DEF Inv, TypeOK
    <3>4. unresolved' # {} => FirstReason(unresolved') \in FailureReasons
      BY <3>3, FirstReasonTyped
    <3> QED BY <3>1, <3>2, <3>4 DEF Verdict, SchemaAccepts
  <2>3. CASE Conclude
    <3>1. outcome' = Verdict(FinalStatus, unresolved, gaps, found)
      BY <2>3 DEF Conclude
    <3>2. unresolved # {} => FirstReason(unresolved) \in FailureReasons
      BY FirstReasonTyped DEF Inv, TypeOK
    <3>3. FinalStatus = "failure_gaps" => gaps # {} /\ unresolved # {}
      <4>1. ASSUME found = {} PROVE gaps # {} /\ unresolved # {}
        <5>1. gaps # {}
          BY <2>3, <4>1, FailureHasGap
        <5>2. 1 \in 1..at - 1 /\ 1 \in Positions
          BY <2>3, StepsTyped DEF Conclude, Inv, TypeOK, Positions
        <5>3. Settled[1] = "lost"
          BY <2>3, <4>1, <5>2 DEF Conclude, SettleInv
        <5> QED BY <5>1, <5>2, <5>3 DEF Settled
      <4> QED BY <4>1 DEF FinalStatus
    <3>4. FinalStatus = "success" <=> (found # {} /\ unresolved = {})
      BY DEF FinalStatus
    <3> QED BY <3>1, <3>2, <3>3, <3>4 DEF Verdict, SchemaAccepts, FinalStatus
  <2> QED
    BY <2>1, <2>2, <2>3 DEF Next, vars, PoolDeclines, TakeHits, OpenChain, OutOfTime,
                            NoBackupLeft, CallBackup, BackupDelivers, BackupFails, BackupRaises
<1> QED
  BY <1>1, <1>2, InitInv, NextKeepsInv, InitSettle, NextKeepsSettle, PTL DEF Spec

-----------------------------------------------------------------------------
(***************************************************************************)
(* What a retrieval reports, its hits, gaps and reason, follows from the   *)
(* attempts it made.  The bridge between the loops' lists and the list of  *)
(* attempts is the set of what was tried.                                  *)
(***************************************************************************)

AttemptRecords == [at : Positions, source : SourceIds, result : Results]

Tried == {attempts[k] : k \in 1..Len(attempts)}

DeliveredBy == {a.source : a \in {b \in Tried : Delivers(b)}}
FailedAt(i) == {a.source : a \in {b \in Tried : b.at = i /\ ~Delivers(b)}}
LeftOpen == {u.at : u \in unresolved}
LostSources == {a.source : a \in {b \in Tried : ~Delivers(b) /\ b.at \in LeftOpen}}

LEMMA SourcesOfTried ==
    /\ SourcesOf(Delivers) = DeliveredBy
    /\ SourcesOf(Explains) = LostSources
<1>1. SourcesOf(Delivers) = DeliveredBy
  BY DEF SourcesOf, DeliveredBy, Tried
<1>2. \A a : Explains(a) <=> ~Delivers(a) /\ a.at \in LeftOpen
  BY DEF Explains, LeftOpen, Delivers
<1>3. SourcesOf(Explains) = LostSources
  BY <1>2 DEF SourcesOf, LostSources, Tried
<1> QED BY <1>1, <1>3

LEMMA NothingTried == attempts = << >> => Tried = {}
BY DEF Tried

\* Places of the list before the last are left as they are.
LEMMA TriedGrows ==
    ASSUME TypeOK, NEW a \in AttemptRecords, attempts' = Append(attempts, a)
    PROVE  /\ Len(attempts) \in Nat /\ Len(attempts') = Len(attempts) + 1
           /\ \A k \in 1..Len(attempts) : attempts'[k] = attempts[k]
           /\ attempts'[Len(attempts')] = a
           /\ Tried' = Tried \cup {a}
<1>1. attempts \in Seq(AttemptRecords)
  BY DEF TypeOK, AttemptRecords
<1> HIDE DEF AttemptRecords
<1>2. /\ Len(attempts) \in Nat /\ Len(attempts') = Len(attempts) + 1
      /\ \A k \in 1..Len(attempts) : attempts'[k] = attempts[k]
      /\ attempts'[Len(attempts) + 1] = a
  BY <1>1, AppendProperties
<1>3. 1..Len(attempts') = 1..Len(attempts) \cup {Len(attempts) + 1}
  BY <1>2
<1> QED BY <1>2, <1>3 DEF Tried

\* The attempts the two loops append.
LEMMA AttemptTyped ==
    ASSUME TypeOK, at \in Positions, NEW s \in SourceIds, NEW r \in Results
    PROVE  /\ Attempt(at, s, r) \in AttemptRecords
           /\ Attempt(at, s, r).at = at /\ Attempt(at, s, r).source = s
           /\ Attempt(at, s, r).result = r
BY DEF Attempt, AttemptRecords

-----------------------------------------------------------------------------
(* Hits *)

HitInv ==
    /\ stage \in {"pooling", "walking"} => found = DeliveredBy
    /\ stage = "chain" => found \cup Provisional = DeliveredBy
    /\ stage = "done" => outcome.hits = DeliveredBy

LEMMA DeliveredGrows ==
    ASSUME TypeOK, at \in Positions, NEW s \in SourceIds, NEW r \in Results,
           attempts' = Append(attempts, Attempt(at, s, r))
    PROVE  DeliveredBy' = DeliveredBy \cup IF r \in Delivered THEN {s} ELSE {}
<1>1. Tried' = Tried \cup {Attempt(at, s, r)}
  BY AttemptTyped, TriedGrows
<1>2. Delivers(Attempt(at, s, r)) <=> r \in Delivered
  BY AttemptTyped DEF Delivers
<1> QED BY <1>1, <1>2, AttemptTyped DEF DeliveredBy, Delivers

\* A step of the two paths adds to found what it adds to what has delivered.
LEMMA NextKeepsHits ==
    ASSUME Inv, HitInv, [Next]_vars
    PROVE  HitInv'
<1>1. TypeOK
  BY DEF Inv
<1>2. CASE Pool
  BY <1>2 DEF Pool, HitInv
<1>3. CASE PoolDeclines
  BY <1>3 DEF PoolDeclines, HitInv, DeliveredBy, Tried, Provisional
<1>4. CASE TakeHits
  <2>1. SourceAt(at) \in SourceIds /\ results[at] \in Results
    BY <1>1, <1>4, StepsTyped DEF TakeHits, TypeOK
  <2>2. DeliveredBy' = DeliveredBy \cup {SourceAt(at)}
    BY <1>1, <1>4, <2>1, DeliveredGrows DEF TakeHits, OwnAttempt, Delivered
  <2> QED BY <1>4, <2>2 DEF TakeHits, HitInv
<1>5. CASE OpenChain
  <2>1. SourceAt(at) \in SourceIds /\ results[at] \in Results
    BY <1>1, <1>5, StepsTyped DEF OpenChain, TypeOK
  <2>2. DeliveredBy' = DeliveredBy \cup IF results[at] \in Delivered THEN {SourceAt(at)} ELSE {}
    BY <1>1, <1>5, <2>1, DeliveredGrows DEF OpenChain, OwnAttempt
  <2>3. Provisional' = IF results[at] \in Delivered THEN {SourceAt(at)} ELSE {}
    BY <1>5 DEF OpenChain, Provisional, Delivered, SourceAt
  <2> QED BY <1>5, <2>2, <2>3 DEF OpenChain, HitInv
<1>6. CASE OutOfTime \/ NoBackupLeft
  <2>1. DeliveredBy' = DeliveredBy
    BY <1>6 DEF OutOfTime, NoBackupLeft, DeliveredBy, Tried
  <2> QED BY <1>6, <2>1 DEF OutOfTime, NoBackupLeft, GiveUp, Close, HitInv
<1>7. CASE BackupDelivers
  <2>1. at \in Positions /\ Target \in SourceIds /\ stage = "chain"
    BY <1>7 DEF BackupDelivers, CallAllowed, HasBackup, Inv, LoopInv
  <2>2. DeliveredBy' = DeliveredBy \cup {Target}
    BY <1>1, <1>7, <2>1, DeliveredGrows DEF BackupDelivers, Delivered, Results
  <2> QED BY <1>7, <2>1, <2>2 DEF BackupDelivers, Close, HitInv
<1>8. CASE BackupFails
  <2>1. at \in Positions /\ Target \in SourceIds /\ stage = "chain" /\ stage' = "chain"
    BY <1>8 DEF BackupFails, CallAllowed, HasBackup, Inv, LoopInv
  <2>2. PICK r \in FailureReasons : attempts' = Append(attempts, Attempt(at, Target, r))
    BY <1>8 DEF BackupFails
  <2>3. r \in Results /\ r \notin Delivered
    BY DEF Results, Delivered, FailureReasons, ChainReasons
  <2>4. DeliveredBy' = DeliveredBy
    BY <1>1, <2>1, <2>2, <2>3, DeliveredGrows
  <2>5. Provisional' = Provisional /\ found' = found
    BY <1>8 DEF BackupFails, Provisional, SourceAt
  <2> QED BY <2>1, <2>4, <2>5 DEF HitInv
<1>9. CASE BackupRaises
  BY <1>9 DEF BackupRaises, HitInv
<1>10. CASE Conclude
  BY <1>10 DEF Conclude, HitInv, Verdict, DeliveredBy, Tried
<1>11. CASE UNCHANGED vars
  BY <1>11 DEF vars, HitInv, DeliveredBy, Tried, Provisional, SourceAt
<1> QED
  BY <1>2, <1>3, <1>4, <1>5, <1>6, <1>7, <1>8, <1>9, <1>10, <1>11 DEF Next, CallBackup

\* _run_standard_retrieval_path drops no hits: those it returns are of exactly the
\* sources that delivered, in the wave, provisionally or as a backup.
THEOREM NoHitIsDropped == Spec => []HitsKept
<1>1. Init => HitInv
  BY NothingTried DEF Init, HitInv, DeliveredBy
<1>2. HitInv => HitsKept
  BY SourcesOfTried DEF HitInv, HitsKept
<1> QED BY <1>1, <1>2, InitInv, NextKeepsInv, NextKeepsHits, PTL DEF Spec

-----------------------------------------------------------------------------
(* Gaps *)

\* Attempts are made for the steps in order, and chain_gaps are the failures of
\* the step the loop is at.
GapInv ==
    /\ stage \in {"pooling", "walking"} => \A a \in Tried : a.at < at
    /\ stage = "chain" => (\A a \in Tried : a.at <= at) /\ chain.gaps = FailedAt(at)
    /\ stage \in {"pooling", "walking", "chain"} => gaps = LostSources
    /\ stage \in {"pooled", "done"} => outcome.gaps = LostSources

\* An attempt for a step that is still open explains no gap yet.
LEMMA OpenAttempt ==
    ASSUME Inv, at \in Positions, NEW s \in SourceIds, NEW r \in Results,
           attempts' = Append(attempts, Attempt(at, s, r)), unresolved' = unresolved
    PROVE  /\ Tried' = Tried \cup {Attempt(at, s, r)}
           /\ LostSources' = LostSources
<1>1. Tried' = Tried \cup {Attempt(at, s, r)}
  BY AttemptTyped, TriedGrows DEF Inv
<1>2. at \notin LeftOpen
  <2>1. \A u \in unresolved : u.at \in Nat /\ u.at < at
    BY StepsTyped DEF Inv, TypeOK, LoopInv, Positions
  <2> QED BY <2>1 DEF LeftOpen
<1>3. LeftOpen' = LeftOpen
  BY DEF LeftOpen
<1> QED BY <1>1, <1>2, <1>3, AttemptTyped DEF LostSources, Delivers, Inv

LEMMA FailedGrows ==
    ASSUME Inv, at \in Positions, NEW s \in SourceIds, NEW r \in Results, at' = at,
           attempts' = Append(attempts, Attempt(at, s, r))
    PROVE  FailedAt(at)' = FailedAt(at) \cup IF r \in Delivered THEN {} ELSE {s}
<1>1. Tried' = Tried \cup {Attempt(at, s, r)}
  BY AttemptTyped, TriedGrows DEF Inv
<1>2. Delivers(Attempt(at, s, r)) <=> r \in Delivered
  BY AttemptTyped DEF Inv, Delivers
<1> QED BY <1>1, <1>2, AttemptTyped DEF FailedAt, Delivers, Inv

LEMMA TriedTyped ==
    ASSUME TypeOK
    PROVE  Tried \subseteq AttemptRecords /\ \A a \in Tried : a.at \in Nat
<1>1. attempts \in Seq(AttemptRecords)
  BY DEF TypeOK, AttemptRecords
<1> HIDE DEF AttemptRecords
<1>2. Tried \subseteq AttemptRecords
  BY <1>1, ElementOfSeq DEF Tried
<1> USE DEF AttemptRecords
<1> QED BY <1>2, StepsTyped DEF Positions

\* `if not recovered`: the failures of the step's attempts become gaps.
LEMMA GiveUpReports ==
    ASSUME Inv, GapInv, stage = "chain", NEW r \in FailureReasons, GiveUp(r),
           UNCHANGED <<plan, now, results, attempts, outcome>>
    PROVE  GapInv'
<1>1. at \in Nat /\ at' = at + 1 /\ stage' = "walking"
  BY StepsTyped DEF Inv, LoopInv, Positions, GiveUp, Close
<1>2. Tried' = Tried
  BY DEF Tried
<1>3. \A a \in Tried : a.at < at'
  BY <1>1, TriedTyped DEF Inv, GapInv
<1>4. LeftOpen' = LeftOpen \cup {at}
  <2>1. unresolved' = unresolved \cup {Unresolved(at, r)} /\ Unresolved(at, r).at = at
    BY DEF GiveUp, Unresolved
  <2> QED BY <2>1 DEF LeftOpen
<1>5. LostSources' = LostSources \cup FailedAt(at)
  BY <1>2, <1>4 DEF LostSources, FailedAt, Delivers
<1>6. gaps' = gaps \cup chain.gaps
  BY DEF GiveUp, LostGaps
<1> QED BY <1>1, <1>2, <1>3, <1>5, <1>6 DEF GapInv

\* The pooled path tries every step once and leaves open the ones that failed.
LEMMA PoolReports ==
    ASSUME Inv, Pool
    PROVE  GapInv'
<1>1. /\ unresolved' = {Unresolved(i, results[i]) : i \in Failed}
      /\ attempts' = [i \in Positions |-> Attempt(i, SourceAt(i), results[i])]
      /\ outcome'.gaps = {SourceAt(i) : i \in Failed}
      /\ stage' = "pooled"
  BY DEF Pool, Verdict
<1>2. Positions = 1..Len(plan.steps) /\ Len(plan.steps) \in Nat
  BY StepsTyped DEF Inv, Positions
<1>3. Len(attempts') = Len(plan.steps)
  BY <1>1, <1>2
<1>4. Tried' = {Attempt(i, SourceAt(i), results[i]) : i \in Positions}
  BY <1>1, <1>2, <1>3 DEF Tried
<1>5. LeftOpen' = Failed
  <2>1. \A i \in Failed : Unresolved(i, results[i]).at = i
    BY DEF Unresolved
  <2>2. LeftOpen' = {u.at : u \in {Unresolved(i, results[i]) : i \in Failed}}
    BY <1>1 DEF LeftOpen
  <2> QED BY <2>1, <2>2
<1>6. Failed = {i \in Positions : results[i] \notin Delivered}
  BY DEF Failed
<1>7. LostSources' = {SourceAt(i) : i \in Failed}
  <2>1. LostSources' = {a.source : a \in {b \in Tried' : ~Delivers(b) /\ b.at \in Failed}}
    BY <1>5 DEF LostSources, Delivers
  <2> DEFINE Own(i) == Attempt(i, SourceAt(i), results[i])
  <2>2. \A i \in Positions : /\ Own(i).at = i /\ Own(i).source = SourceAt(i)
                             /\ ~Delivers(Own(i)) <=> i \in Failed
    BY <1>6 DEF Attempt, Delivers
  <2>3. Tried' = {Own(i) : i \in Positions} /\ Failed \subseteq Positions
    BY <1>4, <1>6
  <2> HIDE DEF Own
  <2>4. {b \in Tried' : ~Delivers(b) /\ b.at \in Failed} = {Own(i) : i \in Failed}
    BY <2>2, <2>3
  <2>5. {a.source : a \in {Own(i) : i \in Failed}} = {SourceAt(i) : i \in Failed}
    BY <2>2, <2>3
  <2> QED BY <2>1, <2>4, <2>5
<1> QED BY <1>1, <1>7 DEF GapInv

LEMMA NextKeepsGaps ==
    ASSUME Inv, GapInv, [Next]_vars
    PROVE  GapInv'
<1>1. TypeOK
  BY DEF Inv
<1>2. CASE Pool
  BY <1>2, PoolReports
<1>3. CASE PoolDeclines
  BY <1>3 DEF PoolDeclines, GapInv, Tried, LostSources, LeftOpen
<1>4. CASE TakeHits
  <2>1. SourceAt(at) \in SourceIds /\ results[at] \in Results /\ at \in Nat /\ at \in Positions
    BY <1>1, <1>4, StepsTyped DEF TakeHits, TypeOK, Positions
  <2>2. Tried' = Tried \cup {Attempt(at, SourceAt(at), results[at])} /\ LostSources' = LostSources
    BY <1>4, <2>1, OpenAttempt DEF TakeHits, OwnAttempt
  <2>3. \A a \in Tried' : a.at < at + 1
    BY <1>1, <1>4, <2>1, <2>2, TriedTyped DEF TakeHits, GapInv, Attempt
  <2> QED BY <1>4, <2>2, <2>3 DEF TakeHits, GapInv
<1>5. CASE OpenChain
  <2>1. SourceAt(at) \in SourceIds /\ results[at] \in Results /\ at \in Nat /\ at \in Positions
    BY <1>1, <1>5, StepsTyped DEF OpenChain, TypeOK, Positions
  <2>2. Tried' = Tried \cup {Attempt(at, SourceAt(at), results[at])} /\ LostSources' = LostSources
    BY <1>5, <2>1, OpenAttempt DEF OpenChain, OwnAttempt
  <2>3. \A a \in Tried' : a.at <= at
    BY <1>1, <1>5, <2>1, <2>2, TriedTyped DEF OpenChain, GapInv, Attempt
  <2>4. FailedAt(at) = {}
    BY <1>1, <1>5, <2>1, TriedTyped DEF OpenChain, GapInv, FailedAt
  <2>5. FailedAt(at)' = IF results[at] \in Delivered THEN {} ELSE {SourceAt(at)}
    BY <1>5, <2>1, <2>4, FailedGrows DEF OpenChain, OwnAttempt
  <2>6. chain'.gaps = IF results[at] \in Delivered THEN {} ELSE {SourceAt(at)}
    BY <1>5 DEF OpenChain, Delivered
  <2> QED BY <1>5, <2>2, <2>3, <2>5, <2>6 DEF OpenChain, GapInv
<1>6. CASE OutOfTime
  BY <1>6, GiveUpReports DEF OutOfTime, FailureReasons, ChainReasons
<1>7. CASE NoBackupLeft
  <2>1. chain.reason \in FailureReasons
    BY <1>1 DEF TypeOK, ChainStates
  <2> QED BY <1>7, <2>1, GiveUpReports DEF NoBackupLeft
<1>8. CASE BackupDelivers
  <2>1. at \in Positions /\ at \in Nat /\ Target \in SourceIds /\ stage = "chain" /\ "ok" \in Results
    BY <1>8, StepsTyped DEF BackupDelivers, CallAllowed, HasBackup, Inv, LoopInv, Positions,
                            Results, Delivered
  <2>2. Tried' = Tried \cup {Attempt(at, Target, "ok")} /\ LostSources' = LostSources
    BY <1>8, <2>1, OpenAttempt DEF BackupDelivers
  <2>3. \A a \in Tried' : a.at < at + 1
    BY <1>1, <2>1, <2>2, TriedTyped DEF GapInv, Attempt
  <2> QED BY <1>8, <2>1, <2>2, <2>3 DEF BackupDelivers, Close, GapInv
<1>9. CASE BackupFails
  <2>1. /\ at \in Positions /\ at \in Nat /\ Target \in SourceIds
        /\ stage = "chain" /\ stage' = "chain" /\ at' = at /\ gaps' = gaps
    BY <1>9, StepsTyped DEF BackupFails, CallAllowed, HasBackup, Inv, LoopInv, Positions
  <2>2. PICK r \in FailureReasons :
           /\ attempts' = Append(attempts, Attempt(at, Target, r))
           /\ chain'.gaps = chain.gaps \cup {Target}
    BY <1>9 DEF BackupFails
  <2>3. r \in Results /\ r \notin Delivered
    BY DEF Results, Delivered, FailureReasons, ChainReasons
  <2>4. Tried' = Tried \cup {Attempt(at, Target, r)} /\ LostSources' = LostSources
    BY <1>9, <2>1, <2>2, <2>3, OpenAttempt DEF BackupFails
  <2>5. \A a \in Tried' : a.at <= at
    BY <2>1, <2>4 DEF GapInv, Attempt
  <2>6. FailedAt(at)' = FailedAt(at) \cup {Target}
    BY <2>1, <2>2, <2>3, FailedGrows
  <2> QED BY <2>1, <2>2, <2>4, <2>5, <2>6 DEF GapInv
<1>10. CASE BackupRaises
  BY <1>10 DEF BackupRaises, GapInv
<1>11. CASE Conclude
  BY <1>11 DEF Conclude, GapInv, Verdict, LostSources, LeftOpen, Tried
<1>12. CASE UNCHANGED vars
  BY <1>12 DEF vars, GapInv, LostSources, LeftOpen, FailedAt, Tried
<1> QED
  BY <1>2, <1>3, <1>4, <1>5, <1>6, <1>7, <1>8, <1>9, <1>10, <1>11, <1>12 DEF Next, CallBackup

\* On both paths the gaps are the sources that failed for a step nobody answered,
\* whatever plan, backups and budgets the retrieval has.
THEOREM GapsAreExplained == Spec => []GapsExplain
<1>1. Init => GapInv
  BY NothingTried DEF Init, GapInv, LostSources
<1>2. GapInv => GapsExplain
  BY SourcesOfTried DEF GapInv, GapsExplain
<1> QED BY <1>1, <1>2, InitInv, NextKeepsInv, NextKeepsGaps, PTL DEF Spec

-----------------------------------------------------------------------------
(* The reason *)

LastAt(k, i) ==
    /\ k \in 1..Len(attempts) /\ attempts[k].at = i
    /\ \A j \in 1..Len(attempts) : attempts[j].at = i => j <= k

ReasonOf(r) == IF r = "weak" THEN "no_hits" ELSE r

\* What is written down for an open step: its last attempt, or the deadline.
Traced(u) ==
    \/ \E k \in 1..Len(attempts) : LastAt(k, u.at) /\ u.reason = ReasonOf(attempts[k].result)
    \/ u.reason = "timeout" /\ now >= plan.overall

ReasonInv ==
    /\ \A u \in unresolved : Traced(u)
    /\ stage = "chain" => /\ LastAt(Len(attempts), at)
                          /\ chain.reason = ReasonOf(attempts[Len(attempts)].result)
    /\ stage \in {"pooling", "walking", "chain", "raised"} => outcome.reason = "none"
    /\ outcome.reason \in FailureReasons =>
          unresolved # {} /\ outcome.reason = FirstReason(unresolved)

LEMMA LastForIsLast ==
    ASSUME NEW k, NEW i, LastAt(k, i)
    PROVE  LastFor(i) = attempts[k].result
<1> DEFINE own == {j \in 1..Len(attempts) : attempts[j].at = i}
<1>1. k \in own /\ \A j \in own : j <= k
  BY DEF LastAt
<1>2. \A m \in own : (\A j \in own : j <= m) => m = k
  BY <1>1
<1>3. (CHOOSE m \in own : \A j \in own : j <= m) = k
  BY <1>1, <1>2
<1> QED BY <1>3 DEF LastFor

\* A new attempt is the last one for its step.
LEMMA LastGrows ==
    ASSUME TypeOK, at \in Positions, NEW s \in SourceIds, NEW r \in Results, at' = at,
           attempts' = Append(attempts, Attempt(at, s, r))
    PROVE  /\ LastAt(Len(attempts), at)' /\ attempts'[Len(attempts')].result = r
<1>1. /\ Len(attempts) \in Nat /\ Len(attempts') = Len(attempts) + 1
      /\ \A k \in 1..Len(attempts) : attempts'[k] = attempts[k]
      /\ attempts'[Len(attempts')] = Attempt(at, s, r)
  BY AttemptTyped, TriedGrows
<1>2. Attempt(at, s, r).at = at /\ Attempt(at, s, r).result = r
  BY AttemptTyped
<1> QED BY <1>1, <1>2 DEF LastAt

\* What is written down for steps before the loop's stays true.
LEMMA TracedKept ==
    ASSUME Inv, at \in Positions, NEW s \in SourceIds, NEW r \in Results,
           attempts' = Append(attempts, Attempt(at, s, r)), plan' = plan,
           now' \in Nat, now <= now',
           NEW u \in unresolved, Traced(u)
    PROVE  Traced(u)'
<1>1. u.at # at
  BY StepsTyped DEF Inv, TypeOK, LoopInv, Positions
<1>2. CASE u.reason = "timeout" /\ now >= plan.overall
  BY <1>2 DEF Traced, Inv, TypeOK, PlanShape
<1>3. CASE \E k \in 1..Len(attempts) : LastAt(k, u.at) /\ u.reason = ReasonOf(attempts[k].result)
  <2>1. PICK k \in 1..Len(attempts) : LastAt(k, u.at) /\ u.reason = ReasonOf(attempts[k].result)
    BY <1>3
  <2>2. /\ Len(attempts) \in Nat /\ Len(attempts') = Len(attempts) + 1
        /\ \A j \in 1..Len(attempts) : attempts'[j] = attempts[j]
        /\ attempts'[Len(attempts')].at = at
    BY AttemptTyped, TriedGrows DEF Inv
  <2>3. \A j \in 1..Len(attempts') : j \in 1..Len(attempts) \/ j = Len(attempts')
    BY <2>2
  <2>4. LastAt(k, u.at)' /\ attempts'[k] = attempts[k] /\ k \in 1..Len(attempts')
    BY <1>1, <2>1, <2>2, <2>3 DEF LastAt
  <2> QED BY <2>1, <2>4 DEF Traced, ReasonOf
<1> QED BY <1>2, <1>3 DEF Traced

\* `if not recovered`: the reason written down is the chain's last, or the deadline's.
LEMMA GiveUpTraces ==
    ASSUME Inv, ReasonInv, stage = "chain", NEW r \in FailureReasons, GiveUp(r),
           r = chain.reason \/ (r = "timeout" /\ now >= plan.overall),
           UNCHANGED <<plan, now, results, attempts, outcome>>
    PROVE  ReasonInv'
<1>1. unresolved' = unresolved \cup {Unresolved(at, r)} /\ stage' = "walking"
  BY DEF GiveUp, Close
<1>2. \A u : Traced(u) => Traced(u)'
  BY DEF Traced, LastAt
<1>3. Traced(Unresolved(at, r))
  <2>1. Unresolved(at, r).at = at /\ Unresolved(at, r).reason = r
    BY DEF Unresolved
  <2>2. LastAt(Len(attempts), at) => Len(attempts) \in 1..Len(attempts)
    BY DEF LastAt
  <2> QED BY <2>1, <2>2 DEF ReasonInv, Traced
<1>4. \A u \in unresolved' : Traced(u)'
  BY <1>1, <1>2, <1>3 DEF ReasonInv
<1>5. outcome'.reason = "none" /\ "none" \notin FailureReasons
  BY DEF ReasonInv, FailureReasons, ChainReasons
<1> QED BY <1>1, <1>4, <1>5 DEF ReasonInv

\* The pooled path makes one attempt for each step.
LEMMA PoolTraces ==
    ASSUME Inv, Pool
    PROVE  ReasonInv'
<1>1. /\ unresolved' = {Unresolved(i, results[i]) : i \in Failed}
      /\ attempts' = [i \in Positions |-> Attempt(i, SourceAt(i), results[i])]
      /\ outcome'.reason = IF unresolved' = {} THEN "none" ELSE FirstReason(unresolved')
      /\ stage' = "pooled"
  BY DEF Pool, Verdict
<1>2. Positions = 1..Len(plan.steps) /\ Len(plan.steps) \in Nat
  BY StepsTyped DEF Inv, Positions
<1>3. Len(attempts') = Len(plan.steps)
  BY <1>1, <1>2
<1>4. \A i \in Positions : attempts'[i].at = i /\ attempts'[i].result = results[i]
  BY <1>1 DEF Attempt
<1>5. \A i \in Positions : LastAt(i, i)'
  BY <1>2, <1>3, <1>4 DEF LastAt
<1>6. ASSUME NEW u \in unresolved' PROVE Traced(u)'
  <2>1. PICK i \in Failed : u = Unresolved(i, results[i])
    BY <1>1
  <2>2. i \in Positions /\ results[i] # "weak"
    BY DEF Failed, Delivered
  <2>3. u.at = i /\ u.reason = results[i]
    BY <2>1 DEF Unresolved
  <2> QED BY <1>2, <1>3, <1>4, <1>5, <2>2, <2>3 DEF Traced, ReasonOf
<1> QED BY <1>1, <1>6 DEF ReasonInv, FailureReasons, ChainReasons

LEMMA NextKeepsReason ==
    ASSUME Inv, ReasonInv, [Next]_vars
    PROVE  ReasonInv'
<1>1. TypeOK /\ "none" \notin FailureReasons
  BY DEF Inv, FailureReasons, ChainReasons
<1>2. CASE Pool
  BY <1>2, PoolTraces
<1>3. CASE PoolDeclines
  BY <1>3 DEF PoolDeclines, ReasonInv, Traced, LastAt
<1>4. CASE TakeHits
  <2>1. SourceAt(at) \in SourceIds /\ results[at] \in Results /\ at \in Positions
    BY <1>1, <1>4, StepsTyped DEF TakeHits, TypeOK
  <2>2. \A u \in unresolved : Traced(u)'
    BY <1>1, <1>4, <2>1, TracedKept DEF TakeHits, OwnAttempt, ReasonInv, TypeOK
  <2> QED BY <1>1, <1>4, <2>2 DEF TakeHits, ReasonInv
<1>5. CASE OpenChain
  <2>1. SourceAt(at) \in SourceIds /\ results[at] \in Results /\ at \in Positions
    BY <1>1, <1>5, StepsTyped DEF OpenChain, TypeOK
  <2>2. \A u \in unresolved : Traced(u)'
    BY <1>1, <1>5, <2>1, TracedKept DEF OpenChain, OwnAttempt, ReasonInv, TypeOK
  <2>3. LastAt(Len(attempts), at)' /\ attempts'[Len(attempts')].result = results[at]
    BY <1>1, <1>5, <2>1, LastGrows DEF OpenChain, OwnAttempt
  <2>4. chain'.reason = ReasonOf(results[at])
    BY <1>5 DEF OpenChain, ReasonOf
  <2> QED BY <1>1, <1>5, <2>2, <2>3, <2>4 DEF OpenChain, ReasonInv
<1>6. CASE OutOfTime
  BY <1>6, GiveUpTraces DEF OutOfTime, FailureReasons, ChainReasons
<1>7. CASE NoBackupLeft
  <2>1. chain.reason \in FailureReasons
    BY <1>1 DEF TypeOK, ChainStates
  <2> QED BY <1>7, <2>1, GiveUpTraces DEF NoBackupLeft
<1>8. CASE BackupDelivers
  <2>1. at \in Positions /\ Target \in SourceIds /\ stage = "chain" /\ "ok" \in Results
    BY <1>8 DEF BackupDelivers, CallAllowed, HasBackup, Inv, LoopInv, Results, Delivered
  <2>2. now' \in Nat /\ now <= now'
    BY <1>1, <1>8, CallEndsBounded DEF BackupDelivers
  <2>3. \A u \in unresolved : Traced(u)'
    BY <1>8, <2>1, <2>2, TracedKept DEF BackupDelivers, ReasonInv
  <2> QED BY <1>1, <1>8, <2>1, <2>3 DEF BackupDelivers, Close, ReasonInv
<1>9. CASE BackupFails
  <2>1. at \in Positions /\ Target \in SourceIds /\ stage = "chain" /\ at' = at
    BY <1>9 DEF BackupFails, CallAllowed, HasBackup, Inv, LoopInv
  <2>2. PICK r \in FailureReasons :
           attempts' = Append(attempts, Attempt(at, Target, r)) /\ chain'.reason = r
    BY <1>9 DEF BackupFails, ReasonAfter
  <2>3. r \in Results /\ ReasonOf(r) = r
    BY DEF Results, FailureReasons, ChainReasons, ReasonOf
  <2>4. now' \in Nat /\ now <= now'
    BY <1>1, <1>9, CallEndsBounded DEF BackupFails
  <2>5. \A u \in unresolved : Traced(u)'
    BY <1>9, <2>1, <2>2, <2>3, <2>4, TracedKept DEF BackupFails, ReasonInv
  <2>6. LastAt(Len(attempts), at)' /\ attempts'[Len(attempts')].result = r
    BY <1>1, <2>1, <2>2, <2>3, LastGrows
  <2> QED BY <1>1, <1>9, <2>1, <2>2, <2>3, <2>5, <2>6 DEF BackupFails, ReasonInv
<1>10. CASE BackupRaises
  <2>1. now' \in Nat /\ now <= now' /\ stage = "chain"
    BY <1>1, <1>10, CallEndsBounded DEF BackupRaises, CallAllowed
  <2>2. \A u \in unresolved : Traced(u)'
    <3>1. now >= plan.overall => now' >= plan'.overall
      BY <1>1, <1>10, <2>1 DEF BackupRaises, TypeOK, PlanShape
    <3>2. attempts' = attempts /\ \A k, i : LastAt(k, i)' <=> LastAt(k, i)
      BY <1>10 DEF BackupRaises, LastAt
    <3> QED BY <3>1, <3>2 DEF ReasonInv, Traced
  <2> QED BY <1>1, <1>10, <2>1, <2>2 DEF BackupRaises, ReasonInv
<1>11. CASE Conclude
  <2>1. outcome'.reason = IF unresolved = {} THEN "none" ELSE FirstReason(unresolved)
    BY <1>11 DEF Conclude, Verdict
  <2>2. \A u \in unresolved : Traced(u)'
    BY <1>11 DEF Conclude, ReasonInv, Traced, LastAt
  <2> QED BY <1>1, <1>11, <2>1, <2>2 DEF Conclude, ReasonInv
<1>12. CASE UNCHANGED vars
  BY <1>12 DEF vars, ReasonInv, Traced, LastAt
<1> QED
  BY <1>2, <1>3, <1>4, <1>5, <1>6, <1>7, <1>8, <1>9, <1>10, <1>11, <1>12 DEF Next, CallBackup

\* The reason of an outcome that is no success is that of the last attempt for the
\* first step left open, or the deadline, which then has passed.
THEOREM ReasonIsHonest == Spec => []ReasonHonest
<1>1. Init => ReasonInv
  BY DEF Init, ReasonInv, NoOutcome, FailureReasons, ChainReasons
<1>2. Inv /\ ReasonInv => ReasonHonest
  <2> SUFFICES ASSUME Inv, ReasonInv, outcome.reason \in FailureReasons
               PROVE  ReasonHonest
    BY DEF ReasonHonest
  <2> DEFINE first == CHOOSE u \in unresolved : \A v \in unresolved : u.at <= v.at
  <2>1. first \in unresolved
    BY FirstUnresolved DEF Inv, TypeOK, ReasonInv
  <2>2. outcome.reason = first.reason
    BY DEF ReasonInv, FirstReason
  <2>3. Traced(first)
    BY <2>1 DEF ReasonInv
  <2> HIDE DEF first
  <2>4. \/ outcome.reason = ReasonOf(LastFor(first.at))
        \/ outcome.reason = "timeout" /\ now >= plan.overall
    BY <2>2, <2>3, LastForIsLast DEF Traced
  <2> QED BY <2>4 DEF ReasonHonest, ReasonOf, first
<1> QED BY <1>1, <1>2, InitInv, NextKeepsInv, NextKeepsReason, PTL DEF Spec

-----------------------------------------------------------------------------
(* The sources asked *)

LEMMA NoBackupIsNoSource == NoBackup \notin SourceIds
BY DEF NoBackup, SourceIds, SourceBackupChain, Backup

\* A chain comes to the source it starts from, and from a source to its backup.
LEMMA ChainStarts ==
    ASSUME NEW p, NEW s \in SourceIds
    PROVE  s \in ChainFrom(p, s)
BY DEF ChainFrom

LEMMA ChainGoesOn ==
    ASSUME NEW p, NEW s, NEW t \in ChainFrom(p, s), NEW r \in ChainReasons,
           p.backup[t][r] \in SourceIds
    PROVE  p.backup[t][r] \in ChainFrom(p, s)
BY NoBackupIsNoSource DEF ChainFrom, ClosedUnder

\* A source that two steps could come to belongs to one of them.
LEMMA OneStepComesTo ==
    ASSUME TypeOK, NEW i \in Positions, NEW j \in Positions, NEW s,
           s \in ChainFrom(plan, SourceAt(i)), s \in ChainFrom(plan, SourceAt(j))
    PROVE  i = j
BY DEF TypeOK, PlanShape, ChainsApart, Positions, SourceAt

\* What was asked so far: the wave's source and backups of each step taken, once
\* each; those of the step the loop is at are the ones its chain visited.
AskInv ==
    /\ \A a \in Tried : a.source \in ChainFrom(plan, SourceAt(a.at))
    /\ \A a \in Tried : a.source = SourceAt(a.at) => a.result = results[a.at]
    /\ stage = "chain" =>
         /\ results[at] # "ok"
         /\ SourceAt(at) \in chain.visited
         /\ chain.current \in ChainFrom(plan, SourceAt(at))
         /\ \A a \in Tried : a.at = at =>
              /\ a.source \in chain.visited
              /\ a.source # SourceAt(at) => ~Delivers(a)
    /\ AskedOnce

\* A source no attempt was made with may be asked.
LEMMA OnceGrows ==
    ASSUME TypeOK, AskedOnce, NEW a \in AttemptRecords, attempts' = Append(attempts, a),
           \A b \in Tried : b.source # a.source
    PROVE  AskedOnce'
<1>1. /\ Len(attempts) \in Nat /\ Len(attempts') = Len(attempts) + 1
      /\ \A k \in 1..Len(attempts) : attempts'[k] = attempts[k]
      /\ attempts'[Len(attempts')] = a
  BY TriedGrows
<1>2. \A k \in 1..Len(attempts') : k \in 1..Len(attempts) \/ k = Len(attempts')
  BY <1>1
<1>3. \A k \in 1..Len(attempts) : attempts'[k].source # a.source
  BY <1>1 DEF Tried
<1> QED BY <1>1, <1>2, <1>3 DEF AskedOnce

\* Nothing of the chain of the loop's step was asked for another step.
LEMMA NotAskedElsewhere ==
    ASSUME Inv, AskInv, at \in Positions, NEW s, s \in ChainFrom(plan, SourceAt(at)),
           NEW a \in Tried, a.at # at
    PROVE  a.source # s
<1>1. a.at \in Positions
  BY TriedTyped DEF Inv, AttemptRecords
<1> QED BY <1>1, OneStepComesTo DEF Inv, AskInv

\* The backup the engine calls next lies on the chain and was not asked yet.
LEMMA TargetIsNew ==
    ASSUME Inv, AskInv, CallAllowed
    PROVE  /\ at \in Positions /\ Target \in SourceIds
           /\ Target \in ChainFrom(plan, SourceAt(at))
           /\ Target # SourceAt(at)
           /\ \A a \in Tried : a.source # Target
<1>1. /\ stage = "chain" /\ at \in Positions
      /\ Target \in SourceIds /\ Target \notin chain.visited
  BY DEF CallAllowed, HasBackup, Inv, LoopInv
<1>2. chain.reason \in ChainReasons /\ Target = plan.backup[chain.current][chain.reason]
  BY <1>1, NoBackupIsNoSource DEF Target
<1>3. Target \in ChainFrom(plan, SourceAt(at))
  BY <1>1, <1>2, ChainGoesOn DEF AskInv
<1>4. ASSUME NEW a \in Tried PROVE a.source # Target
  <2>1. CASE a.at = at
    BY <1>1, <1>4, <2>1 DEF AskInv
  <2>2. CASE a.at # at
    BY <1>1, <1>3, <1>4, <2>2, NotAskedElsewhere
  <2> QED BY <2>1, <2>2
<1> QED BY <1>1, <1>3, <1>4 DEF AskInv

\* Attempts after one more for the step the loop is at, with a source of its chain.
LEMMA AskGrows ==
    ASSUME Inv, AskInv, at \in Positions, NEW s \in SourceIds, NEW r \in Results,
           s \in ChainFrom(plan, SourceAt(at)), s = SourceAt(at) => r = results[at],
           \A a \in Tried : a.source # s,
           attempts' = Append(attempts, Attempt(at, s, r)), plan' = plan, results' = results
    PROVE  /\ (\A a \in Tried : a.source \in ChainFrom(plan, SourceAt(a.at)))'
           /\ (\A a \in Tried : a.source = SourceAt(a.at) => a.result = results[a.at])'
           /\ AskedOnce'
           /\ Tried' = Tried \cup {Attempt(at, s, r)}
<1>1. Tried' = Tried \cup {Attempt(at, s, r)}
  BY AttemptTyped, TriedGrows DEF Inv
<1>2. /\ Attempt(at, s, r) \in AttemptRecords
      /\ Attempt(at, s, r).at = at /\ Attempt(at, s, r).source = s /\ Attempt(at, s, r).result = r
  BY AttemptTyped DEF Inv
<1>3. AskedOnce'
  BY <1>2, OnceGrows DEF Inv, AskInv
<1>4. \A i : SourceAt(i)' = SourceAt(i)
  BY DEF SourceAt
<1> HIDE DEF Inv
<1> QED BY <1>1, <1>2, <1>3, <1>4 DEF AskInv

\* The pooled path asks what the wave asked, and nothing else.
LEMMA PoolAsks ==
    ASSUME Inv, Pool
    PROVE  AskInv'
<1>1. /\ attempts' = [i \in Positions |-> Attempt(i, SourceAt(i), results[i])]
      /\ plan' = plan /\ results' = results /\ stage' = "pooled"
  BY DEF Pool
<1>2. Positions = 1..Len(plan.steps) /\ Len(plan.steps) \in Nat
  BY StepsTyped DEF Inv, Positions
<1>3. Len(attempts') = Len(plan.steps)
  BY <1>1, <1>2
<1>4. Tried' = {Attempt(i, SourceAt(i), results[i]) : i \in Positions}
  BY <1>1, <1>2, <1>3 DEF Tried
<1>5. \A i \in Positions : SourceAt(i) \in ChainFrom(plan, SourceAt(i))
  BY StepsTyped, ChainStarts DEF Inv
<1>6. \A i : SourceAt(i)' = SourceAt(i)
  BY <1>1 DEF SourceAt
<1>7. \A i \in Positions : /\ Attempt(i, SourceAt(i), results[i]).at = i
                           /\ Attempt(i, SourceAt(i), results[i]).source = SourceAt(i)
                           /\ Attempt(i, SourceAt(i), results[i]).result = results[i]
  BY DEF Attempt
<1>8. AskedOnce'
  <2>1. \A i \in Positions : attempts'[i].source = SourceAt(i)
    BY <1>1, <1>7
  <2>2. \A i, j \in Positions : SourceAt(i) = SourceAt(j) => i = j
    BY <1>5, OneStepComesTo DEF Inv
  <2> QED BY <1>2, <1>3, <2>1, <2>2 DEF AskedOnce
<1> QED BY <1>1, <1>4, <1>5, <1>6, <1>7, <1>8 DEF AskInv

LEMMA NextKeepsAsked ==
    ASSUME Inv, GapInv, AskInv, [Next]_vars
    PROVE  AskInv'
<1>1. TypeOK
  BY DEF Inv
<1>2. CASE Pool
  BY <1>2, PoolAsks
<1>3. CASE UNCHANGED <<plan, results, attempts>> /\ stage' # "chain"
  BY <1>3 DEF AskInv, Tried, SourceAt, AskedOnce
<1>4. ASSUME TakeHits \/ OpenChain
      PROVE  /\ at \in Positions /\ SourceAt(at) \in SourceIds /\ results[at] \in Results
             /\ SourceAt(at) \in ChainFrom(plan, SourceAt(at))
             /\ \A a \in Tried : a.at # at /\ a.source # SourceAt(at)
             /\ attempts' = Append(attempts, Attempt(at, SourceAt(at), results[at]))
             /\ plan' = plan /\ results' = results
  <2>1. at \in Positions /\ SourceAt(at) \in SourceIds /\ results[at] \in Results
    BY <1>1, <1>4, StepsTyped DEF TakeHits, OpenChain, TypeOK
  <2>2. SourceAt(at) \in ChainFrom(plan, SourceAt(at))
    BY <2>1, ChainStarts
  <2>3. \A a \in Tried : a.at # at
    BY <1>1, <1>4, <2>1, TriedTyped DEF TakeHits, OpenChain, GapInv, Positions
  <2>4. \A a \in Tried : a.source # SourceAt(at)
    BY <2>1, <2>2, <2>3, NotAskedElsewhere
  <2> QED BY <1>4, <2>1, <2>2, <2>3, <2>4 DEF TakeHits, OpenChain, OwnAttempt
<1>5. CASE TakeHits
  <2>1. stage' = "walking"
    BY <1>5 DEF TakeHits
  <2> QED BY <1>4, <1>5, <2>1, AskGrows DEF AskInv
<1>6. CASE OpenChain
  <2> DEFINE a0 == Attempt(at, SourceAt(at), results[at])
  <2>1. /\ at' = at /\ SourceAt(at)' = SourceAt(at) /\ results'[at] # "ok"
        /\ chain'.current = SourceAt(at) /\ chain'.visited = {SourceAt(at)}
    BY <1>6 DEF OpenChain, SourceAt
  <2>2. a0.at = at /\ a0.source = SourceAt(at)
    BY DEF Attempt
  <2>3. Tried' = Tried \cup {a0}
    BY <1>4, <1>6, AskGrows
  <2>4. \A a \in Tried' : a.at = at => a.source = SourceAt(at)
    BY <1>4, <1>6, <2>2, <2>3
  <2> QED BY <1>4, <1>6, <2>1, <2>4, AskGrows DEF AskInv
<1>7. CASE BackupDelivers
  <2>1. CallAllowed /\ stage' = "walking" /\ "ok" \in Results /\ plan' = plan /\ results' = results
        /\ attempts' = Append(attempts, Attempt(at, Target, "ok"))
    BY <1>7 DEF BackupDelivers, Close, Results, Delivered
  <2> QED BY <2>1, TargetIsNew, AskGrows DEF AskInv
<1>8. CASE BackupFails
  <2>1. CallAllowed /\ plan' = plan /\ results' = results /\ at' = at /\ stage = "chain"
    BY <1>8 DEF BackupFails, CallAllowed
  <2>2. PICK r \in FailureReasons :
           /\ attempts' = Append(attempts, Attempt(at, Target, r))
           /\ chain'.current = Target /\ chain'.visited = chain.visited \cup {Target}
    BY <1>8 DEF BackupFails
  <2>3. r \in Results /\ r \notin Delivered
    BY DEF Results, Delivered, FailureReasons, ChainReasons
  <2> DEFINE a0 == Attempt(at, Target, r)
  <2>4. a0.at = at /\ a0.source = Target /\ ~Delivers(a0)
    BY <2>3 DEF Attempt, Delivers
  <2>5. SourceAt(at)' = SourceAt(at)
    BY <2>1 DEF SourceAt
  <2>6. /\ (\A a \in Tried : a.source \in ChainFrom(plan, SourceAt(a.at)))'
        /\ (\A a \in Tried : a.source = SourceAt(a.at) => a.result = results[a.at])'
        /\ AskedOnce' /\ Tried' = Tried \cup {a0}
    BY <2>1, <2>2, <2>3, TargetIsNew, AskGrows
  <2>7. \A a \in Tried' : a.at = at => /\ a.source \in chain'.visited
                                       /\ a.source # SourceAt(at) => ~Delivers(a)
    BY <2>1, <2>2, <2>4, <2>6 DEF AskInv, Delivers
  <2>8. \A a : Delivers(a)' <=> Delivers(a)
    BY DEF Delivers
  <2> HIDE DEF a0
  <2> QED BY <2>1, <2>2, <2>5, <2>6, <2>7, <2>8, TargetIsNew DEF AskInv
<1>9. CASE UNCHANGED vars
  BY <1>9 DEF vars, AskInv, Tried, SourceAt, AskedOnce, Delivers
<1> QED
  BY <1>2, <1>3, <1>5, <1>6, <1>7, <1>8, <1>9 DEF Next, CallBackup, PoolDeclines, OutOfTime,
     NoBackupLeft, GiveUp, Close, BackupRaises, Conclude

LEMMA InitAsks == Init => GapInv /\ AskInv
BY NothingTried DEF Init, GapInv, LostSources, AskInv, AskedOnce

\* However the backup tables lead a chain round, no source is called twice for one
\* retrieval: only the chains of two steps have to be apart.
THEOREM NothingIsAskedTwice == Spec => []AskedOnce
<1>1. AskInv => AskedOnce
  BY DEF AskInv
<1> QED BY <1>1, InitAsks, InitInv, NextKeepsInv, NextKeepsGaps, NextKeepsAsked, PTL DEF Spec

-----------------------------------------------------------------------------
(* The last resort *)

Asta == "academic_asta_mcp"

\* What AstaIsLastResort says of the k-th attempt.
LastResort(k) ==
    attempts[k].source = Asta =>
        /\ plan.academic => \A j \in 1..k - 1 : ~Delivers(attempts[j])
        /\ plan.mixed /\ plan.steps[attempts[k].at].supplemental =>
             \A i \in Positions : results[i] \notin Delivered

AstaInv ==
    /\ \A i \in Positions : results[i] = "weak" => CanBeWeak(plan, i)
    /\ AstaIsLastResort

\* The wave never asks asta.
LEMMA WaveLeavesAsta ==
    ASSUME TypeOK, NEW i \in Positions
    PROVE  SourceAt(i) # Asta
BY DEF TypeOK, PlanShape, ChainsApart, Positions, SourceAt, Asta

\* An attempt with another source, or one that meets the rule, keeps it.
LEMMA ResortGrows ==
    ASSUME TypeOK, AstaIsLastResort, at \in Positions, NEW s \in SourceIds, NEW r \in Results,
           attempts' = Append(attempts, Attempt(at, s, r)), plan' = plan, results' = results,
           s = Asta => /\ plan.academic => \A a \in Tried : ~Delivers(a)
                       /\ plan.mixed /\ plan.steps[at].supplemental =>
                            \A i \in Positions : results[i] \notin Delivered
    PROVE  AstaIsLastResort'
<1> DEFINE a0 == Attempt(at, s, r)
<1>1. a0 \in AttemptRecords /\ a0.at = at /\ a0.source = s
  BY AttemptTyped
<1>2. /\ Len(attempts) \in Nat /\ Len(attempts') = Len(attempts) + 1
      /\ \A k \in 1..Len(attempts) : attempts'[k] = attempts[k]
      /\ attempts'[Len(attempts')] = a0
  BY <1>1, TriedGrows
<1>3. \A k \in 1..Len(attempts') : k \in 1..Len(attempts) \/ k = Len(attempts')
  BY <1>2
<1>4. Positions' = Positions
  BY DEF Positions
<1> HIDE DEF a0
<1>5. ASSUME NEW k \in 1..Len(attempts) PROVE LastResort(k)'
  <2>1. LastResort(k)
    BY <1>5 DEF AstaIsLastResort, LastResort, Asta
  <2>2. \A j \in 1..k - 1 : j \in 1..Len(attempts)
    BY <1>2, <1>5
  <2> QED BY <1>2, <1>4, <1>5, <2>1, <2>2 DEF LastResort, Delivers
<1>6. ASSUME NEW k, k = Len(attempts') PROVE LastResort(k)'
  <2>1. \A j \in 1..k - 1 : j \in 1..Len(attempts) /\ attempts[j] \in Tried
    BY <1>2, <1>6 DEF Tried
  <2>2. attempts'[k].source = s /\ attempts'[k].at = at
    BY <1>1, <1>2, <1>6
  <2> QED BY <1>2, <1>4, <2>1, <2>2 DEF LastResort, Delivers
<1> QED BY <1>3, <1>5, <1>6 DEF AstaIsLastResort, LastResort, Asta

\* _skip_academic_asta_fallback lets the call of asta through only after everything
\* it looks at failed.
LEMMA AstaIsLast ==
    ASSUME Inv, AskInv, AstaInv, CallAllowed, Target = Asta
    PROVE  /\ plan.academic => \A a \in Tried : ~Delivers(a)
           /\ plan.mixed /\ plan.steps[at].supplemental =>
                \A i \in Positions : results[i] \notin Delivered
<1>1. /\ stage = "chain" /\ at \in Positions /\ TypeOK
      /\ Target \in SourceIds /\ Target \notin chain.visited /\ ~SkipsAsta
  BY DEF CallAllowed, HasBackup, Inv, LoopInv
<1>2. chain.reason \in ChainReasons /\ Target = plan.backup[chain.current][chain.reason]
  BY <1>1, NoBackupIsNoSource DEF Target
<1>3. /\ results[at] # "ok" /\ chain.current \in ChainFrom(plan, SourceAt(at))
      /\ \A a \in Tried : a.at = at /\ a.source # SourceAt(at) => ~Delivers(a)
      /\ \A a \in Tried : a.source = SourceAt(a.at) => a.result = results[a.at]
  BY <1>1 DEF AskInv
<1>4. ASSUME plan.academic, NEW a \in Tried PROVE ~Delivers(a)
  <2>1. /\ ~plan.mixed /\ Positions = {1} /\ SourceAt(1) \in Metadata
        /\ \A r \in ChainReasons : plan.backup[SourceAt(1)][r] # Asta
    BY <1>1, <1>4 DEF TypeOK, PlanShape, ChainsApart, Positions, SourceAt, Asta
  <2>2. chain.current # SourceAt(1)
    BY <1>2, <2>1
  <2>3. results[1] \notin Delivered
    BY <1>1, <1>4, <2>1, <2>2 DEF SkipsAsta, Asta
  <2>4. a.at = 1 /\ at = 1
    BY <1>1, <1>4, <2>1, TriedTyped DEF AttemptRecords
  <2> QED BY <1>3, <1>4, <2>3, <2>4 DEF Delivers
<1>5. ASSUME plan.mixed, plan.steps[at].supplemental, NEW i \in Positions
      PROVE  results[i] \notin Delivered
  <2>1. CASE SourceAt(i) # chain.current
    BY <1>1, <1>5, <2>1 DEF SkipsAsta, Asta
  <2>2. CASE SourceAt(i) = chain.current
    <3>1. i = at
      BY <1>1, <1>3, <1>5, <2>2, StepsTyped, ChainStarts, OneStepComesTo
    <3>2. results[at] # "weak"
      BY <1>1, <1>5 DEF AstaInv, CanBeWeak, TypeOK, PlanShape, ChainsApart
    <3> QED BY <1>3, <3>1, <3>2 DEF Delivered
  <2> QED BY <2>1, <2>2
<1> QED BY <1>4, <1>5

LEMMA NextKeepsResort ==
    ASSUME Inv, AskInv, AstaInv, [Next]_vars
    PROVE  AstaInv'
<1>1. TypeOK /\ AstaIsLastResort
  BY DEF Inv, AstaInv
<1>2. (\A i \in Positions : results[i] = "weak" => CanBeWeak(plan, i))'
  BY DEF AstaInv, Positions, CanBeWeak, Next, vars, Pool, PoolDeclines, TakeHits, OpenChain,
         OutOfTime, NoBackupLeft, CallBackup, BackupDelivers, BackupFails, BackupRaises, Conclude
<1>3. ASSUME UNCHANGED <<plan, results, attempts>> PROVE AstaIsLastResort'
  BY <1>1, <1>3 DEF AstaIsLastResort, Delivers, Positions
<1>4. ASSUME Pool PROVE AstaIsLastResort'
  <2>1. attempts' = [i \in Positions |-> Attempt(i, SourceAt(i), results[i])]
    BY <1>4 DEF Pool
  <2>2. Positions = 1..Len(plan.steps) /\ Len(plan.steps) \in Nat
    BY <1>1, StepsTyped DEF Positions
  <2>3. Len(attempts') = Len(plan.steps)
    BY <2>1, <2>2
  <2>4. \A k \in 1..Len(attempts') : attempts'[k].source # Asta
    BY <1>1, <2>1, <2>2, <2>3, WaveLeavesAsta DEF Attempt
  <2> QED BY <2>4 DEF AstaIsLastResort, Asta
<1>5. ASSUME TakeHits \/ OpenChain PROVE AstaIsLastResort'
  <2>1. at \in Positions /\ SourceAt(at) \in SourceIds /\ results[at] \in Results
    BY <1>1, <1>5, StepsTyped DEF TakeHits, OpenChain, TypeOK
  <2>2. /\ attempts' = Append(attempts, Attempt(at, SourceAt(at), results[at]))
        /\ plan' = plan /\ results' = results
    BY <1>5 DEF TakeHits, OpenChain, OwnAttempt
  <2> QED BY <1>1, <2>1, <2>2, WaveLeavesAsta, ResortGrows
<1>6. ASSUME BackupDelivers \/ BackupFails PROVE AstaIsLastResort'
  <2>1. CallAllowed /\ plan' = plan /\ results' = results
    BY <1>6 DEF BackupDelivers, BackupFails
  <2>2. at \in Positions /\ Target \in SourceIds
    BY <2>1 DEF CallAllowed, HasBackup, Inv, LoopInv
  <2>3. PICK r \in FailureReasons \cup {"ok"} : attempts' = Append(attempts, Attempt(at, Target, r))
    BY <1>6 DEF BackupDelivers, BackupFails
  <2>4. r \in Results
    BY DEF Results, Delivered
  <2> QED BY <1>1, <2>1, <2>2, <2>3, <2>4, AstaIsLast, ResortGrows
<1>7. AstaIsLastResort'
  BY <1>3, <1>4, <1>5, <1>6 DEF Next, vars, CallBackup, PoolDeclines, OutOfTime, NoBackupLeft,
     BackupRaises, Conclude
<1> QED BY <1>2, <1>7 DEF AstaInv

\* academic_asta_mcp is called only when every source that could stand for it failed,
\* whichever of them the plan tries first and whatever the backups in between.
THEOREM AstaComesLast == Spec => []AstaIsLastResort
<1>1. Init => AstaInv
  BY DEF Init, AstaInv, AstaIsLastResort
<1>2. AstaInv => AstaIsLastResort
  BY DEF AstaInv
<1> QED
  BY <1>1, <1>2, InitAsks, InitInv, NextKeepsInv, NextKeepsGaps, NextKeepsAsked,
     NextKeepsResort, PTL DEF Spec

-----------------------------------------------------------------------------
(* What the outcome tells of the wave *)

\* A gap among the plan's own sources did not deliver in the wave, a hit did.
TellsTheWave ==
    outcome.status # "none" => \A i \in Positions :
        /\ SourceAt(i) \in outcome.gaps => results[i] \notin Delivered
        /\ SourceAt(i) \in outcome.hits => results[i] \in Delivered

PooledHits == stage = "pooled" => outcome.hits \subseteq WaveHits(FALSE) \cup WaveHits(TRUE)

LEMMA NextKeepsPooled ==
    ASSUME Inv, PooledHits, [Next]_vars
    PROVE  PooledHits'
<1>1. CASE Pool
  <2>1. PICK hits \in Shortlists : outcome'.hits = hits
    BY <1>1 DEF Pool, Verdict
  <2>2. plan' = plan /\ results' = results
    BY <1>1 DEF Pool
  <2>3. WaveHits(FALSE)' = WaveHits(FALSE) /\ WaveHits(TRUE)' = WaveHits(TRUE)
    BY <2>2 DEF WaveHits, Positions, SourceAt
  <2> QED BY <2>1, <2>3 DEF PooledHits, Shortlists
<1>2. CASE UNCHANGED vars
  BY <1>2 DEF vars, PooledHits, WaveHits, Positions, SourceAt
<1> QED
  BY <1>1, <1>2 DEF Next, PooledHits, PoolDeclines, TakeHits, OpenChain, OutOfTime, NoBackupLeft,
     GiveUp, CallBackup, CallAllowed, BackupDelivers, BackupFails, BackupRaises, Close, Conclude

\* Hits and gaps come from attempts, and an attempt with a source of the wave is
\* that step's own.
LEMMA OutcomeTells ==
    ASSUME Inv, HitInv, GapInv, AskInv, PooledHits
    PROVE  TellsTheWave
<1> SUFFICES ASSUME outcome.status # "none", NEW i \in Positions
             PROVE  /\ SourceAt(i) \in outcome.gaps => results[i] \notin Delivered
                    /\ SourceAt(i) \in outcome.hits => results[i] \in Delivered
  BY DEF TellsTheWave
<1>1. TypeOK /\ stage \in {"pooled", "done"} /\ outcome.gaps = LostSources
  BY DEF Inv, TypeOK, LoopInv, GapInv
<1>2. SourceAt(i) \in ChainFrom(plan, SourceAt(i))
  BY <1>1, StepsTyped, ChainStarts
<1>3. ASSUME NEW a \in Tried, a.source = SourceAt(i) PROVE Delivers(a) <=> results[i] \in Delivered
  <2>1. a.at \in Positions
    BY <1>1, <1>3, TriedTyped DEF AttemptRecords
  <2>2. a.at = i
    BY <1>1, <1>2, <1>3, <2>1, OneStepComesTo DEF AskInv
  <2> QED BY <1>3, <2>2 DEF AskInv, Delivers
<1>4. SourceAt(i) \in outcome.gaps => results[i] \notin Delivered
  BY <1>1, <1>3 DEF LostSources
<1>5. ASSUME SourceAt(i) \in outcome.hits PROVE results[i] \in Delivered
  <2>1. CASE stage = "done"
    BY <1>3, <1>5, <2>1 DEF HitInv, DeliveredBy
  <2>2. CASE stage = "pooled"
    <3>1. PICK j \in Positions : SourceAt(i) = SourceAt(j) /\ results[j] = "ok"
      BY <1>5, <2>2 DEF PooledHits, WaveHits
    <3>2. i = j
      BY <1>1, <1>2, <3>1, OneStepComesTo
    <3> QED BY <3>1, <3>2 DEF Delivered
  <2> QED BY <1>1, <2>1, <2>2
<1> QED BY <1>4, <1>5

\* What OutcomeTells needs, in one invariant for the modules that use it.
PathInv == Inv /\ HitInv /\ GapInv /\ AskInv /\ PooledHits

LEMMA InitPath == Init => PathInv
BY InitInv, InitAsks, NothingTried DEF Init, PathInv, HitInv, DeliveredBy, PooledHits

LEMMA NextKeepsPath ==
    ASSUME PathInv, [Next]_vars
    PROVE  PathInv'
BY NextKeepsInv, NextKeepsHits, NextKeepsGaps, NextKeepsAsked, NextKeepsPooled DEF PathInv
=============================================================================
