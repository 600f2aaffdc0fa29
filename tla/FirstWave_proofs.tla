--------------------------- MODULE FirstWave_proofs ---------------------------
(***************************************************************************)
(* Proofs about the fan-out of FirstWave, for any number of steps, any     *)
(* cap and any timeouts: its types, its permit accounting and its budgets. *)
(***************************************************************************)
EXTENDS FirstWave, FiniteSetTheorems, WellFoundedInduction, TLAPS

\* A nonempty set of steps has a first one: asyncio's queue has a head.
LEMMA FirstExists ==
    ASSUME NEW S, S \subseteq Steps, S # {}
    PROVE  First(S) \in S
<1>1. \E i \in S : \A j \in S : ~ (<<j, i>> \in OpToRel(<, Nat))
  <2>1. S \subseteq Nat
    BY WaveConstants DEF Steps
  <2> QED
    BY <2>1, NatLessThanWellFounded, WFMin
<1>2. \E i \in S : \A j \in S : i <= j
  <2>1. PICK i \in S : \A j \in S : ~ (<<j, i>> \in OpToRel(<, Nat))
    BY <1>1
  <2>2. ASSUME NEW j \in S PROVE i <= j
    <3>1. i \in Nat /\ j \in Nat
      BY WaveConstants DEF Steps
    <3>2. ~ (j < i)
      BY <2>1, <3>1 DEF OpToRel
    <3> QED
      BY <3>1, <3>2
  <2> QED
    BY <2>2
<1> QED
  BY <1>2 DEF First

-----------------------------------------------------------------------------
(* Permits *)

\* A reported step's task has ended, so a task to be cut is never a reported one.
ReportedDone == \A i \in Steps : bySource[i] # Unreported => phase[i] = "done"

\* The accounting is inductive only together with the queue's: a permit is
\* returned to the value exactly when nobody is left to be granted it.
PermitInv == TypeOK /\ PermitAccounting /\ NoIdlePermit /\ ReportedDone

LEMMA OwningFinite ==
    ASSUME NEW ph
    PROVE  IsFiniteSet(Owning(ph)) /\ Cardinality(Owning(ph)) \in Nat
<1>1. IsFiniteSet(Steps)
  BY FS_Interval, WaveConstants DEF Steps
<1>2. Owning(ph) \in SUBSET Steps
  BY DEF Owning
<1> QED
  BY <1>1, <1>2, FS_Subset, FS_CardinalityType

LEMMA PermitsPositive == Permits \in Nat \ {0}
BY WaveConstants DEF Permits

\* Releasing the permit of one owner keeps the sum, whoever gets the permit.
LEMMA ReleaseKeepsAccounting ==
    ASSUME TypeOK, PermitAccounting, NoIdlePermit,
           NEW i \in Owning(phase),
           Release([phase EXCEPT ![i] = "done"])
    PROVE  /\ PermitAccounting' /\ NoIdlePermit'
           /\ phase' \in [Steps -> Phases] /\ permits' \in 0..Permits
           /\ \A j \in Steps : phase[j] = "done" => phase'[j] = "done"
<1> DEFINE freed == [phase EXCEPT ![i] = "done"]
<1>1. i \in Steps /\ freed \in [Steps -> Phases]
  BY DEF Owning, TypeOK, Phases
<1>2. Owning(freed) = Owning(phase) \ {i}
  BY <1>1 DEF Owning, TypeOK
<1>3. Cardinality(Owning(freed)) = Cardinality(Owning(phase)) - 1
  BY <1>2, OwningFinite, FS_RemoveElement
<1>4. /\ permits \in Nat /\ Permits \in Nat
      /\ Cardinality(Owning(phase)) \in Nat /\ Cardinality(Owning(freed)) \in Nat
  BY OwningFinite, PermitsPositive DEF TypeOK
<1>5. CASE Waiting(freed) = {}
  <2>1. phase' = freed /\ permits' = permits + 1
    BY <1>5 DEF Release, HandOn
  <2>2. PermitAccounting'
    BY <2>1, <1>3, <1>4 DEF PermitAccounting
  <2>3. permits' \in 0..Permits
    BY <2>1, <2>2, <1>4 DEF PermitAccounting
  <2>4. NoIdlePermit'
    BY <2>1, <1>5 DEF NoIdlePermit
  <2>5. \A j \in Steps : phase[j] = "done" => phase'[j] = "done"
    BY <2>1, <1>1 DEF TypeOK
  <2> QED
    BY <2>1, <2>2, <2>3, <2>4, <2>5, <1>1
<1>6. CASE Waiting(freed) # {}
  <2> DEFINE w == First(Waiting(freed))
  <2>1. w \in Waiting(freed)
    <3>1. Waiting(freed) \subseteq Steps
      BY DEF Waiting
    <3> QED
      BY <3>1, <1>6, FirstExists
  <2>2. phase' = [freed EXCEPT ![w] = "granted"] /\ permits' = permits
    BY <1>6 DEF Release, HandOn
  <2>3. w \in Steps /\ freed[w] = "waiting" /\ w # i
    BY <2>1, <1>1 DEF Waiting, TypeOK
  <2>4. Owning(phase') = Owning(freed) \cup {w} /\ w \notin Owning(freed)
    BY <2>2, <2>3, <1>1 DEF Owning
  <2>5. Cardinality(Owning(phase')) = Cardinality(Owning(freed)) + 1
    BY <2>4, OwningFinite, FS_AddElement
  <2>6. PermitAccounting'
    BY <2>5, <2>2, <1>3, <1>4 DEF PermitAccounting
  <2>7. permits = 0
    <3>1. phase[w] = "waiting"
      BY <2>3, <1>1 DEF TypeOK
    <3> QED
      BY <3>1, <2>3, <1>4 DEF NoIdlePermit, Waiting
  <2>8. phase' \in [Steps -> Phases]
    BY <2>2, <1>1 DEF Phases
  <2>9. \A j \in Steps : phase[j] = "done" => phase'[j] = "done"
    BY <2>2, <2>3, <1>1 DEF TypeOK
  <2>10. NoIdlePermit'
    BY <2>2, <2>7 DEF NoIdlePermit
  <2>11. permits' \in 0..Permits
    BY <2>2 DEF TypeOK
  <2> QED
    BY <2>6, <2>8, <2>9, <2>10, <2>11
<1> QED
  BY <1>5, <1>6

\* Cancelling any set of steps that holds every waiting one keeps the sum: the
\* permits that were granted and not yet taken come back, the rest stay owned.
LEMMA CancelKeepsAccounting ==
    ASSUME TypeOK, PermitAccounting,
           NEW S \in SUBSET Steps, Waiting(phase) \subseteq S,
           CancelAll(S)
    PROVE  /\ PermitAccounting' /\ NoIdlePermit'
           /\ phase' \in [Steps -> Phases] /\ permits' \in 0..Permits
           /\ unwindBy' \in [Steps -> Nat]
           /\ result' \in [Steps -> TaskResults \cup {"none"}]
           /\ \A j \in Steps : phase[j] = "done" => phase'[j] = "done"
<1> DEFINE granted == {i \in Cut(S) : phase[i] = "granted"}
           inFlight == {i \in Cut(S) : phase[i] \in {"running", "expiring", "cancelling"}}
           ended == {i \in Cut(S) : phase[i] \in {"created", "waiting", "granted"}}
<1>1. /\ phase' = [i \in Steps |-> CASE i \in ended -> "done"
                                   [] i \in inFlight -> "cancelling"
                                   [] OTHER -> phase[i]]
      /\ permits' = permits + Cardinality(granted)
      /\ unwindBy' = [i \in Steps |-> IF i \in inFlight THEN now + UnwindMax
                                                        ELSE unwindBy[i]]
      /\ result' = [i \in Steps |-> IF i \in ended THEN "cancelled" ELSE result[i]]
  BY DEF CancelAll
<1>2. granted \subseteq Owning(phase) /\ granted \subseteq Steps
      /\ ended \subseteq Steps /\ inFlight \subseteq Steps /\ ended \cap inFlight = {}
  BY DEF Owning, Cut
<1>3. \A i \in Steps : phase'[i] = IF i \in ended THEN "done"
                                ELSE IF i \in inFlight THEN "cancelling" ELSE phase[i]
  BY <1>1, <1>2
<1>4. phase' \in [Steps -> Phases]
  <2>1. DOMAIN phase' = Steps /\ phase' = [i \in Steps |-> phase'[i]]
    BY <1>1
  <2>2. \A i \in Steps : phase'[i] \in Phases
    BY <1>3 DEF TypeOK, Phases
  <2> QED
    BY <2>1, <2>2
<1>5. Owning(phase') = Owning(phase) \ granted
  <2>1. ASSUME NEW i \in Steps PROVE i \in Owning(phase') <=> i \in Owning(phase) /\ i \notin granted
    BY <1>3 DEF Owning, Cut
  <2> QED
    BY <2>1, <1>2 DEF Owning
<1>6. Cardinality(Owning(phase')) = Cardinality(Owning(phase)) - Cardinality(granted)
  <2>1. Owning(phase) \cap granted = granted
    BY <1>2
  <2> QED
    BY <2>1, <1>5, OwningFinite, FS_Difference
<1>7. Cardinality(granted) \in Nat
  BY <1>2, OwningFinite, FS_Subset, FS_CardinalityType
<1>8. /\ permits \in Nat /\ Permits \in Nat
      /\ Cardinality(Owning(phase)) \in Nat /\ Cardinality(Owning(phase')) \in Nat
  BY OwningFinite, PermitsPositive DEF TypeOK
<1>9. PermitAccounting'
  BY <1>1, <1>6, <1>7, <1>8 DEF PermitAccounting
<1>10. permits' \in 0..Permits
  BY <1>1, <1>7, <1>8, <1>9 DEF PermitAccounting
<1>11. NoIdlePermit'
  <2>1. ASSUME NEW i \in Steps, phase'[i] = "waiting" PROVE FALSE
    <3>1. phase[i] = "waiting"
      BY <2>1, <1>3
    <3>2. i \in ended
      BY <3>1 DEF Cut, Waiting
    <3> QED
      BY <3>2, <2>1, <1>3
  <2> QED
    BY <2>1 DEF NoIdlePermit, Waiting
<1>12. unwindBy' \in [Steps -> Nat]
  <2>1. now + UnwindMax \in Nat
    BY WaveConstants DEF TypeOK
  <2> QED
    BY <2>1, <1>1 DEF TypeOK
<1>13. result' \in [Steps -> TaskResults \cup {"none"}]
  BY <1>1 DEF TypeOK, TaskResults
<1>14. \A j \in Steps : phase[j] = "done" => phase'[j] = "done"
  BY <1>3 DEF Cut
<1> QED
  BY <1>4, <1>9, <1>10, <1>11, <1>12, <1>13, <1>14

\* Reports are typed and final, and only ended tasks are given one.
LEMMA CollectIntoReports ==
    ASSUME TypeOK, ReportedDone
    PROVE  /\ CollectInto(Finished) \in
                [Steps -> [reason : Reasons \cup {"none"}, byDeadline : BOOLEAN]]
           /\ \A i \in Steps : CollectInto(Finished)[i] # Unreported <=> phase[i] = "done"
<1>1. \A i \in Steps : CollectInto(Finished)[i] =
        IF i \in Finished THEN Collected(result[i]) ELSE bySource[i]
  BY DEF CollectInto
<1>2. \A r : Collected(r) \in [reason : Reasons \cup {"none"}, byDeadline : BOOLEAN]
             /\ Collected(r).reason # "none"
  BY DEF Collected, Reported, Reasons
<1>3. \A i \in Steps : Collected(result[i]) # Unreported
  BY <1>2 DEF Unreported
<1>4. CollectInto(Finished) \in
        [Steps -> [reason : Reasons \cup {"none"}, byDeadline : BOOLEAN]]
  BY <1>2 DEF CollectInto, TypeOK
<1> QED
  BY <1>1, <1>3, <1>4 DEF Finished, ReportedDone

LEMMA PermitInit == Init => PermitInv
<1> SUFFICES ASSUME Init PROVE PermitInv
  OBVIOUS
<1>1. TypeOK
  <2>1. Unreported \in [reason : Reasons \cup {"none"}, byDeadline : BOOLEAN]
    BY DEF Unreported
  <2>2. permits \in 0..Permits
    BY PermitsPositive DEF Init
  <2> QED
    BY <2>1, <2>2 DEF Init, TypeOK, Phases
<1>2. Owning(phase) = {}
  BY DEF Init, Owning
<1>3. PermitAccounting
  BY <1>2, FS_EmptySet, PermitsPositive DEF Init, PermitAccounting
<1>4. NoIdlePermit /\ ReportedDone
  BY DEF Init, NoIdlePermit, Waiting, ReportedDone
<1> QED
  BY <1>1, <1>3, <1>4 DEF PermitInv

\* Taking or dropping no permit: the owners and the queue are as they were.
LEMMA OwnersUnchanged ==
    ASSUME PermitAccounting, NoIdlePermit, permits' = permits,
           Owning(phase') = Owning(phase), Waiting(phase') \subseteq Waiting(phase)
    PROVE  PermitAccounting' /\ NoIdlePermit'
BY DEF PermitAccounting, NoIdlePermit

LEMMA TaskKeepsPermits ==
    ASSUME PermitInv, NEW i \in Steps, TaskStep(i) \/ VariantsReturn(i)
    PROVE  PermitInv'
<1> USE DEF PermitInv
<1>1. CASE Start(i)
  <2>1. phase[i] = "created" /\ UNCHANGED <<now, wave, stoppedEarly, unwindBy, result, bySource>>
    BY <1>1 DEF Start
  <2>2. deadline' \in [Steps -> Nat]
    BY <1>1, WaveConstants DEF Start, StepDeadline, TypeOK
  <2>3. ReportedDone'
    BY <1>1, <2>1 DEF Start, ReportedDone, TypeOK
  <2>4. CASE permits > 0 /\ Waiting(phase) = {}
    <3>1. phase' = [phase EXCEPT ![i] = "running"] /\ permits' = permits - 1
      BY <1>1, <2>4 DEF Start, TypeOK
    <3>2. Owning(phase') = Owning(phase) \cup {i} /\ i \notin Owning(phase)
      BY <3>1, <2>1 DEF Owning, TypeOK
    <3>3. Cardinality(Owning(phase')) = Cardinality(Owning(phase)) + 1
      BY <3>2, OwningFinite, FS_AddElement
    <3>4. permits' \in 0..Permits
      BY <3>1, <2>4, PermitsPositive DEF TypeOK
    <3>5. PermitAccounting'
      BY <3>1, <3>3, OwningFinite, PermitsPositive DEF PermitAccounting, TypeOK
    <3>6. NoIdlePermit'
      BY <3>1, <2>4 DEF NoIdlePermit, Waiting, TypeOK
    <3>7. TypeOK'
      BY <2>1, <2>2, <3>1, <3>4 DEF TypeOK, Phases
    <3> QED
      BY <2>3, <3>5, <3>6, <3>7
  <2>5. CASE ~ (permits > 0 /\ Waiting(phase) = {})
    <3>1. phase' = [phase EXCEPT ![i] = "waiting"] /\ permits' = permits
      BY <1>1, <2>5 DEF Start, TypeOK
    <3>2. Owning(phase') = Owning(phase)
      BY <3>1, <2>1 DEF Owning, TypeOK
    <3>3. permits = 0
      BY <2>5 DEF TypeOK, NoIdlePermit
    <3>4. PermitAccounting' /\ NoIdlePermit'
      BY <3>1, <3>2, <3>3 DEF PermitAccounting, NoIdlePermit
    <3>5. TypeOK'
      BY <2>1, <2>2, <3>1 DEF TypeOK, Phases
    <3> QED
      BY <2>3, <3>4, <3>5
  <2> QED
    BY <2>4, <2>5
<1>2. ASSUME i \in Owning(phase), Release([phase EXCEPT ![i] = "done"]),
             result' \in [Steps -> TaskResults \cup {"none"}],
             UNCHANGED <<now, wave, stoppedEarly, deadline, unwindBy, bySource>>
      PROVE  PermitInv'
  <2>1. /\ PermitAccounting' /\ NoIdlePermit'
        /\ phase' \in [Steps -> Phases] /\ permits' \in 0..Permits
        /\ \A j \in Steps : phase[j] = "done" => phase'[j] = "done"
    BY <1>2, ReleaseKeepsAccounting
  <2>2. TypeOK'
    BY <1>2, <2>1 DEF TypeOK
  <2>3. ReportedDone'
    BY <1>2, <2>1 DEF ReportedDone
  <2> QED
    BY <2>1, <2>2, <2>3
<1>3. \A r \in TaskResults : Return(i, r) => result' \in [Steps -> TaskResults \cup {"none"}]
  BY DEF Return, TypeOK
<1>4. CASE Resume(i)
  <2>1. phase[i] = "granted" /\ UNCHANGED <<now, wave, stoppedEarly, deadline, unwindBy, bySource>>
    BY <1>4 DEF Resume
  <2>2. CASE phase' = [phase EXCEPT ![i] = "running"] /\ UNCHANGED <<permits, result>>
    <3>1. Owning(phase') = Owning(phase) /\ Waiting(phase') = Waiting(phase)
      BY <2>1, <2>2 DEF Owning, Waiting, TypeOK
    <3>2. PermitAccounting' /\ NoIdlePermit'
      BY <2>2, <3>1, OwnersUnchanged
    <3>3. TypeOK'
      BY <2>1, <2>2 DEF TypeOK, Phases
    <3>4. ReportedDone'
      BY <2>1, <2>2 DEF ReportedDone, TypeOK
    <3> QED
      BY <3>2, <3>3, <3>4
  <2>3. CASE Release([phase EXCEPT ![i] = "done"]) /\ Return(i, "timeout")
    <3>1. i \in Owning(phase)
      BY <2>1 DEF Owning
    <3>2. result' \in [Steps -> TaskResults \cup {"none"}]
      BY <2>3, <1>3 DEF TaskResults, Reasons
    <3> QED
      BY <3>1, <3>2, <2>1, <2>3, <1>2
  <2> QED
    BY <1>4, <2>2, <2>3 DEF Resume
<1>5. CASE AcquireTimesOut(i)
  <2>1. Return(i, "timeout") /\ UNCHANGED <<now, wave, stoppedEarly, deadline, unwindBy, bySource>>
    BY <1>5 DEF AcquireTimesOut
  <2>2. result' \in [Steps -> TaskResults \cup {"none"}]
    BY <2>1, <1>3 DEF TaskResults, Reasons
  <2>3. CASE phase[i] = "granted"
    BY <2>1, <2>2, <2>3, <1>2, <1>5 DEF AcquireTimesOut, Release, Owning
  <2>4. CASE phase[i] = "waiting"
    <3>1. phase' = [phase EXCEPT ![i] = "done"] /\ permits' = permits
      BY <1>5, <2>4 DEF AcquireTimesOut
    <3>2. Owning(phase') = Owning(phase) /\ Waiting(phase') \subseteq Waiting(phase)
      BY <3>1, <2>4 DEF Owning, Waiting, TypeOK
    <3>3. PermitAccounting' /\ NoIdlePermit'
      BY <3>1, <3>2, OwnersUnchanged
    <3>4. TypeOK'
      BY <2>1, <2>2, <3>1 DEF TypeOK, Phases
    <3>5. ReportedDone'
      BY <2>1, <3>1 DEF ReportedDone, TypeOK
    <3> QED
      BY <3>3, <3>4, <3>5
  <2> QED
    BY <1>5, <2>3, <2>4 DEF AcquireTimesOut
<1>6. CASE VariantsReturn(i)
  <2>1. result' \in [Steps -> TaskResults \cup {"none"}]
    BY <1>6, <1>3 DEF VariantsReturn, TaskResults
  <2> QED
    BY <2>1, <1>2, <1>6 DEF VariantsReturn, Owning
<1>7. CASE AdapterTimesOut(i)
  <2>1. /\ phase[i] = "running" /\ phase' = [phase EXCEPT ![i] = "expiring"]
        /\ unwindBy' = [unwindBy EXCEPT ![i] = now + UnwindMax]
        /\ UNCHANGED <<now, wave, stoppedEarly, permits, deadline, result, bySource>>
    BY <1>7 DEF AdapterTimesOut
  <2>2. Owning(phase') = Owning(phase) /\ Waiting(phase') = Waiting(phase)
    BY <2>1 DEF Owning, Waiting, TypeOK
  <2>3. PermitAccounting' /\ NoIdlePermit'
    BY <2>1, <2>2, OwnersUnchanged
  <2>4. TypeOK'
    BY <2>1, WaveConstants DEF TypeOK, Phases
  <2>5. ReportedDone'
    BY <2>1 DEF ReportedDone, TypeOK
  <2> QED
    BY <2>3, <2>4, <2>5
<1>8. CASE Unwound(i)
  <2>1. result' \in [Steps -> TaskResults \cup {"none"}]
    BY <1>8, <1>3 DEF Unwound, TaskResults, Reasons
  <2> QED
    BY <2>1, <1>2, <1>8 DEF Unwound, Owning
<1> QED
  BY <1>1, <1>4, <1>5, <1>6, <1>7, <1>8 DEF TaskStep

LEMMA WaveKeepsPermits ==
    ASSUME PermitInv, Collect \/ WaveDeadline \/ DrainEnds \/ Abandon \/ Tick
    PROVE  PermitInv'
<1> USE DEF PermitInv
<1>1. Waiting(phase) \subseteq Pending(bySource) \ Finished
  BY DEF Waiting, Pending, Finished, ReportedDone
<1>2. CASE Collect
  <2>1. /\ bySource' = CollectInto(Finished) /\ stoppedEarly' = StopsEarly(bySource')
        /\ UNCHANGED <<now, deadline>>
    BY <1>2 DEF Collect
  <2>2. /\ bySource' \in [Steps -> [reason : Reasons \cup {"none"}, byDeadline : BOOLEAN]]
        /\ \A i \in Steps : bySource'[i] # Unreported <=> phase[i] = "done"
    BY <2>1, CollectIntoReports
  <2>3. stoppedEarly' \in BOOLEAN
    BY <2>1 DEF StopsEarly
  <2>4. CASE UNCHANGED <<phase, permits, unwindBy, result>> /\ wave' \in {"waiting", "returned"}
    <3>1. PermitAccounting' /\ NoIdlePermit'
      BY <2>4 DEF PermitAccounting, NoIdlePermit
    <3>2. TypeOK'
      BY <2>1, <2>2, <2>3, <2>4 DEF TypeOK
    <3>3. ReportedDone'
      BY <2>2, <2>4 DEF ReportedDone
    <3> QED
      BY <3>1, <3>2, <3>3
  <2>5. CASE wave' = "draining" /\ CancelAll(Pending(bySource'))
    <3>1. Waiting(phase) \subseteq Pending(bySource') /\ Pending(bySource') \in SUBSET Steps
      BY <2>2 DEF Waiting, Pending
    <3>2. /\ PermitAccounting' /\ NoIdlePermit'
          /\ phase' \in [Steps -> Phases] /\ permits' \in 0..Permits
          /\ unwindBy' \in [Steps -> Nat]
          /\ result' \in [Steps -> TaskResults \cup {"none"}]
          /\ \A j \in Steps : phase[j] = "done" => phase'[j] = "done"
      BY <2>5, <3>1, CancelKeepsAccounting
    <3>3. TypeOK'
      BY <2>1, <2>2, <2>3, <2>5, <3>2 DEF TypeOK
    <3>4. ReportedDone'
      BY <2>2, <3>2 DEF ReportedDone
    <3> QED
      BY <3>2, <3>3, <3>4
  <2> QED
    BY <1>2, <2>4, <2>5 DEF Collect, TypeOK
<1>3. ASSUME NEW S \in SUBSET Steps, Waiting(phase) \subseteq S, CancelAll(S),
             wave' \in {"draining", "abandoned"},
             UNCHANGED <<now, stoppedEarly, deadline, bySource>>
      PROVE  PermitInv'
  <2>1. /\ PermitAccounting' /\ NoIdlePermit'
        /\ phase' \in [Steps -> Phases] /\ permits' \in 0..Permits
        /\ unwindBy' \in [Steps -> Nat]
        /\ result' \in [Steps -> TaskResults \cup {"none"}]
        /\ \A j \in Steps : phase[j] = "done" => phase'[j] = "done"
    BY <1>3, CancelKeepsAccounting
  <2>2. TypeOK'
    BY <1>3, <2>1 DEF TypeOK
  <2>3. ReportedDone'
    BY <1>3, <2>1 DEF ReportedDone
  <2> QED
    BY <2>1, <2>2, <2>3
<1>4. CASE WaveDeadline
  <2>1. Pending(bySource) \in SUBSET Steps /\ Waiting(phase) \subseteq Pending(bySource)
    BY <1>1 DEF Pending
  <2> QED
    BY <2>1, <1>3, <1>4 DEF WaveDeadline
<1>5. CASE DrainEnds
  <2>1. /\ wave' = "returned" /\ \A i \in Steps : phase[i] = "done"
        /\ bySource' = [i \in Steps |->
                IF i \in Pending(bySource) THEN Reported("timeout", CutByDeadline)
                                           ELSE bySource[i]]
        /\ UNCHANGED <<now, stoppedEarly, phase, permits, deadline, unwindBy, result>>
    BY <1>5 DEF DrainEnds, Drained
  <2>2. PermitAccounting' /\ NoIdlePermit'
    BY <2>1 DEF PermitAccounting, NoIdlePermit
  <2>3. Reported("timeout", CutByDeadline) \in [reason : Reasons \cup {"none"}, byDeadline : BOOLEAN]
    BY DEF Reported, CutByDeadline, Reasons
  <2>4. TypeOK'
    BY <2>1, <2>3 DEF TypeOK
  <2>5. ReportedDone'
    BY <2>1 DEF ReportedDone
  <2> QED
    BY <2>2, <2>4, <2>5
<1>6. CASE Abandon
  <2>1. wave' = "abandoned" /\ UNCHANGED <<now, stoppedEarly, deadline, bySource>>
    BY <1>6 DEF Abandon
  <2>2. CASE CancelAll(Pending(bySource) \ Finished)
    <3>1. Pending(bySource) \ Finished \in SUBSET Steps
      BY DEF Pending
    <3> QED
      BY <3>1, <2>1, <2>2, <1>1, <1>3
  <2>3. CASE UNCHANGED <<phase, permits, unwindBy, result>>
    <3>1. PermitAccounting' /\ NoIdlePermit'
      BY <2>3 DEF PermitAccounting, NoIdlePermit
    <3> QED
      BY <3>1, <2>1, <2>3 DEF TypeOK, ReportedDone
  <2> QED
    BY <1>6, <2>2, <2>3 DEF Abandon
<1>7. CASE Tick
  <2>1. now' = now + 1
        /\ UNCHANGED <<wave, stoppedEarly, phase, permits, deadline, unwindBy, result, bySource>>
    BY <1>7 DEF Tick
  <2>2. PermitAccounting' /\ NoIdlePermit'
    BY <2>1 DEF PermitAccounting, NoIdlePermit
  <2> QED
    BY <2>1, <2>2 DEF TypeOK, ReportedDone
<1> QED
  BY <1>2, <1>4, <1>5, <1>6, <1>7

\* To the tasks a CancelledError out of the wave is the same, whoever raised it.
LEMMA CancelledTaskAbandons == CancelledTaskRaises => Abandon
BY DEF CancelledTaskRaises, Abandon

\* The permit invariant is kept by every step of every wave.
LEMMA NextKeepsPermits ==
    ASSUME PermitInv, [Next]_vars
    PROVE  PermitInv'
<1>1. CASE Next
  BY <1>1, TaskKeepsPermits, WaveKeepsPermits, CancelledTaskAbandons DEF Next, LoopStep
<1>2. CASE UNCHANGED vars
  BY <1>2 DEF vars, PermitInv, TypeOK, PermitAccounting, NoIdlePermit, ReportedDone
<1> QED
  BY <1>1, <1>2

LEMMA PermitInvariant == Spec => []PermitInv
BY PermitInit, NextKeepsPermits, PTL DEF Spec

\* Every variable of the wave keeps its type; permits in particular never
\* exceed the cap, so no release is made twice.
THEOREM TypeCorrect == Spec => []TypeOK
<1>1. PermitInv => TypeOK
  BY DEF PermitInv
<1> QED
  BY <1>1, PermitInvariant, PTL

\* No permit is lost or duplicated by a cancellation, timeout or error.
THEOREM PermitsConserved == Spec => []PermitAccounting
<1>1. PermitInv => PermitAccounting
  BY DEF PermitInv
<1> QED
  BY <1>1, PermitInvariant, PTL

\* A step never queues while a permit is free.
THEOREM NoPermitIdles == Spec => []NoIdlePermit
<1>1. PermitInv => NoIdlePermit
  BY DEF PermitInv
<1> QED
  BY <1>1, PermitInvariant, PTL

\* global_concurrency_cap: never more steps in retrieval than permits.
THEOREM CapRespected ==
    Spec => [](Cardinality({i \in Steps : phase[i] \in {"running", "expiring", "cancelling"}})
                 <= Permits)
<1> DEFINE inFlight == {i \in Steps : phase[i] \in {"running", "expiring", "cancelling"}}
<1>1. PermitInv => Cardinality(inFlight) <= Permits
  <2> SUFFICES ASSUME PermitInv PROVE Cardinality(inFlight) <= Permits
    OBVIOUS
  <2>1. inFlight \in SUBSET Owning(phase)
    BY DEF Owning
  <2>2. Cardinality(inFlight) <= Cardinality(Owning(phase)) /\ Cardinality(inFlight) \in Nat
    BY <2>1, OwningFinite, FS_Subset, FS_CardinalityType
  <2> QED
    BY <2>2, OwningFinite, PermitsPositive DEF PermitInv, PermitAccounting, TypeOK
<1> QED
  BY <1>1, PermitInvariant, PTL

-----------------------------------------------------------------------------
(* Budgets *)

\* Time only passes for a step while its own timer and the wave's are ahead.
BudgetInv ==
    /\ \A i \in Steps : phase[i] = "created" => now = 0
    /\ \A i \in Steps : phase[i] \in {"waiting", "granted", "running"} =>
                           deadline[i] = SourceTimeout /\ now <= SourceTimeout
    /\ wave = "waiting" => /\ now <= WaveTimeout
                           /\ \A i \in Steps : phase[i] # "cancelling"
    /\ wave = "draining" =>
         /\ now <= WaveTimeout + UnwindMax
         /\ \A i \in Steps : \/ phase[i] = "done"
                             \/ phase[i] = "cancelling" /\ unwindBy[i] <= WaveTimeout + UnwindMax

\* What cancelling the tasks in S does to one of them.
LEMMA CancelPointwise ==
    ASSUME TypeOK, NEW S \in SUBSET Steps, CancelAll(S), NEW i \in Steps
    PROVE  /\ i \in S => phase'[i] \in {"done", "cancelling"}
           /\ i \notin S => phase'[i] = phase[i] /\ result'[i] = result[i]
           /\ phase[i] = "done" => phase'[i] = "done" /\ result'[i] = result[i]
           /\ phase[i] # "done" /\ phase'[i] = "done" => result'[i] = "cancelled"
           /\ phase'[i] # "done" => result'[i] = result[i]
           /\ i \in S /\ phase'[i] = "cancelling" => unwindBy'[i] = now + UnwindMax
<1> DEFINE inFlight == {j \in Cut(S) : phase[j] \in {"running", "expiring", "cancelling"}}
           ended == {j \in Cut(S) : phase[j] \in {"created", "waiting", "granted"}}
<1>1. /\ phase' = [j \in Steps |-> CASE j \in ended -> "done"
                                   [] j \in inFlight -> "cancelling"
                                   [] OTHER -> phase[j]]
      /\ unwindBy' = [j \in Steps |-> IF j \in inFlight THEN now + UnwindMax
                                                        ELSE unwindBy[j]]
      /\ result' = [j \in Steps |-> IF j \in ended THEN "cancelled" ELSE result[j]]
  BY DEF CancelAll
<1>2. ended \cap inFlight = {}
  OBVIOUS
<1>3. phase'[i] = IF i \in ended THEN "done"
                  ELSE IF i \in inFlight THEN "cancelling" ELSE phase[i]
  BY <1>1, <1>2
<1>4. /\ unwindBy'[i] = IF i \in inFlight THEN now + UnwindMax ELSE unwindBy[i]
      /\ result'[i] = IF i \in ended THEN "cancelled" ELSE result[i]
  BY <1>1
<1>5. phase[i] \in Phases
  BY DEF TypeOK
<1> QED
  BY <1>3, <1>4, <1>5 DEF Cut, Phases

\* What handing a permit on does to the other steps.
LEMMA ReleasePointwise ==
    ASSUME TypeOK, NEW i \in Steps, Release([phase EXCEPT ![i] = "done"]), NEW j \in Steps
    PROVE  /\ phase'[j] = IF j = i THEN "done" ELSE phase'[j]
           /\ j # i => \/ phase'[j] = phase[j]
                       \/ phase[j] = "waiting" /\ phase'[j] = "granted"
<1> DEFINE freed == [phase EXCEPT ![i] = "done"]
<1>1. freed \in [Steps -> Phases] /\ freed[i] = "done"
      /\ (j # i => freed[j] = phase[j])
  BY DEF TypeOK, Phases
<1>2. CASE Waiting(freed) = {}
  BY <1>1, <1>2 DEF Release, HandOn
<1>3. CASE Waiting(freed) # {}
  <2> DEFINE w == First(Waiting(freed))
  <2>1. w \in Waiting(freed)
    <3>1. Waiting(freed) \subseteq Steps
      BY DEF Waiting
    <3> QED
      BY <3>1, <1>3, FirstExists
  <2>2. phase' = [freed EXCEPT ![w] = "granted"]
    BY <1>3 DEF Release, HandOn
  <2>3. w \in Steps /\ freed[w] = "waiting" /\ w # i
    BY <2>1, <1>1 DEF Waiting
  <2> QED
    BY <2>2, <2>3, <1>1
<1> QED
  BY <1>2, <1>3

LEMMA BudgetInit == Init => BudgetInv
BY WaveConstants DEF Init, BudgetInv

LEMMA TaskKeepsBudgets ==
    ASSUME PermitInv, BudgetInv, NEW i \in Steps, TaskStep(i) \/ VariantsReturn(i)
    PROVE  BudgetInv'
<1> USE DEF PermitInv
<1>1. now' = now /\ wave' = wave
  BY DEF TaskStep, Start, Resume, AcquireTimesOut, AdapterTimesOut, Unwound, VariantsReturn
<1>2. CASE Start(i)
  <2>1. /\ phase[i] = "created"
        /\ phase' = [phase EXCEPT ![i] = "running"] \/ phase' = [phase EXCEPT ![i] = "waiting"]
        /\ deadline' = [deadline EXCEPT ![i] = StepDeadline]
        /\ unwindBy' = unwindBy
    BY <1>2 DEF Start
  <2>2. now = 0 /\ StepDeadline = SourceTimeout
    BY <2>1, WaveConstants DEF BudgetInv, StepDeadline
  <2>3. \A j \in Steps : j # i => phase'[j] = phase[j] /\ deadline'[j] = deadline[j]
    BY <2>1 DEF TypeOK
  <2>4. phase'[i] \in {"running", "waiting"} /\ deadline'[i] = SourceTimeout
    BY <2>1, <2>2 DEF TypeOK
  <2>5. wave # "draining"
    BY <2>1 DEF BudgetInv
  <2> QED
    BY <2>2, <2>3, <2>4, <2>5, <1>1, WaveConstants DEF BudgetInv
<1>3. ASSUME phase[i] # "created", deadline' = deadline, unwindBy' = unwindBy,
             Release([phase EXCEPT ![i] = "done"])
      PROVE  BudgetInv'
  <2>1. ASSUME NEW j \in Steps
        PROVE  \/ phase'[j] = phase[j] \/ phase'[j] = "done"
               \/ phase[j] = "waiting" /\ phase'[j] = "granted"
    BY <1>3, <2>1, ReleasePointwise
  <2> QED
    BY <1>1, <1>3, <2>1 DEF BudgetInv
<1>4. CASE Resume(i)
  <2>1. phase[i] = "granted" /\ deadline' = deadline /\ unwindBy' = unwindBy
    BY <1>4 DEF Resume
  <2>2. CASE phase' = [phase EXCEPT ![i] = "running"]
    BY <1>1, <2>1, <2>2 DEF BudgetInv, TypeOK
  <2> QED
    BY <1>3, <1>4, <2>1, <2>2 DEF Resume
<1>5. CASE AcquireTimesOut(i)
  <2>1. phase[i] \in {"waiting", "granted"} /\ deadline' = deadline /\ unwindBy' = unwindBy
    BY <1>5 DEF AcquireTimesOut
  <2>2. CASE phase' = [phase EXCEPT ![i] = "done"]
    BY <1>1, <2>1, <2>2 DEF BudgetInv, TypeOK
  <2> QED
    BY <1>3, <1>5, <2>1, <2>2 DEF AcquireTimesOut, Release
<1>6. CASE VariantsReturn(i)
  BY <1>3, <1>6 DEF VariantsReturn
<1>7. CASE AdapterTimesOut(i)
  <2>1. /\ phase[i] = "running" /\ phase' = [phase EXCEPT ![i] = "expiring"]
        /\ deadline' = deadline
    BY <1>7 DEF AdapterTimesOut
  <2>2. wave # "draining"
    BY <2>1 DEF BudgetInv
  <2> QED
    BY <1>1, <2>1, <2>2 DEF BudgetInv, TypeOK
<1>8. CASE Unwound(i)
  BY <1>3, <1>8 DEF Unwound
<1> QED
  BY <1>2, <1>4, <1>5, <1>6, <1>7, <1>8 DEF TaskStep

LEMMA WaveKeepsBudgets ==
    ASSUME PermitInv, BudgetInv, Collect \/ WaveDeadline \/ DrainEnds \/ Abandon \/ Tick
    PROVE  BudgetInv'
<1> USE DEF PermitInv
<1>1. ASSUME NEW S \in SUBSET Steps, {j \in Steps : phase[j] # "done"} \subseteq S,
             CancelAll(S), wave = "waiting" \/ wave' = "abandoned",
             now' = now, wave' \in {"draining", "abandoned"}
      PROVE  BudgetInv'
  <2>1. \A j \in Steps : \/ phase'[j] = "done"
                         \/ phase'[j] = "cancelling" /\ unwindBy'[j] = now + UnwindMax
    <3>1. SUFFICES ASSUME NEW j \in Steps
                   PROVE  \/ phase'[j] = "done"
                          \/ phase'[j] = "cancelling" /\ unwindBy'[j] = now + UnwindMax
      OBVIOUS
    <3>2. CASE j \in S
      BY <1>1, <3>2, CancelPointwise
    <3>3. CASE j \notin S
      BY <1>1, <3>3, CancelPointwise
    <3> QED
      BY <3>2, <3>3
  <2>2. wave' = "draining" => now <= WaveTimeout
    BY <1>1 DEF BudgetInv
  <2> QED
    BY <1>1, <2>1, <2>2, WaveConstants DEF BudgetInv, TypeOK
<1>2. {j \in Steps : phase[j] # "done"} \subseteq Pending(bySource) \ Finished
  BY DEF Pending, Finished, ReportedDone
<1>3. CASE Collect
  <2>1. wave = "waiting" /\ now' = now /\ deadline' = deadline /\ bySource' = CollectInto(Finished)
    BY <1>3 DEF Collect
  <2>2. CASE phase' = phase /\ unwindBy' = unwindBy /\ wave' \in {"waiting", "returned"}
    BY <2>1, <2>2 DEF BudgetInv
  <2>3. CASE wave' = "draining" /\ CancelAll(Pending(bySource'))
    <3>1. {j \in Steps : phase[j] # "done"} \subseteq Pending(bySource')
      BY <2>1, CollectIntoReports DEF Pending
    <3>2. Pending(bySource') \in SUBSET Steps
      BY DEF Pending
    <3> QED
      BY <3>1, <3>2, <2>1, <2>3, <1>1
  <2> QED
    BY <1>3, <2>1, <2>2, <2>3 DEF Collect
<1>4. CASE WaveDeadline
  <2>1. Pending(bySource) \in SUBSET Steps
        /\ {j \in Steps : phase[j] # "done"} \subseteq Pending(bySource)
    BY <1>2 DEF Pending
  <2> QED
    BY <2>1, <1>1, <1>4 DEF WaveDeadline
<1>5. CASE DrainEnds
  BY <1>5 DEF DrainEnds, Drained, BudgetInv
<1>6. CASE Abandon
  <2>1. wave' = "abandoned" /\ now' = now /\ deadline' = deadline
    BY <1>6 DEF Abandon
  <2>2. CASE CancelAll(Pending(bySource) \ Finished)
    <3>1. Pending(bySource) \ Finished \in SUBSET Steps
      BY DEF Pending
    <3> QED
      BY <3>1, <2>1, <2>2, <1>1, <1>2
  <2>3. CASE phase' = phase
    BY <2>1, <2>3 DEF BudgetInv
  <2> QED
    BY <1>6, <2>2, <2>3 DEF Abandon
<1>7. CASE Tick
  <2>1. /\ now' = now + 1 /\ now \in Nat
        /\ UNCHANGED <<wave, phase, deadline, unwindBy>>
        /\ \E i \in Steps : phase[i] # "done"
        /\ \A i \in Steps : Settled(i)
        /\ wave = "waiting" => now < WaveTimeout
    BY <1>7 DEF Tick, TypeOK
  <2>2. \A i \in Steps : phase[i] # "created" /\ phase[i] # "granted"
    BY <2>1 DEF Settled
  <2>3. ASSUME NEW i \in Steps, phase[i] \in {"waiting", "running"}
        PROVE  deadline[i] = SourceTimeout /\ now + 1 <= SourceTimeout
    BY <2>1, <2>3, WaveConstants DEF Settled, BudgetInv
  <2>4. wave = "waiting" => now + 1 <= WaveTimeout
    BY <2>1, WaveConstants
  <2>5. ASSUME wave = "draining"
        PROVE  now + 1 <= WaveTimeout + UnwindMax
    <3>1. PICK i \in Steps : phase[i] # "done"
      BY <2>1
    <3>2. now < unwindBy[i] /\ unwindBy[i] <= WaveTimeout + UnwindMax /\ unwindBy[i] \in Nat
      BY <3>1, <2>1, <2>5 DEF Settled, BudgetInv, TypeOK
    <3> QED
      BY <3>2, <2>1, WaveConstants
  <2> QED
    BY <2>1, <2>2, <2>3, <2>4, <2>5 DEF BudgetInv
<1> QED
  BY <1>3, <1>4, <1>5, <1>6, <1>7

-----------------------------------------------------------------------------
(* Reports *)

\* What ties a report to its task's outcome: a task that ends cancelled before the
\* wave cuts its tasks is never reported, and from then on only unreported ones do.
ReportInv ==
    /\ \A i \in Steps : result[i] = "none" <=> phase[i] # "done"
    /\ wave = "waiting" =>
         ~stoppedEarly /\ \A i \in Steps : result[i] = "cancelled" => bySource[i] = Unreported
    /\ wave = "draining" =>
         /\ \A i \in Pending(bySource) : phase[i] = "done" => result[i] = "cancelled"
         /\ IF stoppedEarly THEN StopsEarly(bySource) ELSE now >= WaveTimeout
    /\ FinishedWorkKept /\ DeadlineFlagHonest /\ NoOrphans

LEMMA ReportInit == Init => ReportInv
BY DEF Init, ReportInv, FinishedWorkKept, DeadlineFlagHonest, NoOrphans

\* One task ends with r, the others keep their results and, unless they were
\* granted its permit, their phases: no report is disturbed.
LEMMA EndKeepsReports ==
    ASSUME PermitInv, BudgetInv, ReportInv, NEW i \in Steps, NEW r \in TaskResults,
           phase[i] # "done", wave = "draining" => r = "cancelled",
           phase'[i] = "done", Return(i, r),
           \A j \in Steps : phase'[j] = "done" => j = i \/ phase[j] = "done",
           \A j \in Steps : phase[j] = "done" => phase'[j] = "done",
           UNCHANGED <<now, wave, stoppedEarly, bySource>>
    PROVE  ReportInv'
<1> USE DEF PermitInv
<1>1. result' = [result EXCEPT ![i] = r] /\ result'[i] = r /\ r # "none"
  BY DEF Return, TypeOK, TaskResults, Reasons
<1>2. \A j \in Steps : j # i => result'[j] = result[j]
  BY <1>1 DEF TypeOK
<1>3. bySource[i] = Unreported /\ wave # "returned"
  BY DEF ReportedDone, ReportInv, NoOrphans
<1>4. \A j \in Steps : result'[j] = "none" <=> phase'[j] # "done"
  BY <1>1, <1>2 DEF ReportInv
<1>5. wave' = "waiting" =>
        ~stoppedEarly' /\ \A j \in Steps : result'[j] = "cancelled" => bySource'[j] = Unreported
  BY <1>1, <1>2, <1>3 DEF ReportInv
<1>6. wave' = "draining" => \A j \in Pending(bySource') : phase'[j] = "done" => result'[j] = "cancelled"
  BY <1>1, <1>2 DEF ReportInv, Pending
<1>7. wave' = "draining" => IF stoppedEarly' THEN StopsEarly(bySource') ELSE now' >= WaveTimeout
  BY DEF ReportInv
<1>8. FinishedWorkKept' /\ DeadlineFlagHonest' /\ NoOrphans'
  <2>1. \A j \in Steps : bySource[j] # Unreported => result'[j] = result[j]
    BY <1>2, <1>3
  <2>2. FinishedWorkKept'
    BY <2>1 DEF ReportInv, FinishedWorkKept
  <2>3. DeadlineFlagHonest'
    BY <2>1 DEF ReportInv, DeadlineFlagHonest
  <2>4. NoOrphans'
    BY <1>3 DEF NoOrphans
  <2> QED
    BY <2>2, <2>3, <2>4
<1> QED
  BY <1>4, <1>5, <1>6, <1>7, <1>8 DEF ReportInv

LEMMA TaskKeepsReports ==
    ASSUME PermitInv, BudgetInv, ReportInv, NEW i \in Steps, TaskStep(i) \/ VariantsReturn(i)
    PROVE  ReportInv'
<1> USE DEF PermitInv
<1>1. UNCHANGED <<now, wave, stoppedEarly, bySource>>
  BY DEF TaskStep, Start, Resume, AcquireTimesOut, AdapterTimesOut, Unwound, VariantsReturn
<1>2. ASSUME result' = result, phase[i] # "done",
             NEW p \in Phases \ {"done"}, phase' = [phase EXCEPT ![i] = p]
      PROVE  ReportInv'
  <2>1. \A j \in Steps : phase'[j] = "done" <=> phase[j] = "done"
    BY <1>2 DEF TypeOK, Phases
  <2>2. FinishedWorkKept' /\ DeadlineFlagHonest' /\ NoOrphans'
    BY <1>1, <1>2, <2>1 DEF ReportInv, FinishedWorkKept, DeadlineFlagHonest, NoOrphans
  <2> QED
    BY <1>1, <1>2, <2>1, <2>2 DEF ReportInv
<1>3. ASSUME NEW r \in TaskResults, Return(i, r), phase[i] # "done",
             wave = "draining" => r = "cancelled",
             Release([phase EXCEPT ![i] = "done"])
      PROVE  ReportInv'
  <2>1. \A j \in Steps : /\ phase'[j] = IF j = i THEN "done" ELSE phase'[j]
                         /\ j # i => \/ phase'[j] = phase[j]
                                     \/ phase[j] = "waiting" /\ phase'[j] = "granted"
    BY <1>3, ReleasePointwise
  <2>2. /\ phase'[i] = "done"
        /\ \A j \in Steps : phase'[j] = "done" => j = i \/ phase[j] = "done"
        /\ \A j \in Steps : phase[j] = "done" => phase'[j] = "done"
    BY <2>1
  <2> QED
    BY <2>2, <1>1, <1>3, EndKeepsReports
<1>4. wave = "draining" => phase[i] \in {"done", "cancelling"}
  BY DEF BudgetInv
<1>5. CASE Start(i)
  <2>1. phase[i] = "created" /\ result' = result
        /\ (phase' = [phase EXCEPT ![i] = "running"] \/ phase' = [phase EXCEPT ![i] = "waiting"])
    BY <1>5 DEF Start
  <2> QED
    BY <2>1, <1>2 DEF Phases
<1>6. CASE Resume(i)
  BY <1>6, <1>2, <1>3, <1>4 DEF Resume, Phases, TaskResults, Reasons
<1>7. CASE AcquireTimesOut(i)
  <2>1. CASE phase[i] = "granted"
    BY <2>1, <1>7, <1>3, <1>4 DEF AcquireTimesOut, Release, TaskResults, Reasons
  <2>2. CASE phase[i] = "waiting"
    <3>1. phase' = [phase EXCEPT ![i] = "done"] /\ Return(i, "timeout")
      BY <2>2, <1>7 DEF AcquireTimesOut, Release
    <3>2. /\ phase'[i] = "done"
          /\ \A j \in Steps : j # i => phase'[j] = phase[j]
      BY <3>1 DEF TypeOK
    <3>3. "timeout" \in TaskResults
      BY DEF TaskResults, Reasons
    <3> QED
      BY <3>1, <3>2, <3>3, <2>2, <1>1, <1>4, EndKeepsReports
  <2> QED
    BY <2>1, <2>2, <1>7 DEF AcquireTimesOut, Release
<1>8. CASE VariantsReturn(i)
  <2>1. PICK r \in TaskResults : Return(i, r)
    BY <1>8 DEF VariantsReturn
  <2>2. phase[i] = "running" /\ Release([phase EXCEPT ![i] = "done"])
    BY <1>8 DEF VariantsReturn
  <2> QED
    BY <2>1, <2>2, <1>3, <1>4
<1>9. CASE AdapterTimesOut(i)
  BY <1>9, <1>2 DEF AdapterTimesOut, Phases
<1>10. CASE Unwound(i)
  <2>1. CASE phase[i] = "expiring"
    <3>1. PICK r \in {"timeout", "ok"} : Return(i, r)
      BY <2>1, <1>10 DEF Unwound
    <3>2. r \in TaskResults /\ r # "cancelled"
      BY DEF TaskResults, Reasons
    <3> QED
      BY <3>1, <3>2, <2>1, <1>10, <1>3, <1>4 DEF Unwound
  <2>2. CASE phase[i] = "cancelling"
    BY <2>2, <1>10, <1>3 DEF Unwound, TaskResults
  <2> QED
    BY <2>1, <2>2, <1>10 DEF Unwound
<1> QED
  BY <1>5, <1>6, <1>7, <1>8, <1>9, <1>10 DEF TaskStep

\* The wave's own steps: a batch is reported as its tasks ended, the rest is
\* cut, and what was cut is reported as timed out.
LEMMA CollectKeepsReports ==
    ASSUME PermitInv, BudgetInv, ReportInv, Collect
    PROVE  ReportInv'
<1> USE DEF PermitInv
<1>1. /\ wave = "waiting" /\ now' = now /\ bySource' = CollectInto(Finished)
      /\ stoppedEarly' = StopsEarly(bySource')
  BY DEF Collect
<1>2. \A i \in Steps : bySource'[i] # Unreported <=> phase[i] = "done"
  BY <1>1, CollectIntoReports
<1>3. \A i \in Steps : bySource'[i] =
        IF i \in Finished THEN Collected(result[i]) ELSE bySource[i]
  BY <1>1 DEF CollectInto
\* The batch holds no task that ended cancelled, and there is none outside it.
<1>4. \A i \in Steps : result[i] # "cancelled"
  BY <1>1 DEF Collect, Cancelled, Finished, ReportInv
<1>5. \A i \in Steps : phase[i] = "done" => phase'[i] = "done" /\ result'[i] = result[i]
  <2>1. CASE UNCHANGED <<phase, result>>
    BY <2>1
  <2>2. CASE CancelAll(Pending(bySource'))
    <3>1. Pending(bySource') \in SUBSET Steps
      BY DEF Pending
    <3> QED
      BY <3>1, <2>2, CancelPointwise
  <2> QED
    BY <2>1, <2>2 DEF Collect
<1>6. FinishedWorkKept'
  BY <1>2, <1>3, <1>4, <1>5 DEF FinishedWorkKept, ReportInv
<1>7. DeadlineFlagHonest'
  BY <1>2, <1>4, <1>5 DEF DeadlineFlagHonest
<1>8. CASE /\ UNCHANGED <<phase, permits, unwindBy, result>>
           /\ wave' \in {"waiting", "returned"}
           /\ wave' = "returned" => Pending(bySource') = {}
           /\ wave' = "waiting" => ~stoppedEarly'
  <2>1. NoOrphans'
    BY <1>2, <1>5, <1>8 DEF NoOrphans, Pending
  <2> QED
    BY <1>1, <1>4, <1>6, <1>7, <1>8, <2>1 DEF ReportInv
<1>9. CASE /\ wave' = "draining" /\ CancelAll(Pending(bySource'))
           /\ stoppedEarly' \/ now >= WaveTimeout
  <2>1. Pending(bySource') \in SUBSET Steps
    BY DEF Pending
  <2>2. \A i \in Steps : phase[i] # "done" =>
            IF phase'[i] = "done" THEN result'[i] = "cancelled" ELSE result'[i] = result[i]
    BY <1>9, <2>1, CancelPointwise
  <2>3. \A i \in Steps : result'[i] = "none" <=> phase'[i] # "done"
    BY <1>5, <2>2 DEF ReportInv
  <2>4. \A i \in Pending(bySource') : phase'[i] = "done" => result'[i] = "cancelled"
    BY <1>2, <2>2 DEF Pending
  <2>5. IF stoppedEarly' THEN StopsEarly(bySource') ELSE now' >= WaveTimeout
    BY <1>1, <1>9
  <2>6. NoOrphans'
    BY <1>9 DEF NoOrphans
  <2> QED
    BY <1>6, <1>7, <1>9, <2>3, <2>4, <2>5, <2>6 DEF ReportInv
<1> QED
  BY <1>1, <1>8, <1>9 DEF Collect

LEMMA CutKeepsReports ==
    ASSUME PermitInv, ReportInv, NEW S \in SUBSET Steps, CancelAll(S),
           wave' = "draining" =>
             /\ wave = "waiting" /\ now' >= WaveTimeout /\ ~stoppedEarly' /\ Finished = {},
           wave' \in {"draining", "abandoned"},
           UNCHANGED <<now, stoppedEarly, bySource>>
    PROVE  ReportInv'
<1> USE DEF PermitInv
<1>1. \A i \in Steps :
        /\ phase[i] = "done" => phase'[i] = "done" /\ result'[i] = result[i]
        /\ phase[i] # "done" /\ phase'[i] = "done" => result'[i] = "cancelled"
        /\ phase'[i] # "done" => result'[i] = result[i]
  BY CancelPointwise
<1>2. \A i \in Steps : result'[i] = "none" <=> phase'[i] # "done"
  BY <1>1 DEF ReportInv
<1>3. \A i \in Steps : bySource[i] # Unreported => result'[i] = result[i]
  BY <1>1 DEF ReportedDone
<1>4. FinishedWorkKept' /\ DeadlineFlagHonest'
  <2>1. FinishedWorkKept'
    BY <1>3 DEF ReportInv, FinishedWorkKept
  <2>2. DeadlineFlagHonest'
    BY <1>3 DEF ReportInv, DeadlineFlagHonest
  <2> QED
    BY <2>1, <2>2
<1>5. NoOrphans'
  BY DEF NoOrphans
<1>6. wave' = "draining" => \A i \in Pending(bySource') : phase'[i] = "done" => result'[i] = "cancelled"
  BY <1>1 DEF Pending, Finished
<1> QED
  BY <1>2, <1>4, <1>5, <1>6 DEF ReportInv

LEMMA DrainKeepsReports ==
    ASSUME PermitInv, ReportInv, DrainEnds
    PROVE  ReportInv'
<1> USE DEF PermitInv
<1>1. /\ wave = "draining" /\ wave' = "returned" /\ \A i \in Steps : phase[i] = "done"
      /\ bySource' = [i \in Steps |->
                IF i \in Pending(bySource) THEN Reported("timeout", CutByDeadline)
                                           ELSE bySource[i]]
      /\ UNCHANGED <<now, stoppedEarly, phase, permits, deadline, unwindBy, result>>
  BY DEF DrainEnds, Drained
<1>2. \A i \in Steps : bySource'[i] =
        IF i \in Pending(bySource) THEN Reported("timeout", CutByDeadline) ELSE bySource[i]
  BY <1>1
<1>3. /\ \A i \in Pending(bySource) : result[i] = "cancelled"
      /\ IF stoppedEarly THEN StopsEarly(bySource) ELSE now >= WaveTimeout
  BY <1>1 DEF ReportInv, Pending
<1>4. Reported("timeout", CutByDeadline).reason = "timeout"
      /\ Reported("timeout", CutByDeadline).byDeadline = CutByDeadline
      /\ Reported("timeout", CutByDeadline) # Unreported
  BY DEF Reported, Unreported
<1>5. FinishedWorkKept'
  BY <1>1, <1>2, <1>3, <1>4 DEF ReportInv, FinishedWorkKept
<1>6. StopsEarly(bySource) => StopsEarly(bySource')
  <2>1. SUFFICES ASSUME NEW e \in EarlyStop, bySource[e].reason = "ok"
                 PROVE  StopsEarly(bySource')
    BY DEF StopsEarly
  <2>2. e \in Steps /\ e \notin Pending(bySource)
    BY <2>1, WaveConstants DEF Pending, Unreported
  <2> QED
    BY <1>2, <2>1, <2>2 DEF StopsEarly
<1>7. DeadlineFlagHonest'
  <2>1. SUFFICES ASSUME NEW i \in Steps, result[i] = "cancelled", bySource'[i] # Unreported
                 PROVE  IF bySource'[i].byDeadline THEN now >= WaveTimeout
                                                   ELSE StopsEarly(bySource')
    BY <1>1 DEF DeadlineFlagHonest
  <2>2. CASE i \in Pending(bySource)
    BY <2>2, <1>2, <1>3, <1>4, <1>6 DEF CutByDeadline
  <2>3. CASE i \notin Pending(bySource)
    BY <2>1, <2>3, <1>2, <1>6 DEF ReportInv, DeadlineFlagHonest, Pending
  <2> QED
    BY <2>2, <2>3
<1>8. NoOrphans'
  BY <1>1, <1>2, <1>4 DEF NoOrphans, Pending
<1> QED
  BY <1>1, <1>5, <1>7, <1>8 DEF ReportInv

LEMMA WaveKeepsReports ==
    ASSUME PermitInv, BudgetInv, ReportInv,
           Collect \/ WaveDeadline \/ DrainEnds \/ Abandon \/ Tick
    PROVE  ReportInv'
<1> USE DEF PermitInv
<1>1. CASE Collect
  BY <1>1, CollectKeepsReports
<1>2. CASE WaveDeadline
  <2>1. /\ wave = "waiting" /\ wave' = "draining" /\ now >= WaveTimeout /\ Finished = {}
        /\ CancelAll(Pending(bySource)) /\ UNCHANGED <<now, stoppedEarly, bySource>>
    BY <1>2 DEF WaveDeadline
  <2>2. Pending(bySource) \in SUBSET Steps
    BY DEF Pending
  <2>3. CASE ~stoppedEarly
    BY <2>1, <2>2, <2>3, CutKeepsReports
  <2>4. ~stoppedEarly
    BY <2>1 DEF ReportInv
  <2> QED
    BY <2>3, <2>4
<1>3. CASE DrainEnds
  BY <1>3, DrainKeepsReports
<1>4. CASE Abandon
  <2>1. wave' = "abandoned" /\ UNCHANGED <<now, stoppedEarly, deadline, bySource>>
    BY <1>4 DEF Abandon
  <2>2. CASE CancelAll(Pending(bySource) \ Finished)
    <3>1. Pending(bySource) \ Finished \in SUBSET Steps
      BY DEF Pending
    <3> QED
      BY <3>1, <2>1, <2>2, CutKeepsReports
  <2>3. CASE UNCHANGED <<phase, permits, unwindBy, result>>
    BY <2>1, <2>3 DEF ReportInv, FinishedWorkKept, DeadlineFlagHonest, NoOrphans
  <2> QED
    BY <1>4, <2>2, <2>3 DEF Abandon
<1>5. CASE Tick
  <2>1. /\ now' = now + 1 /\ now \in Nat
        /\ UNCHANGED <<wave, stoppedEarly, phase, permits, deadline, unwindBy, result, bySource>>
    BY <1>5 DEF Tick, TypeOK
  <2>2. now >= WaveTimeout => now' >= WaveTimeout
    BY <2>1, WaveConstants
  <2>3. FinishedWorkKept' /\ NoOrphans'
    BY <2>1 DEF ReportInv, FinishedWorkKept, NoOrphans
  <2>4. DeadlineFlagHonest'
    BY <2>1, <2>2 DEF ReportInv, DeadlineFlagHonest
  <2> QED
    BY <2>1, <2>2, <2>3, <2>4 DEF ReportInv
<1> QED
  BY <1>1, <1>2, <1>3, <1>4, <1>5

\* The three invariants together, which the theorems below project.
WaveInv == PermitInv /\ BudgetInv /\ ReportInv

LEMMA InitWave == Init => WaveInv
BY PermitInit, BudgetInit, ReportInit DEF WaveInv

LEMMA NextKeepsWave ==
    ASSUME WaveInv, [Next]_vars
    PROVE  WaveInv'
<1> USE DEF WaveInv
<1>1. PermitInv'
  BY NextKeepsPermits
<1>2. CASE Next
  BY <1>1, <1>2, TaskKeepsBudgets, WaveKeepsBudgets, TaskKeepsReports, WaveKeepsReports,
     CancelledTaskAbandons DEF Next, LoopStep
<1>3. CASE UNCHANGED vars
  BY <1>1, <1>3 DEF vars, BudgetInv, ReportInv, Pending, FinishedWorkKept,
                    DeadlineFlagHonest, NoOrphans
<1> QED
  BY <1>2, <1>3

LEMMA WaveInvariant == Spec => []WaveInv
BY InitWave, NextKeepsWave, PTL DEF Spec

\* "Hard per-source and overall budgets": the wave is over by its deadline plus
\* one adapter's unwinding, whatever the adapters, the cap and the caller do.
THEOREM BudgetsAreHard == Spec => []HardBudgets
<1>1. WaveInv => HardBudgets
  BY WaveConstants DEF WaveInv, PermitInv, TypeOK, BudgetInv, HardBudgets
<1> QED
  BY <1>1, WaveInvariant, PTL

\* Work that finished is reported as it finished.
THEOREM FinishedWorkIsKept == Spec => []FinishedWorkKept
<1>1. WaveInv => FinishedWorkKept
  BY DEF WaveInv, ReportInv
<1> QED
  BY <1>1, WaveInvariant, PTL

\* was_cancelled_by_deadline is set past the deadline only, and its absence on
\* a cut step means that a success stopped the wave.
THEOREM DeadlineFlagIsHonest == Spec => []DeadlineFlagHonest
<1>1. WaveInv => DeadlineFlagHonest
  BY DEF WaveInv, ReportInv
<1> QED
  BY <1>1, WaveInvariant, PTL

\* A returned wave leaves no task behind and reports every step.
THEOREM NoOrphanIsLeft == Spec => []NoOrphans
<1>1. WaveInv => NoOrphans
  BY DEF WaveInv, ReportInv
<1> QED
  BY <1>1, WaveInvariant, PTL

\* After the cut no step begins its retrieval: every task is done or unwinding,
\* so no permit that comes back finds a taker.
THEOREM NoCallFollowsCut == Spec => NoCallAfterCut
<1>1. WaveInv /\ [Next]_vars
        => [(wave \in {"draining", "returned"}) => StartsNone]_phase
  <2> SUFFICES ASSUME WaveInv, Next, wave \in {"draining", "returned"},
                      NEW i \in Steps, phase[i] # "running"
               PROVE  phase'[i] # "running"
    BY DEF StartsNone, vars
  <2>1. \A j \in Steps : phase[j] \in {"done", "cancelling"}
    BY DEF WaveInv, BudgetInv, ReportInv, NoOrphans
  <2>2. Waiting(phase) = {}
    BY <2>1 DEF Waiting
  <2>3. ASSUME NEW j \in Steps, TaskStep(j) \/ VariantsReturn(j)
        PROVE  phase' = [phase EXCEPT ![j] = "done"]
    <3>1. Waiting([phase EXCEPT ![j] = "done"]) = {}
      BY <2>2 DEF Waiting
    <3> QED
      BY <2>1, <2>3, <3>1 DEF TaskStep, Start, Resume, AcquireTimesOut,
         AdapterTimesOut, Unwound, VariantsReturn, Release, HandOn
  <2>4. CASE \E j \in Steps : TaskStep(j) \/ VariantsReturn(j)
    <3>1. PICK j \in Steps : phase' = [phase EXCEPT ![j] = "done"]
      BY <2>3, <2>4
    <3>2. phase'[i] = phase[i] \/ phase'[i] = "done"
      BY <3>1
    <3> QED
      BY <2>1, <3>2
  <2>5. CASE Collect \/ WaveDeadline \/ DrainEnds \/ Tick
    BY <2>5 DEF Collect, WaveDeadline, DrainEnds, Tick
  <2>6. CASE Abandon
    <3>1. CASE UNCHANGED phase
      BY <3>1
    <3>2. CASE CancelAll(Pending(bySource) \ Finished)
      BY <2>1, <3>2 DEF CancelAll
    <3> QED
      BY <2>6, <3>1, <3>2 DEF Abandon
  <2> QED
    BY <2>4, <2>5, <2>6, CancelledTaskAbandons DEF Next, LoopStep
<1> QED
  BY <1>1, WaveInvariant, PTL DEF Spec, NoCallAfterCut
=============================================================================
