------------------------ MODULE SourceVariants_proofs ------------------------
(***************************************************************************)
(* For all plans, wordings, clocks and unwinding times: a step keeps the   *)
(* budget the wave gives it, keeps the hits it has found, leaves a source  *)
(* alone that refused, says "nothing found" only after every wording, and  *)
(* follows a slice that was cut short by a retry.                          *)
(***************************************************************************)
EXTENDS SourceVariants, Integers, FiniteSetTheorems, SequenceTheorems, TLAPS

-----------------------------------------------------------------------------
(* The budgets *)

\* A budget of the plan is a whole number of ticks.
LEMMA TicksWhole ==
    ASSUME NEW tenths \in Nat, NEW tick \in Nat \ {0}
    PROVE  Ticks(tenths, tick) \in Int
BY DEF Ticks

\* Every plan gives its sources a budget.
LEMMA BudgetWhole ==
    ASSUME NEW c, NEW q
    PROVE  PerSourceTimeout(c, q) \in Nat
BY DEF PerSourceTimeout

\* A walk's budgets are numbers, whatever its step and its variants are.
WalkOK(w) == w.perSource \in Nat /\ w.deadline \in Int

LEMMA LeastBelow ==
    ASSUME NEW a \in Int, NEW b \in Int
    PROVE  Least(a, b) \in Int /\ Least(a, b) <= a
BY DEF Least

\* _variant_timeout_seconds never gives a call more than what is left.
LEMMA SliceWithinBudget ==
    ASSUME NEW w, WalkOK(w), NEW i, NEW left \in Int
    PROVE  Slice(w, i, left) \in Int /\ Slice(w, i, left) <= left
<1>1. /\ TickLength \in Nat \ {0}
      /\ 3 * TickLength \in Nat \ {0}
      /\ 2 * TickLength \in Nat \ {0}
      /\ 100 * TickLength \in Nat \ {0}
      /\ 33 * w.perSource \in Nat
  BY VariantsConstants DEF WalkOK
<1>2. Third(w) \in Int /\ Half(w) \in Int /\ MixedShare(w) \in Int
  BY <1>1, TicksWhole DEF Third, Half, MixedShare, WalkOK
<1>3. /\ Least(left, Third(w)) \in Int /\ Least(left, Third(w)) <= left
      /\ Least(left, Half(w)) \in Int /\ Least(left, Half(w)) <= left
      /\ Least(left, MixedShare(w)) \in Int /\ Least(left, MixedShare(w)) <= left
  BY <1>2, LeastBelow
<1> QED
  BY <1>3 DEF Slice

-----------------------------------------------------------------------------
(* The invariant *)

\* While the loop runs, its reason is one of a failure and the clock is within
\* the budget and one unwinding; a walk that ended is as the properties say.
WalkInv ==
    /\ WalkOK(walk)
    /\ now \in Int
    /\ hits \in BOOLEAN
    /\ reason \in CallFailures
    /\ EndsAsWaveAssumes
    /\ HitsSurvive

LEMMA InitWalk == Init => WalkInv
<1> SUFFICES ASSUME Init PROVE WalkInv
  OBVIOUS
<1>1. \E c, q : /\ walk.perSource = PerSourceTimeout(c, q)
                /\ walk.deadline = Ticks(PerSourceTimeout(c, q), TickLength)
  BY DEF Init
<1>2. walk.perSource \in Nat /\ walk.deadline = Ticks(walk.perSource, TickLength)
  BY <1>1, BudgetWhole
<1>3. WalkOK(walk)
  BY <1>2, TicksWhole, VariantsConstants DEF WalkOK
<1>4. now \in 0..walk.deadline /\ hits = FALSE /\ reason = "no_hits" /\ result = "none"
  BY DEF Init
<1>5. now \in Int /\ now <= walk.deadline + UnwindMax
  BY <1>3, <1>4, VariantsConstants DEF WalkOK
<1>6. ~Answered
  BY <1>4 DEF Answered
<1> QED
  BY <1>3, <1>4, <1>5, <1>6
     DEF WalkInv, EndsAsWaveAssumes, HitsSurvive, CallFailures

\* What a call leaves behind, whether it answered or ran out of its slice.
LEMMA FailedKeeps ==
    ASSUME WalkInv, result = "none", NEW r \in {"timeout", "rate_limited", "adapter_error"},
           Failed(r)
    PROVE  /\ hits' = hits
           /\ reason' = r
           /\ result' \in {"none", IF hits THEN "ok" ELSE r}
BY DEF Failed, ReturnMerged

LEMMA NextWalk == WalkInv /\ [Next]_vars => WalkInv'
<1> SUFFICES ASSUME WalkInv, [Next]_vars PROVE WalkInv'
  OBVIOUS
<1> USE VariantsConstants
<1>1. CASE Call
  <2>1. PICK d \in 0..Slice(walk, at, Left) : now' = now + d
    BY <1>1 DEF Call
  <2>2. Left \in Int /\ WalkOK(walk) /\ walk' = walk /\ result = "none"
    BY <1>1 DEF Call, MayCall, WalkInv, WalkOK, Left
  <2>3. now' \in Int /\ now' <= walk.deadline
    BY <2>1, <2>2, SliceWithinBudget DEF Left, WalkInv, WalkOK
  <2>4. /\ hits' \in BOOLEAN /\ reason' \in CallFailures
        /\ result' \in {"none", "raised"} \/ (result' = "ok" <=> hits')
        /\ result' # "cancelled"
    <3>1. CASE Found
      BY <3>1, <2>2 DEF Found, WalkInv
    <3>2. CASE FoundNothing
      BY <3>2, <2>2 DEF FoundNothing, WalkInv, CallFailures
    <3>3. ASSUME NEW r \in {"timeout", "rate_limited", "adapter_error"}, Failed(r)
          PROVE  <2>4!1 /\ <2>4!2 /\ <2>4!3
      BY <3>3, <2>2, FailedKeeps DEF WalkInv, CallFailures
    <3>4. CASE Raised
      BY <3>4 DEF Raised, WalkInv
    <3> QED
      BY <3>1, <3>2, <3>3, <3>4, <1>1 DEF Call
  <2> QED
    BY <2>2, <2>3, <2>4 DEF WalkInv, WalkOK, EndsAsWaveAssumes, HitsSurvive, Answered
<1>2. CASE CallExpires
  <2>1. PICK u \in 0..UnwindMax : now' = now + Slice(walk, at, Left) + u
    BY <1>2 DEF CallExpires
  <2>2. Left \in Int /\ WalkOK(walk) /\ walk' = walk /\ result = "none" /\ Failed("timeout")
    BY <1>2 DEF CallExpires, MayCall, WalkInv, WalkOK, Left
  <2>3. now' \in Int /\ now' <= walk.deadline + UnwindMax
    BY <2>1, <2>2, SliceWithinBudget DEF Left, WalkInv, WalkOK
  <2>4. /\ hits' = hits
        /\ reason' = "timeout"
        /\ result' \in {"none", IF hits THEN "ok" ELSE "timeout"}
    BY <2>2, FailedKeeps
  <2> QED
    BY <2>2, <2>3, <2>4
       DEF WalkInv, WalkOK, EndsAsWaveAssumes, HitsSurvive, Answered, CallFailures
<1>3. CASE Cut
  <2>1. PICK d \in 0..Slice(walk, at, Left) + 2 * UnwindMax : now' = now + d
    BY <1>3 DEF Cut
  <2>2. Left \in Int /\ WalkOK(walk)
    BY DEF WalkInv, WalkOK, Left
  <2>3. now' \in Int
    BY <2>1, <2>2, SliceWithinBudget DEF WalkInv
  <2> QED
    BY <2>3, <1>3 DEF Cut, WalkInv, WalkOK, EndsAsWaveAssumes, HitsSurvive, Answered
<1>4. CASE Return
  <2>1. /\ result = "none" /\ result' = Verdict
        /\ walk' = walk /\ now' = now /\ hits' = hits /\ reason' = reason
    BY <1>4 DEF Return
  <2>2. Verdict = IF hits THEN "ok" ELSE IF now >= walk.deadline THEN "timeout" ELSE reason
    BY DEF Verdict, Left, WalkInv, WalkOK
  <2> QED
    BY <2>1, <2>2 DEF WalkInv, WalkOK, EndsAsWaveAssumes, HitsSurvive, Answered, CallFailures
<1>5. CASE UNCHANGED vars
  BY <1>5 DEF vars, WalkInv, WalkOK, EndsAsWaveAssumes, HitsSurvive, Answered
<1> QED
  BY <1>1, <1>2, <1>3, <1>4, <1>5 DEF Next

-----------------------------------------------------------------------------

\* The budget FirstWave assumes of a step (HardBudgets there rests on it): slices,
\* retries and unwindings never add up to more than the deadline and one unwinding.
THEOREM WalkKeepsBudget == Spec => []EndsAsWaveAssumes
<1>1. WalkInv => EndsAsWaveAssumes
  BY DEF WalkInv
<1> QED
  BY <1>1, InitWalk, NextWalk, PTL DEF Spec

\* The hits of a variant are returned whatever happens to the later ones.
THEOREM WalkKeepsHits == Spec => []HitsSurvive
<1>1. WalkInv => HitsSurvive
  BY DEF WalkInv
<1> QED
  BY <1>1, InitWalk, NextWalk, PTL DEF Spec

-----------------------------------------------------------------------------
(* Refusals *)

Refusals == {"rate_limited", "adapter_error"}

\* A refused walk is over: a timeout is the only failure that is tried again.
RefusalInv == last.reason \in Refusals => result # "none"

LEMMA NextRefusal == RefusalInv /\ [Next]_vars => RefusalInv'
<1> SUFFICES ASSUME RefusalInv, [Next]_vars PROVE RefusalInv'
  OBVIOUS
<1>1. ASSUME NEW r \in Refusals, Failed(r) PROVE result' # "none"
  <2>1. r # "timeout" /\ r # "none"
    BY DEF Refusals
  <2>2. ~ShouldContinue(walk, at, r, walk.deadline - now')
    BY <2>1 DEF ShouldContinue
  <2>3. result' = IF hits THEN "ok" ELSE r
    BY <1>1, <2>2 DEF Failed, ReturnMerged
  <2> QED BY <2>1, <2>3
<1>2. CASE Call
  <2>1. CASE Ended("ok", FALSE) \/ Ended("no_hits", FALSE) \/ Ended("raised", FALSE)
    BY <2>1 DEF Ended, RefusalInv, Refusals
  <2>2. ASSUME NEW r \in {"timeout", "rate_limited", "adapter_error"},
               Ended(r, FALSE), Failed(r)
        PROVE  RefusalInv'
    BY <2>2, <1>1 DEF Ended, RefusalInv, Refusals
  <2> QED BY <1>2, <2>1, <2>2 DEF Call
<1>3. CASE CallExpires
  BY <1>3 DEF CallExpires, Ended, RefusalInv, Refusals
<1>4. CASE Cut
  BY <1>4 DEF Cut, RefusalInv
<1>5. CASE Return
  BY <1>5 DEF Return, RefusalInv
<1>6. CASE UNCHANGED vars
  BY <1>6 DEF vars, RefusalInv
<1> QED BY <1>2, <1>3, <1>4, <1>5, <1>6 DEF Next

\* _should_continue_after_variant_failure: a source that answered with a rate limit
\* or an error is asked no further wording, in any plan and with any budget left.
THEOREM RefusalEndsWalk == Spec => BacksOff
<1>1. Init => RefusalInv
  BY DEF Init, RefusalInv, Refusals, NoCall
<1>2. RefusalInv /\ [Next]_vars =>
        [last.reason \in {"rate_limited", "adapter_error"} => asked' = asked]_vars
  <2> SUFFICES ASSUME RefusalInv, Next, last.reason \in {"rate_limited", "adapter_error"}
               PROVE  asked' = asked
    OBVIOUS
  <2>1. result # "none"
    BY DEF RefusalInv, Refusals
  <2> QED BY <2>1 DEF Next, Call, CallExpires, Cut, Return, MayCall
<1> QED BY <1>1, <1>2, NextRefusal, PTL DEF Spec, BacksOff

-----------------------------------------------------------------------------
(* The wordings of a step *)

\* The scores order any routes by score, then precedence, and one comes first.
LEMMA FirstRanked ==
    ASSUME NEW scores \in Scores, NEW routes \in SUBSET Routes, routes # {}
    PROVE  RankFirst(scores, routes) \in routes
<1>1. \A r \in Routes : scores[r] \in Nat
  BY DEF Scores
<1>2. "policy" \in Routes /\ "academic" \in Routes /\ "industry" \in Routes
  BY DEF Routes
<1>3. routes \subseteq {"policy", "academic", "industry"}
  BY DEF Routes
<1>4. /\ Precedence["policy"] = 0
      /\ Precedence["academic"] = 1
      /\ Precedence["industry"] = 2
  BY DEF Precedence
<1>5. /\ scores["policy"] \in Nat
      /\ scores["academic"] \in Nat
      /\ scores["industry"] \in Nat
  BY <1>1, <1>2
<1>6. \E r \in routes : \A s \in routes \ {r} : RanksBefore(r, s, scores)
  <2>1. CASE "policy" \in routes
    BY <2>1, <1>3, <1>4, <1>5 DEF RanksBefore
  <2>2. CASE "policy" \notin routes /\ "academic" \in routes
    BY <2>2, <1>3, <1>4, <1>5 DEF RanksBefore
  <2>3. CASE "policy" \notin routes /\ "academic" \notin routes
    BY <2>3, <1>3, <1>4, <1>5 DEF RanksBefore
  <2> QED BY <2>1, <2>2, <2>3
<1> QED BY <1>6 DEF RankFirst

\* classify_query gives a query a route, and a supplement that is a route or none.
LEMMA ClassifiedRoutes ==
    ASSUME NEW c \in Classifications
    PROVE  c.primary \in Routes /\ c.supplement \in Routes \cup {NoRoute}
<1>1. PICK v \in Views : c = Classify(v)
  BY DEF Classifications
<1>2. v.scores \in Scores
  BY DEF Views
<1> DEFINE first == RankFirst(v.scores, Routes)
           second == RankFirst(v.scores, Routes \ {first})
<1>3. first \in Routes
  BY <1>2, FirstRanked DEF Routes
<1>4. Routes \ {first} # {}
  BY DEF Routes
<1>5. second \in Routes
  BY <1>2, <1>4, FirstRanked
<1> HIDE DEF first, second
<1>6. \A s \in Routes \cup {NoRoute} :
          MixOf(first, s).primary \in Routes /\ MixOf(first, s).supplement = s
  BY <1>3 DEF MixOf
<1>7. /\ Concrete(first).primary \in Routes /\ Concrete(first).supplement = NoRoute
      /\ Concrete("policy").primary \in Routes /\ Concrete("policy").supplement = NoRoute
      /\ Concrete("industry").primary \in Routes /\ Concrete("industry").supplement = NoRoute
      /\ MixOf("policy", "industry").primary \in Routes
      /\ MixOf("policy", "industry").supplement \in Routes
      /\ ParallelUpdate.primary \in Routes /\ ParallelUpdate.supplement \in Routes
  BY <1>3 DEF Concrete, MixOf, ParallelUpdate, Routes
<1>8. \/ c \in {MixOf(first, second), MixOf(first, NoRoute)}
      \/ c \in {Concrete("policy"), MixOf("policy", "industry"), Concrete("industry"),
                ParallelUpdate, Concrete(first)}
  BY <1>1 DEF Classify, first, second
<1> QED BY <1>5, <1>6, <1>7, <1>8

\* Filtering a finite sequence leaves a finite one.
LEMMA KeptLength ==
    ASSUME NEW v, Len(v) \in Nat, NEW words
    PROVE  Len(Kept(v, words)) \in Nat
<1> DEFINE places == {i \in 1..Len(v) : v[i] \in words}
<1>1. IsFiniteSet(1..Len(v))
  BY FS_Interval
<1>2. places \subseteq 1..Len(v)
  OBVIOUS
<1>3. Cardinality(places) \in Nat
  BY <1>1, <1>2, FS_Subset, FS_CardinalityType
<1> HIDE DEF places
<1> QED BY <1>3 DEF Kept, places

\* A sort keeps the length.
LEMMA SortLength ==
    ASSUME NEW v, Len(v) \in Nat, NEW key
    PROVE  Len(StableSort(v, key)) \in Nat
BY DEF StableSort

\* build_query_variants lists finitely many wordings for every route.
LEMMA BuiltLength ==
    ASSUME NEW c, NEW route \in Routes, NEW has
    PROVE  Len(BuildQueryVariants(c, route, has)) \in Nat
<1>1. Len(CandidateOrder[route]) \in Nat
  BY DEF CandidateOrder, Routes
<1> DEFINE listed == Kept(CandidateOrder[route], {"original"} \cup has)
<1>2. Len(listed) \in Nat
  BY <1>1, KeptLength
<1>3. VariantBudget(c) \in Nat
  BY DEF VariantBudget
<1> HIDE DEF listed
<1>4. \A n \in Nat : Len(SubSeq(listed, 1, n)) \in Nat
  <2> SUFFICES ASSUME NEW n \in Nat PROVE Len(SubSeq(listed, 1, n)) \in Nat
    OBVIOUS
  <2>1. \A i \in 1..n : listed[i] \in {listed[j] : j \in 1..n}
    OBVIOUS
  <2>2. SubSeq(listed, 1, n) \in Seq({listed[j] : j \in 1..n})
    BY <2>1, SubSeqProperties
  <2> QED BY <2>2
<1> QED BY <1>2, <1>3, <1>4 DEF BuildQueryVariants, listed

\* The wordings a walk may have: their number is one, for every plan, step and query.
LEMMA VariantsLength ==
    ASSUME NEW w, w.step.route \in Routes, NEW has, NEW v \in VariantsOf(w, has)
    PROVE  Len(v) \in Nat
<1> DEFINE built == BuildQueryVariants(w.plan, w.step.route, has)
<1>1. Len(built) \in Nat
  BY BuiltLength
<1> HIDE DEF built
<1>2. Len(Prioritized(w, built)) \in Nat
  <2> USE <1>1, SortLength
  <2>1. CASE w.step.route = "academic"
    BY <2>1 DEF Prioritized
  <2>2. CASE w.step.route = "industry"
    BY <2>2 DEF Prioritized
  <2>3. CASE w.step.route = "policy"
    BY <2>3 DEF Prioritized
  <2> QED BY <2>1, <2>2, <2>3 DEF Routes
<1>3. v \in Deduped(w, Prioritized(w, built))
  BY DEF VariantsOf, built
<1> QED BY <1>2, <1>3, KeptLength DEF Deduped

-----------------------------------------------------------------------------
(* The answer "nothing found" *)

\* The queries whose first "nothing found" ends the walk.
EndsEarly == PrimaryIndustry(walk) /\ walk.marks.early

\* While the loop runs it has asked for every wording before the one it is at; the
\* only break out of it is that of the queries that end early.
ThoroughInv ==
    /\ Len(walk.variants) \in Nat
    /\ at \in Nat \ {0}
    /\ asked \in Nat
    /\ result = "none" => /\ at <= Len(walk.variants) + 1
                          /\ asked = at - 1 \/ EndsEarly
    /\ NothingFoundIsThorough

LEMMA InitThorough == Init => ThoroughInv
<1> SUFFICES ASSUME Init PROVE ThoroughInv
  OBVIOUS
<1>1. PICK c \in Plans : \E s \in StepsFor(c) : \E m, has, budget :
        LET base == [plan |-> c, step |-> s, marks |-> m, perSource |-> budget] IN
        \E v \in VariantsOf(base, has) :
            walk = [plan |-> c, step |-> s, marks |-> m, perSource |-> budget,
                    deadline |-> Ticks(budget, TickLength), variants |-> v]
  BY DEF Init
<1>2. PICK s \in StepsFor(c) : \E m, has, budget :
        \E v \in VariantsOf([plan |-> c, step |-> s, marks |-> m, perSource |-> budget], has) :
            walk = [plan |-> c, step |-> s, marks |-> m, perSource |-> budget,
                    deadline |-> Ticks(budget, TickLength), variants |-> v]
  BY <1>1
<1>3. PICK m, has, budget :
        \E v \in VariantsOf([plan |-> c, step |-> s, marks |-> m, perSource |-> budget], has) :
            walk = [plan |-> c, step |-> s, marks |-> m, perSource |-> budget,
                    deadline |-> Ticks(budget, TickLength), variants |-> v]
  BY <1>2
<1> DEFINE base == [plan |-> c, step |-> s, marks |-> m, perSource |-> budget]
<1>4. PICK v \in VariantsOf(base, has) : walk.variants = v
  BY <1>3
<1>5. c.primary \in Routes /\ c.supplement \in Routes \cup {NoRoute}
  BY ClassifiedRoutes, VariantsConstants
<1>6. s.route \in Routes
  BY <1>5 DEF StepsFor, Step
<1>7. Len(walk.variants) \in Nat
  BY <1>4, <1>6, VariantsLength
<1>8. at = 1 /\ asked = 0 /\ result = "none"
  BY DEF Init
<1> QED BY <1>7, <1>8 DEF ThoroughInv, NothingFoundIsThorough

LEMMA NextThorough == ThoroughInv /\ [Next]_vars => ThoroughInv'
<1> SUFFICES ASSUME ThoroughInv, [Next]_vars PROVE ThoroughInv'
  OBVIOUS
<1> USE DEF ThoroughInv, NothingFoundIsThorough, EndsEarly
\* A call that failed goes on to a wording that is left, or is not "nothing found".
<1>1. ASSUME NEW r \in {"timeout", "rate_limited", "adapter_error"}, NEW expired,
             MayCall, Ended(r, expired), Failed(r), walk' = walk
      PROVE  ThoroughInv'
  <2>1. CASE ShouldContinue(walk, at, r, walk.deadline - now')
    BY <1>1, <2>1 DEF Failed, NextVariant, ShouldContinue, HasLater, Ended, MayCall
  <2>2. CASE ~ShouldContinue(walk, at, r, walk.deadline - now')
    <3>1. result' \in {"ok", r} /\ at' = at
      BY <1>1, <2>2 DEF Failed, ReturnMerged
    <3> QED BY <1>1, <3>1 DEF Ended
  <2> QED BY <2>1, <2>2
<1>2. CASE Call
  <2>1. MayCall /\ walk' = walk
    BY <1>2 DEF Call
  <2>2. CASE Ended("ok", FALSE) /\ Found
    BY <2>1, <2>2 DEF Found, NextVariant, Ended, MayCall
  <2>3. CASE Ended("no_hits", FALSE) /\ FoundNothing
    BY <2>1, <2>3
       DEF FoundNothing, StopAfterFirstNoHits, LoopOver, NextVariant, Ended, MayCall
  <2>4. ASSUME NEW r \in {"timeout", "rate_limited", "adapter_error"},
               Ended(r, FALSE), Failed(r)
        PROVE  ThoroughInv'
    BY <1>1, <2>1, <2>4
  <2>5. CASE Ended("raised", FALSE) /\ Raised
    BY <2>1, <2>5 DEF Raised, Ended, MayCall
  <2> QED BY <1>2, <2>2, <2>3, <2>4, <2>5 DEF Call
<1>3. CASE CallExpires
  BY <1>1, <1>3 DEF CallExpires
<1>4. CASE Cut
  BY <1>4 DEF Cut
<1>5. CASE Return
  BY <1>5 DEF Return, Verdict
<1>6. CASE UNCHANGED vars
  BY <1>6 DEF vars
<1> QED BY <1>2, <1>3, <1>4, <1>5, <1>6 DEF Next

\* "Nothing found" comes back only after every wording of the query was asked, or
\* one of a query that _stop_after_first_no_hits ends early: no failure, no budget
\* and no reordering of the wordings makes the walk say it sooner.
THEOREM NoHitsMeansAllAsked == Spec => []NothingFoundIsThorough
<1>1. ThoroughInv => NothingFoundIsThorough
  BY DEF ThoroughInv
<1> QED BY <1>1, InitThorough, NextThorough, PTL DEF Spec

-----------------------------------------------------------------------------
(* Retries *)

\* A call that ran out of a shortened slice is either followed by another wording,
\* while there is time for one, or was the last.
RetryInv ==
    /\ last.expired /\ result = "none" => at <= Len(walk.variants)
    /\ RetryFollows

\* A slice below what is left is given only where a retry would follow a timeout.
LEMMA ShortSliceRetries ==
    ASSUME NEW w, WalkOK(w), Len(w.variants) \in Nat, NEW i \in 1..Len(w.variants),
           NEW left \in Int, Slice(w, i, left) < left, HasLater(w, i), NEW rest \in Int, rest > 0
    PROVE  ShouldContinue(w, i, "timeout", rest)
<1>1. Len(w.variants) > 1
  BY DEF HasLater
<1>2. Slice(w, i, left) # left
  BY SliceWithinBudget
<1>3. \/ GlossedPair(w, i)
      \/ DocumentOriginal(w, i)
      \/ /\ MixedSupplementalIndustry(w)
         /\ w.variants[i] \in {"original", "industry_cjk_gloss"}
  BY <1>2 DEF Slice
<1> QED BY <1>1, <1>3 DEF ShouldContinue

LEMMA NextRetry == RetryInv /\ ThoroughInv /\ WalkInv /\ [Next]_vars => RetryInv'
<1> SUFFICES ASSUME RetryInv, ThoroughInv, WalkInv, [Next]_vars PROVE RetryInv'
  OBVIOUS
<1> USE VariantsConstants DEF RetryInv, RetryFollows, Answered
<1>1. CASE Call
  <2>1. last'.expired = FALSE
    BY <1>1 DEF Call, Ended
  <2> QED BY <2>1
<1>2. CASE CallExpires
  <2>1. PICK u \in 0..UnwindMax : now' = now + Slice(walk, at, Left) + u
    BY <1>2 DEF CallExpires
  <2>2. /\ walk' = walk /\ result = "none" /\ Failed("timeout")
        /\ at \in 1..Len(walk.variants) /\ Len(walk.variants) \in Nat
    BY <1>2 DEF CallExpires, MayCall, ThoroughInv
  <2>3. Left \in Int /\ Slice(walk, at, Left) \in Int /\ now \in Int /\ walk.deadline \in Int
    BY SliceWithinBudget DEF WalkInv, WalkOK, Left
  <2>4. CASE ShouldContinue(walk, at, "timeout", walk.deadline - now')
    BY <2>2, <2>4 DEF Failed, NextVariant, ShouldContinue, HasLater
  <2>5. CASE ~ShouldContinue(walk, at, "timeout", walk.deadline - now')
    <3>1. result' \in {"ok", "timeout"} /\ at' = at
      BY <2>2, <2>5 DEF Failed, ReturnMerged
    <3>2. Left' \in Int
      BY <2>1, <2>2, <2>3 DEF Left
    <3>3. CASE Left' <= 0
      BY <3>1, <3>3, <3>2
    <3>4. CASE Left' > 0
      <4>1. Slice(walk, at, Left) < Left /\ walk.deadline - now' \in Int /\ walk.deadline - now' > 0
        BY <3>4, <2>1, <2>2, <2>3 DEF Left
      <4>2. ~HasLater(walk, at)
        BY <4>1, <2>2, <2>3, <2>5, ShortSliceRetries DEF WalkInv
      <4> QED BY <3>1, <4>2, <2>2 DEF HasLater
    <3> QED BY <3>2, <3>3, <3>4
  <2> QED BY <2>4, <2>5
<1>3. CASE Cut
  BY <1>3 DEF Cut
<1>4. CASE Return
  <2>1. Left' = Left /\ walk' = walk /\ at' = at /\ last' = last
    BY <1>4 DEF Return, Left
  <2>2. Left \in Int
    BY DEF WalkInv, WalkOK, Left
  <2>3. last.expired => ~(Left > 0)
    BY <1>4, <2>2 DEF Return, ThoroughInv
  <2> QED BY <1>4, <2>1, <2>3 DEF Return
<1>5. CASE UNCHANGED vars
  BY <1>5 DEF vars, Left
<1> QED BY <1>1, <1>2, <1>3, <1>4, <1>5 DEF Next

\* _variant_timeout_seconds and _should_continue_after_variant_failure agree for every
\* plan, query and budget: a call is never cut short of the step's budget to leave time
\* for another wording that is then not asked.
THEOREM CutShortIsRetried == Spec => []RetryFollows
<1>1. Init => RetryInv
  BY DEF Init, NoCall, RetryInv, RetryFollows
<1>2. RetryInv => RetryFollows
  BY DEF RetryInv
<1> QED BY <1>1, <1>2, NextRetry, InitThorough, NextThorough, InitWalk, NextWalk, PTL DEF Spec
=============================================================================
