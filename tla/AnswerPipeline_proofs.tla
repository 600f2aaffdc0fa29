------------------------ MODULE AnswerPipeline_proofs ------------------------
(***************************************************************************)
(* What AnswerPipeline promises, for any number of requests, any budgets   *)
(* and any evidence.  The inductive invariant says of every request how    *)
(* the time it has measured relates to the clock at the stage it is in,    *)
(* and of what evidence its figures and its candidate are.                 *)
(***************************************************************************)
EXTENDS AnswerPipeline, FiniteSetTheorems, TLAPS

\* The constants are natural numbers.
LEMMA Budgets ==
    /\ RequestDeadline \in Nat /\ SynthesisDeadline \in Nat /\ ProbeTimeout \in Nat
    /\ Grace \in Nat /\ MaxProbes \in Nat /\ MinRemaining \in Nat
    /\ MinSynthesis \in Nat /\ Overrun \in Nat
    BY PipelineConstants

\* The time measured so far is the time that has passed; what is awaited ends
\* in time.
OnTime(q, t) ==
    /\ q.stage # "new" => q.start <= t
    /\ q.stage \notin Ended => q.synthesis = 0
    /\ q.stage \in {"retrieving", "retrieved", "gates", "generating"} => q.probed = 0
    /\ q.stage \in {"same_route", "frontier"} /\ ~q.tried => q.probed = 0
    /\ q.stage \in {"retrieved", "gates", "same_route", "frontier"} =>
          q.retrieval + q.probed = t - q.start
    /\ q.stage \in AwaitingProbe =>
          /\ q.since <= t
          /\ q.retrieval + q.probed = q.since - q.start
          /\ q.tried
          /\ q.due <= q.start + RequestDeadline - MinRemaining
    /\ q.stage = "generating" =>
          /\ q.since <= t
          /\ q.retrieval = q.since - q.start
          /\ q.due <= q.start + RequestDeadline
    /\ q.stage \in Ended =>
          /\ q.retrieval + q.synthesis = q.finished - q.start
          /\ q.finished <= t

\* The candidate quotes the evidence, the estimate is of it.
Grounded(q) ==
    /\ q.stage \notin Ended => q.estimated = q.evidence
    /\ q.stage = "retrieving" => q.local = NoAnswer
    /\ q.local.cites \subseteq q.evidence
    /\ q.local.status = "grounded_success" => q.local.cites # {}
    /\ q.via # "none" => q.stage = "answered"
    /\ q.stage = "answered" /\ q.via # "cache" =>
          /\ q.answer.cites \subseteq q.evidence
          /\ q.answer.status = "grounded_success" => q.answer.cites # {}
          /\ q.estimated = q.evidence

Sound(q, t) == q \in RequestStates /\ OnTime(q, t) /\ Grounded(q)

OneRuns == \A r, q \in Requests :
              request[r].stage \in InLoop /\ request[q].stage \in InLoop => r = q

IInv ==
    /\ now \in Nat
    /\ request \in [Requests -> RequestStates]
    /\ \A r \in Requests : Sound(request[r], now)
    /\ cache \in [Keys -> Answers]
    /\ OneRuns

-----------------------------------------------------------------------------

\* Answers built by the helpers are answers.
LEMMA AnswerTypes ==
    /\ NoAnswer \in Answers
    /\ \A s \in Statuses, c \in SUBSET Records, f, l \in BOOLEAN :
           /\ Answer(s, c, f, l) \in Answers
           /\ Answer(s, c, f, l).status = s
           /\ Answer(s, c, f, l).cites = c
           /\ Answer(s, c, f, l).clean = f
           /\ Answer(s, c, f, l).long = l
    BY DEF NoAnswer, Answer, Answers, Statuses

\* What the helpers choose from quotes the evidence.
LEMMA InsufficientTypes ==
    ASSUME NEW e \in SUBSET Records, NEW a \in Insufficient(e)
    PROVE  /\ a \in Answers /\ a.cites \subseteq e
           /\ a.status = "insufficient_evidence"
    <1>1. PICK c \in SUBSET e : a = Answer("insufficient_evidence", c, FALSE, FALSE)
        BY DEF Insufficient, Quotable
    <1>2. c \in SUBSET Records
        OBVIOUS
    <1> QED BY <1>1, <1>2 DEF Answer, Answers, Statuses

\* A local candidate quotes some of the evidence.
LEMMA CandidateTypes ==
    ASSUME NEW s, NEW e \in SUBSET Records, NEW a \in LocalCandidates(s, e)
    PROVE  /\ a \in Answers /\ a.cites \subseteq e /\ a.cites # {}
    <1>1. a \in Insufficient(e) \cup
              [status : {"grounded_success"}, cites : SUBSET e,
               clean : BOOLEAN, long : BOOLEAN]
          /\ a.cites # {}
        BY DEF LocalCandidates
    <1>2. CASE a \in Insufficient(e)
        BY <1>1, <1>2, InsufficientTypes
    <1>3. CASE a \in [status : {"grounded_success"}, cites : SUBSET e,
                      clean : BOOLEAN, long : BOOLEAN]
        BY <1>1, <1>3 DEF Answers, Statuses
    <1> QED BY <1>1, <1>2, <1>3

\* So does a grounded draft.
LEMMA DraftTypes ==
    ASSUME NEW q \in RequestStates, NEW a \in Drafted(q)
    PROVE  /\ a \in Answers /\ a.cites \subseteq q.evidence
           /\ a.status = "grounded_success" => a.cites # {}
    <1>0. q.evidence \in SUBSET Records
        BY DEF RequestStates
    <1>1. CASE a \in Insufficient(q.evidence)
        BY <1>0, <1>1, InsufficientTypes
    <1>2. CASE a \in [status : {"grounded_success"}, cites : SUBSET q.evidence,
                      clean : BOOLEAN, long : BOOLEAN] /\ a.cites # {}
        BY <1>0, <1>2 DEF Answers, Statuses
    <1> QED BY <1>1, <1>2 DEF Drafted

\* A request that ends with an answer on its evidence, at the time it has
\* measured, is sound.
LEMMA EndingSound ==
    ASSUME NEW t \in Nat, now = t,
           NEW q \in RequestStates, NEW a \in Answers, NEW v \in {"cache", "pipeline", "cap"},
           q.retrieval + q.synthesis = t - q.start, q.start <= t,
           v # "cache" => /\ a.cites \subseteq q.evidence
                          /\ a.status = "grounded_success" => a.cites # {}
                          /\ q.estimated = q.evidence
    PROVE  /\ Sound(Ending(q, a, v), t)
           /\ Ending(q, a, v).stage = "answered" /\ Ending(q, a, v).key = q.key
           /\ Ending(q, a, v).answer = a /\ Ending(q, a, v).via = v
           /\ Ending(q, a, v).finished = t /\ Ending(q, a, v).start = q.start
    <1> DEFINE e == Ending(q, a, v)
    <1>1. e \in RequestStates
        BY AnswerTypes, Budgets DEF Ending, RequestStates, Ended
    <1>2. /\ e.stage = "answered" /\ e.answer = a /\ e.via = v /\ e.finished = t
          /\ e.start = q.start /\ e.retrieval = q.retrieval /\ e.synthesis = q.synthesis
          /\ e.evidence = q.evidence /\ e.estimated = q.estimated /\ e.local = NoAnswer
          /\ e.probed = 0 /\ e.key = q.key
        BY DEF Ending, RequestStates
    <1>3. OnTime(e, t)
        BY <1>2 DEF OnTime, Ended, AwaitingProbe
    <1>4. Grounded(e)
        BY <1>2 DEF Grounded, Ended, NoAnswer, Answer
    <1> QED BY <1>1, <1>2, <1>3, <1>4 DEF Sound

\* A step that sets one request keeps the others.
LEMMA SetSound ==
    ASSUME IInv, NEW r \in Requests, NEW new, Set(r, new), now' = now,
           Sound(new, now), cache' \in [Keys -> Answers],
           new.stage \in InLoop => LoopFree \/ request[r].stage \in InLoop
    PROVE  IInv'
    <1>1. request' \in [Requests -> RequestStates]
        BY DEF IInv, Set, Sound
    <1>2. /\ request'[r] = new
          /\ \A q \in Requests \ {r} : request'[q] = request[q]
        BY DEF IInv, Set
    <1>3. \A q \in Requests : Sound(request'[q], now)
        BY <1>2 DEF IInv
    <1>4. OneRuns'
        BY <1>2 DEF IInv, OneRuns, LoopFree
    <1> QED BY <1>1, <1>3, <1>4 DEF IInv

\* Ending a request keeps the invariant.
LEMMA DeliverSound ==
    ASSUME IInv, NEW r \in Requests, NEW q \in RequestStates, NEW a \in Answers,
           NEW v \in {"cache", "pipeline", "cap"},
           q.retrieval + q.synthesis = now - q.start, q.start <= now,
           v # "cache" => /\ a.cites \subseteq q.evidence
                          /\ a.status = "grounded_success" => a.cites # {}
                          /\ q.estimated = q.evidence,
           Set(r, Ending(q, a, v)), now' = now, cache' \in [Keys -> Answers]
    PROVE  IInv'
    <1>1. now \in Nat
        BY DEF IInv
    <1>2. Sound(Ending(q, a, v), now) /\ Ending(q, a, v).stage = "answered"
        BY <1>1, EndingSound
    <1>3. Ending(q, a, v).stage \notin InLoop
        BY <1>2 DEF InLoop
    <1> QED BY <1>2, <1>3, SetSound DEF IInv

\* What a request ready to end at this moment must be.
Ready(q) ==
    /\ q \in RequestStates
    /\ q.retrieval + q.synthesis = now - q.start /\ q.start <= now
    /\ q.estimated = q.evidence

Fits(q, a) ==
    /\ a \in Answers /\ a.cites \subseteq q.evidence
    /\ a.status = "grounded_success" => a.cites # {}

\* A ready request ends with a fitting answer, cached or not.
LEMMA DeliverKeeps ==
    ASSUME IInv, NEW r \in Requests, NEW q, NEW a, Ready(q), Fits(q, a), Deliver(r, q, a)
    PROVE  IInv'
    <1>1. cache' \in [Keys -> Answers]
        BY DEF Deliver, Keep, IInv
    <1> QED BY <1>1, DeliverSound DEF Ready, Fits, Deliver, Keep

\* The same when the answer may be cached.
LEMMA CacheKeeps ==
    ASSUME IInv, NEW r \in Requests, NEW q, NEW a, Ready(q), Fits(q, a),
           DeliverAndCache(r, q, a)
    PROVE  IInv'
    <1>1. cache' \in [Keys -> Answers]
        BY DEF DeliverAndCache, IInv, Ready, Fits, RequestStates
    <1> QED BY <1>1, DeliverSound DEF Ready, Fits, DeliverAndCache

\* A request that has the loop is ready to end.
LEMMA LoopReady ==
    ASSUME IInv, NEW r \in Requests,
           request[r].stage \in {"retrieved", "gates"}
    PROVE  /\ Ready(request[r])
           /\ \A p \in {"request", "synthesis", "answer_tokens"} :
                  Ready([request[r] EXCEPT !.phase = p])
    <1> DEFINE q == request[r]
    <1>1. q \in RequestStates /\ OnTime(q, now) /\ Grounded(q) /\ now \in Nat
        BY DEF IInv, Sound
    <1>2. Ready(q)
        BY <1>1 DEF Ready, OnTime, Grounded, Ended, RequestStates
    <1>3. ASSUME NEW p \in {"request", "synthesis", "answer_tokens"}
          PROVE  Ready([q EXCEPT !.phase = p])
        BY <1>2 DEF Ready, RequestStates
    <1> QED BY <1>2, <1>3

\* Once its probes are charged to retrieval it is ready, on the new evidence.
LEMMA ChargedReady ==
    ASSUME IInv, NEW r \in Requests, NEW m \in SUBSET Records,
           request[r].stage \in {"same_route", "frontier"}
    PROVE  /\ Ready(Charged(request[r], m))
           /\ Charged(request[r], m).evidence = m
           /\ Charged(request[r], m).status = request[r].status
    <1> DEFINE q == request[r]
    <1>1. q \in RequestStates /\ OnTime(q, now) /\ now \in Nat
        BY DEF IInv, Sound
    <1>2. SoFar(q) \in Nat /\ SoFar(q) = now - q.start /\ q.synthesis = 0 /\ q.start <= now
        BY <1>1 DEF OnTime, Ended, SoFar, RequestStates
    <1>3. Charged(q, m) \in RequestStates
        BY <1>1, <1>2 DEF Charged, RequestStates
    <1>4. /\ Charged(q, m).retrieval = SoFar(q) /\ Charged(q, m).synthesis = q.synthesis
          /\ Charged(q, m).start = q.start /\ Charged(q, m).evidence = m
          /\ Charged(q, m).estimated = m /\ Charged(q, m).status = q.status
        BY <1>1 DEF Charged, RequestStates
    <1> QED BY <1>1, <1>2, <1>3, <1>4 DEF Ready, RequestStates

\* Once its generation is timed it is ready.
LEMMA TimedReady ==
    ASSUME IInv, NEW r \in Requests, request[r].stage = "generating"
    PROVE  /\ Ready(Timed(request[r]))
           /\ \A p \in {"request", "synthesis", "answer_tokens"} :
                  Ready([Timed(request[r]) EXCEPT !.phase = p])
           /\ Timed(request[r]).evidence = request[r].evidence
    <1> DEFINE q == request[r]
               z == Timed(q)
    <1>1. q \in RequestStates /\ OnTime(q, now) /\ Grounded(q) /\ now \in Nat
        BY DEF IInv, Sound
    <1>2. q.since <= now /\ q.retrieval = q.since - q.start /\ q.start <= now
          /\ q.estimated = q.evidence
        BY <1>1 DEF OnTime, Grounded, Ended
    <1>3. now - q.since \in Nat
        BY <1>1, <1>2 DEF RequestStates
    <1>4. z \in RequestStates
        BY <1>1, <1>3 DEF Timed, RequestStates
    <1>5. /\ z.retrieval = q.retrieval /\ z.synthesis = now - q.since /\ z.start = q.start
          /\ z.evidence = q.evidence /\ z.estimated = q.estimated
        BY <1>1 DEF Timed, RequestStates
    <1>6. Ready(z)
        BY <1>1, <1>2, <1>4, <1>5 DEF Ready, RequestStates
    <1>7. ASSUME NEW p \in {"request", "synthesis", "answer_tokens"}
          PROVE  Ready([z EXCEPT !.phase = p])
        BY <1>6 DEF Ready, RequestStates
    <1> QED BY <1>5, <1>6, <1>7

\* An answer made of the evidence, and a candidate, fit where they are delivered.
LEMMA InsufficientFits ==
    ASSUME NEW q, q.evidence \in SUBSET Records, NEW a \in Insufficient(q.evidence)
    PROVE  Fits(q, a)
    BY InsufficientTypes DEF Fits

\* The same of a local candidate.
LEMMA CandidateFits ==
    ASSUME NEW q, q.evidence \in SUBSET Records, NEW s, NEW a \in LocalCandidates(s, q.evidence)
    PROVE  Fits(q, a)
    BY CandidateTypes DEF Fits

-----------------------------------------------------------------------------
(* One lemma per way a request goes on *)

\* A hit is the answer; a miss starts the retrieval.
LEMMA ArriveKeeps ==
    ASSUME IInv, NEW r \in Requests, NEW k \in Keys, Arrive(r, k)
    PROVE  IInv'
    <1> DEFINE q == [New EXCEPT !.key = k, !.start = now]
    <1>1. now \in Nat /\ cache \in [Keys -> Answers] /\ now' = now /\ cache' = cache
        BY DEF IInv, Arrive, Keep
    <1>2. New \in RequestStates
        BY AnswerTypes, Budgets, PipelineConstants DEF New, RequestStates
    <1>3. q \in RequestStates /\ q.retrieval = 0 /\ q.synthesis = 0 /\ q.start = now
        BY <1>1, <1>2 DEF New, RequestStates
    <1>4. Entry(k) \in Answers
        BY <1>1 DEF Entry
    <1>5. CASE Set(r, Ending(q, Entry(k), "cache"))
        <2>1. q.retrieval + q.synthesis = now - q.start /\ q.start <= now
            BY <1>1, <1>3
        <2> HIDE DEF q
        <2> QED BY <1>1, <1>3, <1>4, <1>5, <2>1, DeliverSound
    <1>6. CASE Set(r, [q EXCEPT !.stage = "retrieving"])
        <2> DEFINE z == [q EXCEPT !.stage = "retrieving"]
        <2>1. z \in RequestStates
            BY <1>3 DEF RequestStates, Awaiting
        <2>2. /\ z.stage = "retrieving" /\ z.start = now /\ z.synthesis = 0 /\ z.probed = 0
              /\ z.estimated = {} /\ z.evidence = {} /\ z.local = NoAnswer /\ z.via = "none"
            BY <1>1 DEF New
        <2>3. OnTime(z, now)
            BY <1>1, <2>2 DEF OnTime, AwaitingProbe, Ended
        <2>4. Grounded(z)
            BY <2>2 DEF Grounded, NoAnswer, Answer
        <2> QED BY <1>1, <1>6, <2>1, <2>2, <2>3, <2>4, SetSound DEF Sound, InLoop
    <1> QED BY <1>5, <1>6 DEF Arrive

\* The retrieval is measured from the arrival.
LEMMA RetrievalKeeps ==
    ASSUME IInv, NEW r \in Requests, NEW s \in {"success", "partial", "failure_gaps"},
           NEW e \in SUBSET Records, RetrievalReturns(r, s, e)
    PROVE  IInv'
    <1> DEFINE q == request[r]
               z == [q EXCEPT !.stage = "retrieved", !.status = s, !.evidence = e,
                              !.estimated = e, !.retrieval = now - q.start]
    <1>1. /\ now \in Nat /\ q \in RequestStates /\ OnTime(q, now) /\ Grounded(q)
          /\ q.stage = "retrieving" /\ LoopFree /\ Set(r, z)
          /\ now' = now /\ cache' \in [Keys -> Answers]
        BY DEF IInv, Sound, RetrievalReturns, Keep, At
    <1>2. q.start <= now /\ q.synthesis = 0 /\ q.probed = 0
        BY <1>1 DEF OnTime, Ended
    <1>3. now - q.start \in Nat
        BY <1>1, <1>2 DEF RequestStates
    <1>4. z \in RequestStates
        BY <1>1, <1>3 DEF RequestStates, InLoop
    <1>5. /\ z.stage = "retrieved" /\ z.start = q.start /\ z.synthesis = 0 /\ z.probed = 0
          /\ z.retrieval = now - q.start /\ z.estimated = e /\ z.evidence = e
          /\ z.local = q.local /\ z.via = q.via
        BY <1>1, <1>2 DEF RequestStates
    <1>6. OnTime(z, now)
        BY <1>1, <1>2, <1>3, <1>5 DEF OnTime, AwaitingProbe, Ended
    <1>7. Grounded(z)
        BY <1>1, <1>5 DEF Grounded, Ended, NoAnswer, Answer
    <1> QED BY <1>1, <1>4, <1>6, <1>7, SetSound DEF Sound

\* A request given up reports no evidence.
LEMMA CapKeeps ==
    ASSUME IInv, NEW r \in Requests, CapFires(r)
    PROVE  IInv'
    <1> DEFINE q == request[r]
               z == [Dropped(q) EXCEPT !.phase = "request"]
               a == RetrievalFailure
    <1>1. /\ now \in Nat /\ q \in RequestStates /\ OnTime(q, now)
          /\ q.stage \in Awaiting /\ Set(r, Ending(z, a, "cap"))
          /\ now' = now /\ cache' \in [Keys -> Answers]
        BY DEF IInv, Sound, CapFires, Keep, Capped
    <1>2. q.start <= now /\ q.synthesis = 0
        BY <1>1 DEF OnTime, Ended, Awaiting, AwaitingProbe
    <1>3. now - q.start \in Nat
        BY <1>1, <1>2 DEF RequestStates
    <1>4. z \in RequestStates
        BY <1>1, <1>3 DEF RequestStates, Dropped
    <1>5. /\ z.start = q.start /\ z.synthesis = 0 /\ z.retrieval = now - q.start
          /\ z.estimated = {} /\ z.evidence = {}
        BY <1>1, <1>2 DEF RequestStates, Dropped
    <1>6. a \in Answers /\ a.cites = {} /\ a.status # "grounded_success"
        BY DEF RetrievalFailure, Answer, Answers, Statuses
    <1>7. z.retrieval + z.synthesis = now - z.start
        BY <1>1, <1>3, <1>5
    <1> QED BY <1>1, <1>2, <1>4, <1>5, <1>6, <1>7, DeliverSound

\* What IInv says of a request, for the steps below.
LEMMA Facts ==
    ASSUME IInv, NEW r \in Requests
    PROVE  /\ now \in Nat /\ request[r] \in RequestStates /\ cache \in [Keys -> Answers]
           /\ OnTime(request[r], now) /\ Grounded(request[r])
           /\ request[r].evidence \in SUBSET Records
    BY DEF IInv, Sound, RequestStates

\* A request that is ready to end may raise instead.
LEMMA RaiseKeeps ==
    ASSUME IInv, NEW r \in Requests, NEW q, Ready(q), Raise(r, q)
    PROVE  IInv'
    <1> DEFINE e == Ending(q, NoAnswer, "none")
               x == [e EXCEPT !.stage = "raised"]
    <1>1. /\ Set(r, x) /\ now' = now /\ cache' = cache
          /\ now \in Nat /\ cache \in [Keys -> Answers]
        BY DEF Raise, Keep, IInv
    <1>2. e \in RequestStates
        BY <1>1, AnswerTypes, Budgets DEF Ready, Ending, RequestStates, Ended
    <1>3. x \in RequestStates
        BY <1>2 DEF RequestStates, Ended
    <1>4. /\ x.stage = "raised" /\ x.via = "none" /\ x.finished = now
          /\ x.start = q.start /\ x.retrieval = q.retrieval
          /\ x.synthesis = q.synthesis /\ x.local = NoAnswer
        BY DEF Ending
    <1>5. OnTime(x, now)
        BY <1>1, <1>4 DEF Ready, OnTime, AwaitingProbe, Ended
    <1>6. Grounded(x)
        BY <1>4 DEF Grounded, Ended, NoAnswer, Answer
    <1>7. x.stage \notin InLoop
        BY <1>4 DEF InLoop
    <1> HIDE DEF x
    <1> QED BY <1>1, <1>3, <1>5, <1>6, <1>7, SetSound DEF Sound

\* Retrieval, or a probe, raises.
LEMMA AwaitedRaises ==
    ASSUME IInv, NEW r \in Requests, RetrievalRaises(r) \/ ProbeRaises(r)
    PROVE  IInv'
    <1> DEFINE q == request[r]
               z == Dropped(q)
    <1>1. /\ now \in Nat /\ q \in RequestStates /\ OnTime(q, now)
        BY Facts
    <1>2. /\ q.stage \in Awaiting /\ Raise(r, z)
        BY DEF RetrievalRaises, ProbeRaises, Awaiting, At
    <1>3. q.start <= now /\ q.synthesis = 0
        BY <1>1, <1>2 DEF OnTime, Ended, Awaiting, AwaitingProbe
    <1>4. now - q.start \in Nat
        BY <1>1, <1>3 DEF RequestStates
    <1>5. z \in RequestStates
        BY <1>1, <1>4 DEF RequestStates, Dropped
    <1>6. /\ z.start = q.start /\ z.synthesis = 0 /\ z.retrieval = now - q.start
          /\ z.estimated = z.evidence
        BY <1>1, <1>3 DEF RequestStates, Dropped
    <1>7. Ready(z)
        BY <1>1, <1>3, <1>4, <1>5, <1>6 DEF Ready
    <1> HIDE DEF z
    <1> QED BY <1>2, <1>7, RaiseKeeps

\* The first answers and the ways on from them.
LEMMA RetrievedKeeps ==
    ASSUME IInv, NEW r \in Requests,
           \/ AnswerNothing(r)
           \/ \E a \in Answers : AnswerLocally(r, a) \/ Enrich(r, a)
           \/ SeekCoverage(r) \/ GoOn(r)
    PROVE  IInv'
    <1> DEFINE q == request[r]
    <1>1. /\ now \in Nat /\ q \in RequestStates /\ cache \in [Keys -> Answers]
          /\ OnTime(q, now) /\ Grounded(q) /\ q.evidence \in SUBSET Records
        BY Facts
    <1>2. q.stage = "retrieved"
        BY DEF AnswerNothing, AnswerLocally, Enrich, SeekCoverage, GoOn, At
    <1>3. Ready(q) /\ q.stage \in InLoop
        BY <1>2, LoopReady DEF InLoop
    <1>4. /\ q.start <= now /\ q.synthesis = 0 /\ q.probed = 0
          /\ q.retrieval + q.probed = now - q.start /\ q.estimated = q.evidence
          /\ q.via = "none"
        BY <1>1, <1>2 DEF OnTime, Grounded, Ended
    <1>5. CASE AnswerNothing(r)
        <2>1. PICK a \in {RetrievalFailure, AcademicNoSupport} : Deliver(r, q, a)
            BY <1>5 DEF AnswerNothing
        <2>2. /\ RetrievalFailure \in Answers /\ AcademicNoSupport \in Answers
              /\ RetrievalFailure.cites = {} /\ AcademicNoSupport.cites = {}
              /\ RetrievalFailure.status # "grounded_success"
              /\ AcademicNoSupport.status # "grounded_success"
            BY DEF RetrievalFailure, AcademicNoSupport, Answer, Answers, Statuses
        <2>3. a = RetrievalFailure \/ a = AcademicNoSupport
            OBVIOUS
        <2>4. Fits(q, a)
            BY <2>2, <2>3 DEF Fits
        <2> QED BY <1>3, <2>1, <2>4, DeliverKeeps
    <1>6. ASSUME NEW a \in Answers, AnswerLocally(r, a)
          PROVE  IInv'
        <2>1. Fits(q, a)
            BY <1>1, <1>6, CandidateFits DEF AnswerLocally
        <2> QED BY <1>3, <1>6, <2>1, CacheKeeps DEF AnswerLocally
    <1>7. ASSUME NEW a \in Answers, Enrich(r, a)
          PROVE  IInv'
        <2> DEFINE z == [q EXCEPT !.stage = "same_route", !.local = a, !.left = MaxProbes]
        <2>1. Fits(q, a)
            BY <1>1, <1>7, CandidateFits DEF Enrich
        <2>2. z \in RequestStates
            <3>1. "same_route" \in InLoop /\ MaxProbes \in 0..MaxProbes
                BY Budgets DEF InLoop
            <3> QED BY <1>1, <3>1 DEF RequestStates
        <2>3. /\ z.stage = "same_route" /\ z.start = q.start /\ z.synthesis = 0 /\ z.probed = 0
              /\ z.retrieval = q.retrieval /\ z.estimated = q.evidence
              /\ z.evidence = q.evidence /\ z.local = a /\ z.via = "none"
            BY <1>1, <1>4 DEF RequestStates
        <2>4. OnTime(z, now)
            BY <1>1, <1>4, <2>3 DEF OnTime, AwaitingProbe, Ended, RequestStates
        <2>5. Grounded(z)
            BY <2>1, <2>3 DEF Grounded, Fits
        <2> QED BY <1>1, <1>3, <1>7, <2>2, <2>4, <2>5, SetSound DEF Enrich, Keep, Sound
    <1>8. CASE SeekCoverage(r)
        <2> DEFINE z == [q EXCEPT !.stage = "frontier", !.left = MaxProbes]
        <2>1. CASE Set(r, z) /\ Keep
            <3>1. z \in RequestStates
                <4>1. "frontier" \in InLoop /\ MaxProbes \in 0..MaxProbes
                    BY Budgets DEF InLoop
                <4> QED BY <1>1, <4>1 DEF RequestStates
            <3>2. /\ z.stage = "frontier" /\ z.start = q.start /\ z.synthesis = 0
                  /\ z.probed = 0 /\ z.retrieval = q.retrieval /\ z.estimated = q.evidence
                  /\ z.evidence = q.evidence /\ z.local = q.local /\ z.via = "none"
                BY <1>1, <1>4 DEF RequestStates
            <3>3. OnTime(z, now)
                BY <1>1, <1>4, <3>2 DEF OnTime, AwaitingProbe, Ended, RequestStates
            <3>4. Grounded(z)
                BY <1>1, <3>2 DEF Grounded
            <3> QED BY <1>1, <1>3, <2>1, <3>1, <3>3, <3>4, SetSound DEF Keep, Sound
        <2>2. CASE \E a \in Insufficient(q.evidence) : Deliver(r, q, a)
            BY <1>1, <1>3, <2>2, InsufficientFits, DeliverKeeps
        <2> QED BY <1>8, <2>1, <2>2 DEF SeekCoverage, MayLackCoverage
    <1>9. CASE GoOn(r)
        <2> DEFINE z == [q EXCEPT !.stage = "gates"]
        <2>1. z \in RequestStates
            BY <1>1 DEF RequestStates, InLoop
        <2>2. /\ z.stage = "gates" /\ z.start = q.start /\ z.synthesis = 0
              /\ z.probed = 0 /\ z.retrieval = q.retrieval /\ z.estimated = q.evidence
              /\ z.evidence = q.evidence /\ z.local = q.local /\ z.via = "none"
            BY <1>1, <1>4 DEF RequestStates
        <2>3. OnTime(z, now)
            BY <1>1, <1>4, <2>2 DEF OnTime, AwaitingProbe, Ended, RequestStates
        <2>4. Grounded(z)
            BY <1>1, <2>2 DEF Grounded
        <2> QED BY <1>1, <1>3, <1>9, <2>1, <2>3, <2>4, SetSound DEF GoOn, Keep, Sound
    <1> QED BY <1>5, <1>6, <1>7, <1>8, <1>9

\* A probe, its end and its being skipped.
LEMMA ProbeKeeps ==
    ASSUME IInv, NEW r \in Requests,
           \/ SkipProbe(r) \/ Probe(r) \/ FrontierUntried(r)
           \/ \E hits \in SUBSET Records : ProbeReturns(r, hits)
    PROVE  IInv'
    <1> DEFINE q == request[r]
    <1>1. /\ now \in Nat /\ q \in RequestStates /\ cache \in [Keys -> Answers]
          /\ OnTime(q, now) /\ Grounded(q) /\ q.evidence \in SUBSET Records
        BY Facts
    <1>2. now' = now /\ cache' \in [Keys -> Answers]
        BY <1>1 DEF SkipProbe, Probe, FrontierUntried, ProbeReturns, Keep
    <1>3. CASE SkipProbe(r)
        <2> DEFINE z == [q EXCEPT !.left = @ - 1]
        <2>1. /\ q.stage \in {"same_route", "frontier"} /\ q.left > 0 /\ Set(r, z)
            BY <1>3 DEF SkipProbe, MayProbe
        <2>2. z \in RequestStates
            BY <1>1, <2>1, Budgets DEF RequestStates
        <2>3. OnTime(z, now) /\ Grounded(z)
            BY <1>1 DEF OnTime, Grounded, RequestStates
        <2> QED BY <1>2, <2>1, <2>2, <2>3, SetSound DEF Sound, InLoop
    <1>4. CASE Probe(r)
        <2> DEFINE z == [q EXCEPT !.stage = IF @ = "same_route" THEN "same_route_probe"
                                             ELSE "frontier_probe",
                                  !.left = @ - 1, !.tried = TRUE,
                                  !.since = now, !.due = now + NextTimeout(q)]
        <2>1. /\ q.stage \in {"same_route", "frontier"} /\ q.left > 0 /\ Set(r, z)
              /\ NextTimeout(q) > 0
            BY <1>4 DEF Probe, MayProbe
        <2>2. /\ q.start <= now /\ q.synthesis = 0 /\ SoFar(q) = now - q.start
              /\ SoFar(q) \in Nat
            BY <1>1, <2>1 DEF OnTime, Ended, SoFar, RequestStates
        <2>3. RemainingRequest(SoFar(q)) \in Nat
            BY <2>2, Budgets DEF RemainingRequest
        <2>4. /\ NextTimeout(q) \in Int
              /\ NextTimeout(q) <= RemainingRequest(SoFar(q)) - MinRemaining
            BY <2>3, Budgets DEF NextTimeout, Lesser
        <2>5. RemainingRequest(SoFar(q)) = RequestDeadline - SoFar(q)
            BY <2>1, <2>2, <2>4, Budgets DEF RemainingRequest
        <2>6. now + NextTimeout(q) \in Nat
              /\ now + NextTimeout(q) <= q.start + RequestDeadline - MinRemaining
            BY <1>1, <2>1, <2>2, <2>4, <2>5, Budgets DEF RequestStates
        <2>7. z \in RequestStates
            <3>1. q.left - 1 \in 0..MaxProbes
                BY <1>1, <2>1, Budgets DEF RequestStates
            <3>2. "same_route_probe" \in Awaiting /\ "frontier_probe" \in Awaiting
                BY DEF Awaiting, AwaitingProbe
            <3>3. ASSUME NEW s \in Awaiting, NEW n \in 0..MaxProbes, NEW d \in Nat
                  PROVE  [q EXCEPT !.stage = s, !.left = n, !.tried = TRUE,
                                   !.since = now, !.due = d] \in RequestStates
                BY <1>1, <3>3 DEF RequestStates
            <3> QED BY <2>6, <3>1, <3>2, <3>3
        <2>8. /\ z.stage \in AwaitingProbe /\ z.start = q.start /\ z.synthesis = 0
              /\ z.probed = q.probed /\ z.retrieval = q.retrieval /\ z.since = now
              /\ z.due = now + NextTimeout(q) /\ z.tried
              /\ z.estimated = q.estimated /\ z.evidence = q.evidence
              /\ z.local = q.local /\ z.via = q.via
            BY <1>1, <2>2 DEF RequestStates, AwaitingProbe
        <2>9. OnTime(z, now)
            BY <1>1, <2>2, <2>6, <2>8 DEF OnTime, AwaitingProbe, Ended, SoFar
        <2>10. Grounded(z)
            BY <1>1, <2>1, <2>8 DEF Grounded, AwaitingProbe, Ended
        <2>11. z.stage \notin InLoop
            BY <2>8 DEF InLoop, AwaitingProbe
        <2> QED BY <1>2, <2>1, <2>7, <2>9, <2>10, <2>11, SetSound DEF Sound
    <1>5. CASE FrontierUntried(r)
        <2> DEFINE z == [q EXCEPT !.stage = "gates"]
        <2>1. /\ q.stage = "frontier" /\ ~q.tried /\ Set(r, z) /\ q.stage \in InLoop
            BY <1>5 DEF FrontierUntried, ProbesOver, At, InLoop
        <2>2. /\ q.start <= now /\ q.synthesis = 0 /\ q.probed = 0
              /\ q.retrieval + q.probed = now - q.start /\ q.via = "none"
              /\ q.estimated = q.evidence
            BY <1>1, <2>1 DEF OnTime, Ended, Grounded
        <2>3. z \in RequestStates
            BY <1>1 DEF RequestStates, InLoop
        <2>4. /\ z.stage = "gates" /\ z.start = q.start /\ z.synthesis = 0
              /\ z.probed = 0 /\ z.retrieval = q.retrieval /\ z.estimated = q.evidence
              /\ z.evidence = q.evidence /\ z.local = q.local /\ z.via = "none"
            BY <1>1, <2>2 DEF RequestStates
        <2>5. OnTime(z, now)
            BY <1>1, <2>2, <2>4 DEF OnTime, AwaitingProbe, Ended, RequestStates
        <2>6. Grounded(z)
            BY <1>1, <2>4 DEF Grounded
        <2> QED BY <1>2, <2>1, <2>3, <2>5, <2>6, SetSound DEF Sound
    <1>6. ASSUME NEW hits \in SUBSET Records, ProbeReturns(r, hits)
          PROVE  IInv'
        <2> DEFINE z == [q EXCEPT !.stage = IF @ = "same_route_probe" THEN "same_route"
                                             ELSE "frontier",
                                  !.found = @ \cup hits, !.probed = @ + (now - q.since)]
        <2>1. /\ q.stage \in AwaitingProbe /\ LoopFree /\ Set(r, z)
            BY <1>6 DEF ProbeReturns
        <2>2. /\ q.since <= now /\ q.retrieval + q.probed = q.since - q.start
              /\ q.start <= now /\ q.synthesis = 0 /\ q.via = "none"
              /\ q.estimated = q.evidence
            BY <1>1, <2>1 DEF OnTime, AwaitingProbe, Ended, Grounded
        <2>3. q.probed + (now - q.since) \in Nat
            BY <1>1, <2>2 DEF RequestStates
        <2>4. z \in RequestStates
            BY <1>1, <1>6, <2>3 DEF RequestStates, InLoop
        <2>5. /\ z.stage \in {"same_route", "frontier"} /\ z.start = q.start /\ z.synthesis = 0
              /\ z.probed = q.probed + (now - q.since) /\ z.retrieval = q.retrieval
              /\ z.estimated = q.evidence /\ z.evidence = q.evidence
              /\ z.local = q.local /\ z.via = "none" /\ z.tried = q.tried
            BY <1>1, <2>2 DEF RequestStates
        <2>6. q.tried
            BY <1>1, <2>1 DEF OnTime
        <2>7. OnTime(z, now)
            BY <1>1, <2>2, <2>3, <2>5, <2>6 DEF OnTime, AwaitingProbe, Ended, RequestStates
        <2>8. Grounded(z)
            BY <1>1, <2>5 DEF Grounded
        <2> QED BY <1>2, <2>1, <2>4, <2>7, <2>8, SetSound DEF Sound
    <1> QED BY <1>3, <1>4, <1>5, <1>6

\* The probes are over: the answer they led to, or the first one.
LEMMA ProbesOverKeeps ==
    ASSUME IInv, NEW r \in Requests,
           EnrichmentFails(r) \/ Enriched(r) \/ FrontierFails(r) \/ FrontierMerges(r)
    PROVE  IInv'
    <1> DEFINE q == request[r]
    <1>1. /\ q \in RequestStates /\ Grounded(q) /\ q.evidence \in SUBSET Records
        BY Facts
    <1>2. q.found \in SUBSET Records /\ q.local \in Answers
        BY <1>1 DEF RequestStates
    <1>3. q.stage \in {"same_route", "frontier"}
        BY DEF EnrichmentFails, Enriched, FrontierFails, FrontierMerges, ProbesOver, At
    <1>4. \A m \in SUBSET Records :
              /\ Ready(Charged(q, m)) /\ Charged(q, m).evidence = m
              /\ Charged(q, m).status = q.status
        BY <1>3, ChargedReady
    <1>5. CASE EnrichmentFails(r)
        <2>1. Fits(Charged(q, q.evidence), q.local)
            BY <1>1, <1>2, <1>4 DEF Fits, Grounded
        <2> QED BY <1>1, <1>4, <1>5, <2>1, CacheKeeps DEF EnrichmentFails
    <1>6. CASE Enriched(r)
        <2>1. PICK h \in q.found, a \in Answers : \E m \in Packs(q.evidence, {h}) :
                  /\ a \in LocalCandidates(q.status, m)
                  /\ DeliverAndCache(r, Charged(q, m), a)
            BY <1>6 DEF Enriched
        <2>2. PICK m \in Packs(q.evidence, {h}) :
                  /\ a \in LocalCandidates(q.status, m)
                  /\ DeliverAndCache(r, Charged(q, m), a)
            BY <2>1
        <2>3. m \in SUBSET Records
            BY <1>1, <1>2 DEF Packs
        <2>4. Fits(Charged(q, m), a)
            BY <1>4, <2>2, <2>3, CandidateFits
        <2> QED BY <1>4, <2>2, <2>3, <2>4, CacheKeeps
    <1>7. CASE FrontierFails(r)
        <2>1. PICK a \in Insufficient(q.evidence) : Deliver(r, Charged(q, q.evidence), a)
            BY <1>7 DEF FrontierFails
        <2>2. Fits(Charged(q, q.evidence), a)
            BY <1>1, <1>4, InsufficientFits
        <2> QED BY <1>1, <1>4, <2>1, <2>2, DeliverKeeps
    <1>8. CASE FrontierMerges(r)
        <2>1. PICK m \in Packs(q.evidence, q.found) :
                  \/ \E a \in Insufficient(m) : Deliver(r, Charged(q, m), a)
                  \/ \E a \in LocalCandidates(Charged(q, m).status, m) :
                        DeliverAndCache(r, Charged(q, m), a)
            BY <1>8 DEF FrontierMerges
        <2>2. m \in SUBSET Records
            BY <1>1, <1>2 DEF Packs
        <2>3. ASSUME NEW a \in Insufficient(m), Deliver(r, Charged(q, m), a)
              PROVE  IInv'
            <3>1. Fits(Charged(q, m), a)
                BY <1>4, <2>2, <2>3, InsufficientFits
            <3> QED BY <1>4, <2>2, <2>3, <3>1, DeliverKeeps
        <2>4. ASSUME NEW a \in LocalCandidates(Charged(q, m).status, m),
                     DeliverAndCache(r, Charged(q, m), a)
              PROVE  IInv'
            <3>1. Fits(Charged(q, m), a)
                BY <1>4, <2>2, <2>4, CandidateFits
            <3> QED BY <1>4, <2>2, <2>4, <3>1, CacheKeeps
        <2> QED BY <2>1, <2>3, <2>4
    <1> QED BY <1>5, <1>6, <1>7, <1>8

\* The gates before generation, and its start.
LEMMA GatesKeep ==
    ASSUME IInv, NEW r \in Requests,
           AnswerGated(r) \/ AnswerOutOfTime(r) \/ Generate(r)
    PROVE  IInv'
    <1> DEFINE q == request[r]
    <1>1. /\ now \in Nat /\ q \in RequestStates /\ cache \in [Keys -> Answers]
          /\ OnTime(q, now) /\ Grounded(q) /\ q.evidence \in SUBSET Records
        BY Facts
    <1>2. q.stage = "gates"
        BY DEF AnswerGated, AnswerOutOfTime, Generate, At
    <1>3. Ready(q) /\ Ready([q EXCEPT !.phase = "synthesis"])
        BY <1>2, LoopReady
    <1>4. /\ q.start <= now /\ q.synthesis = 0 /\ q.probed = 0
          /\ q.retrieval = now - q.start /\ q.estimated = q.evidence /\ q.via = "none"
          /\ q.retrieval \in Nat
        BY <1>1, <1>2 DEF OnTime, Grounded, Ended, RequestStates
    <1>5. CASE AnswerGated(r)
        BY <1>1, <1>3, <1>5, InsufficientFits, DeliverKeeps DEF AnswerGated
    <1>6. CASE AnswerOutOfTime(r)
        <2>1. PICK a \in Insufficient(q.evidence) :
                  Deliver(r, [q EXCEPT !.phase = "synthesis"], a)
            BY <1>6 DEF AnswerOutOfTime, DeliverWithinBudget
        <2>2. [q EXCEPT !.phase = "synthesis"].evidence = q.evidence
            BY <1>1 DEF RequestStates
        <2>3. Fits([q EXCEPT !.phase = "synthesis"], a)
            BY <1>1, <2>2, InsufficientFits
        <2> QED BY <1>3, <2>1, <2>3, DeliverKeeps
    <1>7. CASE Generate(r)
        <2> DEFINE w == RemainingSynthesis(q.retrieval)
        <2>1. PICK a \in LocalCandidates(q.status, q.evidence) \cup {NoAnswer} :
                  Set(r, [q EXCEPT !.stage = "generating", !.local = a, !.since = now,
                                   !.due = now + w])
            BY <1>7 DEF Generate
        <2> DEFINE z == [q EXCEPT !.stage = "generating", !.local = a, !.since = now,
                                  !.due = now + w]
        <2>2. w > 0 /\ now' = now /\ cache' = cache
            BY <1>7 DEF Generate, Keep
        <2>3. RemainingRequest(q.retrieval) \in Nat
            BY <1>4, Budgets DEF RemainingRequest
        <2>4. w \in Nat /\ w <= RemainingRequest(q.retrieval)
            BY <2>3, Budgets DEF RemainingSynthesis, Lesser
        <2>5. RemainingRequest(q.retrieval) = RequestDeadline - q.retrieval
            BY <1>4, <2>2, <2>4, Budgets DEF RemainingRequest
        <2>6. now + w \in Nat /\ now + w <= q.start + RequestDeadline
            <3> HIDE DEF w
            <3> QED BY <1>1, <1>4, <2>4, <2>5, Budgets DEF RequestStates
        <2>7. /\ a \in Answers /\ a.cites \subseteq q.evidence
              /\ a.status = "grounded_success" => a.cites # {}
            <3>1. CASE a = NoAnswer
                BY <3>1, AnswerTypes DEF NoAnswer, Answer
            <3>2. CASE a \in LocalCandidates(q.status, q.evidence)
                BY <1>1, <3>2, CandidateTypes
            <3> QED BY <3>1, <3>2
        <2> HIDE DEF w
        <2>8. z \in RequestStates
            <3>1. "generating" \in InLoop
                BY DEF InLoop
            <3> QED BY <1>1, <2>6, <2>7, <3>1 DEF RequestStates
        <2>9. /\ z.stage = "generating" /\ z.start = q.start /\ z.synthesis = 0
              /\ z.probed = 0 /\ z.retrieval = q.retrieval /\ z.since = now
              /\ z.due = now + w /\ z.estimated = q.evidence /\ z.evidence = q.evidence
              /\ z.local = a /\ z.via = "none"
            BY <1>1, <1>4 DEF RequestStates
        <2>10. OnTime(z, now)
            BY <1>1, <1>4, <2>6, <2>9 DEF OnTime, AwaitingProbe, Ended
        <2>11. Grounded(z)
            BY <2>7, <2>9 DEF Grounded
        <2>12. q.stage \in InLoop
            BY <1>2 DEF InLoop
        <2> QED BY <1>1, <2>1, <2>2, <2>8, <2>10, <2>11, <2>12, SetSound DEF Sound
    <1> QED BY <1>5, <1>6, <1>7

\* The generation returns, fails, is out of time or leaves no draft to read.
LEMMA GenerationKeeps ==
    ASSUME IInv, NEW r \in Requests,
           \/ GenerationReturns(r) \/ BackendFails(r)
           \/ GenerationTimesOut(r) \/ DraftUnreadable(r)
    PROVE  IInv'
    <1> DEFINE q == request[r]
               z == Timed(q)
    <1>1. /\ now \in Nat /\ q \in RequestStates /\ cache \in [Keys -> Answers]
          /\ OnTime(q, now) /\ Grounded(q) /\ q.evidence \in SUBSET Records
        BY Facts
    <1>2. q.stage = "generating"
        BY DEF GenerationReturns, BackendFails, GenerationTimesOut, DraftUnreadable, At
    <1>3. /\ Ready(z) /\ z.evidence = q.evidence
          /\ Ready([z EXCEPT !.phase = "synthesis"])
          /\ Ready([z EXCEPT !.phase = "answer_tokens"])
        BY <1>2, TimedReady
    <1>4. /\ [z EXCEPT !.phase = "synthesis"].evidence = q.evidence
          /\ [z EXCEPT !.phase = "answer_tokens"].evidence = q.evidence
        BY <1>3 DEF Ready, RequestStates
    <1> HIDE DEF z
    <1>5. ASSUME GenerationReturns(r) PROVE IInv'
        <2>0. PICK a \in Drafted(q) : \E b \in Guarded(q, a) : Settle(r, z, b)
            BY <1>5 DEF GenerationReturns, z
        <2>1. PICK b \in Guarded(q, a) : Settle(r, z, b)
            BY <2>0
        <2>2. Fits(q, a) /\ Fits(q, q.local)
            BY <1>1, DraftTypes DEF Fits, Grounded, RequestStates
        <2>3. b = a \/ b = q.local
            BY DEF Guarded
        <2>4. Fits(z, b)
            BY <1>3, <2>2, <2>3 DEF Fits
        <2>5. CASE b.long
            <3>1. PICK c \in Insufficient(z.evidence) :
                      Deliver(r, [z EXCEPT !.phase = "answer_tokens"], c)
                BY <2>1, <2>5 DEF Settle, DeliverWithinBudget
            <3>2. Fits([z EXCEPT !.phase = "answer_tokens"], c)
                BY <1>1, <1>3, <1>4, <3>1, InsufficientFits
            <3> QED BY <1>3, <3>1, <3>2, DeliverKeeps
        <2>6. CASE ~b.long
            BY <1>3, <2>1, <2>4, <2>6, CacheKeeps DEF Settle
        <2> QED BY <2>5, <2>6
    <1>6. CASE BackendFails(r)
        <2>1. PICK a \in Insufficient(q.evidence) : Deliver(r, z, a)
            BY <1>6 DEF BackendFails, z
        <2>2. Fits(z, a)
            BY <1>1, <1>3, InsufficientFits
        <2> QED BY <1>3, <2>1, <2>2, DeliverKeeps
    <1>7. CASE GenerationTimesOut(r)
        <2>1. PICK a \in Insufficient(z.evidence) :
                  Deliver(r, [z EXCEPT !.phase = "synthesis"], a)
            BY <1>7 DEF GenerationTimesOut, DeliverWithinBudget, z
        <2>2. Fits([z EXCEPT !.phase = "synthesis"], a)
            BY <1>1, <1>3, <1>4, <2>1, InsufficientFits
        <2> QED BY <1>3, <2>1, <2>2, DeliverKeeps
    <1>8. CASE DraftUnreadable(r)
        BY <1>3, <1>8, RaiseKeeps DEF DraftUnreadable, z
    <1> QED BY <1>5, <1>6, <1>7, <1>8

\* The clock only goes on while nothing but a generation runs.
LEMMA TickKeeps ==
    ASSUME IInv, Tick
    PROVE  IInv'
    <1>1. /\ now \in Nat /\ now' = now + 1 /\ request' = request /\ cache' = cache
        BY DEF IInv, Tick
    <1>2. ASSUME NEW r \in Requests
          PROVE  Sound(request[r], now + 1)
        <2> DEFINE q == request[r]
        <2>1. q \in RequestStates /\ OnTime(q, now) /\ Grounded(q)
            BY DEF IInv, Sound
        <2>2. q.stage \in InLoop => q.stage = "generating"
            BY DEF Tick
        <2>3. q.stage \notin {"retrieved", "gates", "same_route", "frontier"}
            BY <2>2 DEF InLoop
        <2>4. OnTime(q, now + 1)
            BY <1>1, <2>1, <2>3 DEF OnTime, RequestStates
        <2> QED BY <2>1, <2>4 DEF Sound
    <1> QED BY <1>1, <1>2 DEF IInv, OneRuns

-----------------------------------------------------------------------------

\* Requests that have not arrived are sound.
LEMMA InitHolds == Init => IInv
    <1> SUFFICES ASSUME Init PROVE IInv
        OBVIOUS
    <1>1. New \in RequestStates
        BY AnswerTypes, Budgets, PipelineConstants DEF New, RequestStates
    <1>2. /\ New.stage = "new" /\ New.synthesis = 0 /\ New.estimated = {}
          /\ New.evidence = {} /\ New.local = NoAnswer /\ New.via = "none"
        BY DEF New
    <1>3. OnTime(New, 0) /\ Grounded(New)
        BY <1>2 DEF OnTime, Grounded, Ended, AwaitingProbe, NoAnswer, Answer
    <1>4. \A r \in Requests : request[r] = New
        BY DEF Init
    <1>5. OneRuns
        BY <1>2, <1>4 DEF OneRuns, InLoop
    <1> QED BY <1>1, <1>3, <1>4, <1>5, AnswerTypes DEF Init, IInv, Sound

\* Every step keeps the invariant.
LEMMA StepHolds == IInv /\ [Next]_vars => IInv'
    <1> SUFFICES ASSUME IInv, [Next]_vars PROVE IInv'
        OBVIOUS
    <1>1. ASSUME NEW r \in Requests, NEW k \in Keys, Arrive(r, k) PROVE IInv'
        BY <1>1, ArriveKeeps
    <1>2. ASSUME NEW r \in Requests, Wake(r) PROVE IInv'
        BY <1>2, RetrievalKeeps, ProbeKeeps, AwaitedRaises DEF Wake
    <1>3. ASSUME NEW r \in Requests, CapFires(r) PROVE IInv'
        BY <1>3, CapKeeps
    <1>4. ASSUME NEW r \in Requests, Run(r) PROVE IInv'
        BY <1>4, RetrievedKeeps, ProbeKeeps, ProbesOverKeeps, GatesKeep, GenerationKeeps
           DEF Run
    <1>5. CASE Tick
        BY <1>5, TickKeeps
    <1>6. CASE UNCHANGED vars
        BY <1>6 DEF vars, IInv, OneRuns
    <1> QED BY <1>1, <1>2, <1>3, <1>4, <1>5, <1>6 DEF Next

\* The inductive invariant holds throughout.
THEOREM Invariant == Spec => []IInv
    BY InitHolds, StepHolds, PTL DEF Spec

\* Every variable keeps its type, and one request at most has the loop, for
\* any number of requests.
THEOREM TypeCorrect == Spec => []TypeOK
    <1>1. IInv => TypeOK
        BY DEF IInv, TypeOK, OneRuns
    <1> QED BY <1>1, Invariant, PTL

\* The times a trace reports add up to the time the request took, whatever
\* other requests held the loop.
THEOREM MeasuredCorrect == Spec => []MeasuredIsElapsed
    <1>1. IInv => MeasuredIsElapsed
        BY DEF IInv, Sound, OnTime, MeasuredIsElapsed, Ended
    <1> QED BY <1>1, Invariant, PTL

\* Probes and the backend are given what is left of one request deadline.
THEOREM DeadlineCorrect == Spec => []OneDeadline
    <1>1. IInv => OneDeadline
        BY DEF IInv, Sound, OnTime, OneDeadline
    <1> QED BY <1>1, Invariant, PTL

\* No answer quotes evidence that is not reported with it.
THEOREM AnswerRests == Spec => []AnswerRestsOnReported
    <1>1. IInv => AnswerRestsOnReported
        BY DEF IInv, Sound, Grounded, AnswerRestsOnReported
    <1> QED BY <1>1, Invariant, PTL

-----------------------------------------------------------------------------
(* The cache *)

\* In this state of the requests, that answer was delivered by then.
DeliveredIn(s, k, a, t) ==
    \E r \in Requests :
        /\ s[r].via = "pipeline" /\ s[r].key = k
        /\ s[r].answer = a /\ s[r].finished <= t

\* A step that changes one request, and one that caches its answer too.
Moves(r, new) ==
    Set(r, new) /\ new.via # "cache" /\ now' = now /\ cache' = cache

Caches(r, new) ==
    /\ Set(r, new) /\ now' = now
    /\ new.via = "pipeline" /\ new.finished = now /\ ShouldCache(new.answer)
    /\ cache' = [cache EXCEPT ![new.key] = new.answer]

\* Whoever goes on has the loop, or is called while nobody has it.
Able(r) ==
    \/ request[r].stage \in InLoop
    \/ LoopFree /\ request[r].stage \in Awaiting

\* A request that has arrived and neither generates nor is over.
Pending == (Awaiting \cup InLoop) \ {"generating"}

\* It ends now, begins to generate now, or goes on before its generation.
Timely(q, new) ==
    /\ new.start = q.start
    /\ \/ new.stage \in Ended /\ new.finished = now
       \/ /\ new.stage = "generating" /\ q.stage = "gates" /\ new.since = now
          /\ new.due \in now..(now + SynthesisDeadline)
       \/ new.stage \in Pending /\ q.stage # "generating"

Changes(r) ==
    /\ Able(r)
    /\ \E new : (Moves(r, new) \/ Caches(r, new)) /\ Timely(request[r], new)

LEMMA AbleIsOn ==
    ASSUME NEW r \in Requests, Able(r) PROVE request[r].stage \notin Ended
    BY DEF Able, InLoop, Awaiting, AwaitingProbe, Ended

\* What the end of a request says of it.
LEMMA EndingFields ==
    ASSUME NEW q, NEW a, NEW v
    PROVE  /\ Ending(q, a, v).via = v /\ Ending(q, a, v).answer = a
           /\ Ending(q, a, v).key = q.key /\ Ending(q, a, v).finished = now
           /\ Ending(q, a, v).start = q.start /\ Ending(q, a, v).stage = "answered"
    BY DEF Ending

\* An answer is delivered as such, and cached only if it should be.
LEMMA DeliverChanges ==
    ASSUME NEW r \in Requests, Able(r), NEW q, q.start = request[r].start, NEW a,
           Deliver(r, q, a) \/ DeliverAndCache(r, q, a)
    PROVE  Changes(r)
    <1> DEFINE e == Ending(q, a, "pipeline")
    <1>1. /\ e.via = "pipeline" /\ e.answer = a /\ e.key = q.key /\ e.finished = now
          /\ e.start = request[r].start /\ e.stage \in Ended
        BY EndingFields DEF Ended
    <1>2. Set(r, e) /\ now' = now
        BY DEF Deliver, DeliverAndCache, Keep
    <1>3. \/ cache' = cache
          \/ ShouldCache(a) /\ cache' = [cache EXCEPT ![q.key] = a]
        BY DEF Deliver, DeliverAndCache, Keep
    <1> HIDE DEF e
    <1>4. Moves(r, e) \/ Caches(r, e)
        BY <1>1, <1>2, <1>3 DEF Moves, Caches
    <1> QED BY <1>1, <1>4 DEF Changes, Timely

\* One that raises is over as well, and caches nothing.
LEMMA RaiseChanges ==
    ASSUME NEW r \in Requests, Able(r), NEW q, q.start = request[r].start, Raise(r, q)
    PROVE  Changes(r)
    <1> DEFINE x == [Ending(q, NoAnswer, "none") EXCEPT !.stage = "raised"]
    <1>1. Set(r, x) /\ Keep
        BY DEF Raise
    <1>2. /\ x.via = "none" /\ x.stage = "raised" /\ x.start = request[r].start
          /\ x.finished = now
        BY DEF Ending
    <1> HIDE DEF x
    <1>3. Moves(r, x) /\ Timely(request[r], x)
        BY <1>1, <1>2 DEF Moves, Keep, Timely, Ended
    <1> QED BY <1>3 DEF Changes

\* A request that goes on has not been given an answer.
LEMMA GoesOn ==
    ASSUME IInv, NEW r \in Requests, Able(r),
           NEW new, Set(r, new), Keep, new.via = request[r].via, Timely(request[r], new)
    PROVE  Changes(r)
    <1>1. new.via = "none"
        BY Facts, AbleIsOn DEF Grounded, Ended, RequestStates
    <1>2. Moves(r, new)
        BY <1>1 DEF Moves, Keep
    <1> QED BY <1>2 DEF Changes

\* Every step of a request after its arrival is one of these.
LEMMA StepChanges ==
    ASSUME IInv, NEW r \in Requests, Wake(r) \/ CapFires(r) \/ Run(r)
    PROVE  Changes(r)
    <1> DEFINE q == request[r]
    <1>0. q \in RequestStates
        BY Facts
    <1>1. CASE Wake(r)
        <2>1. \/ \E s \in {"success", "partial", "failure_gaps"}, e \in SUBSET Records :
                    RetrievalReturns(r, s, e) \/ ProbeReturns(r, e)
              \/ RetrievalRaises(r) \/ ProbeRaises(r)
            BY <1>1 DEF Wake
        <2>2. Able(r) /\ q.stage \in Awaiting /\ "generating" \notin Awaiting
            BY <2>1 DEF RetrievalReturns, ProbeReturns, RetrievalRaises, ProbeRaises, At, Able,
                        Awaiting, AwaitingProbe
        <2>3. ASSUME NEW s, NEW e, RetrievalReturns(r, s, e)
              PROVE  Changes(r)
            <3> DEFINE z == [q EXCEPT !.stage = "retrieved", !.status = s, !.evidence = e,
                                      !.estimated = e, !.retrieval = now - q.start]
            <3>1. Set(r, z) /\ Keep
                BY <2>3 DEF RetrievalReturns
            <3>2. z.via = q.via /\ Timely(q, z)
                BY <1>0, <2>2 DEF RequestStates, Timely, Pending, InLoop
            <3> HIDE DEF z
            <3> QED BY <2>2, <3>1, <3>2, GoesOn
        <2>4. ASSUME NEW e, ProbeReturns(r, e)
              PROVE  Changes(r)
            <3> DEFINE z == [q EXCEPT !.stage = IF @ = "same_route_probe" THEN "same_route"
                                                 ELSE "frontier",
                                      !.found = @ \cup e, !.probed = @ + (now - q.since)]
            <3>1. Set(r, z) /\ Keep
                BY <2>4 DEF ProbeReturns
            <3>2. z.via = q.via /\ Timely(q, z)
                BY <1>0, <2>2 DEF RequestStates, Timely, Pending, InLoop
            <3> HIDE DEF z
            <3> QED BY <2>2, <3>1, <3>2, GoesOn
        <2>5. CASE RetrievalRaises(r) \/ ProbeRaises(r)
            <3>1. Dropped(q).start = q.start
                BY <1>0 DEF Dropped, RequestStates
            <3> QED BY <2>2, <2>5, <3>1, RaiseChanges DEF RetrievalRaises, ProbeRaises
        <2> QED BY <2>1, <2>3, <2>4, <2>5
    <1>2. CASE CapFires(r)
        <2> DEFINE z == [Dropped(q) EXCEPT !.phase = "request"]
                   e == Ending(z, RetrievalFailure, "cap")
        <2>1. Set(r, e) /\ Keep /\ Able(r)
            BY <1>2 DEF CapFires, Capped, Able
        <2>2. z.start = q.start
            BY <1>0 DEF Dropped, RequestStates
        <2> HIDE DEF z
        <2>3. e.via = "cap" /\ Timely(q, e)
            BY <2>2, EndingFields DEF Timely, Ended
        <2> HIDE DEF e
        <2>4. Moves(r, e)
            BY <2>1, <2>3 DEF Moves, Keep
        <2> QED BY <2>1, <2>3, <2>4 DEF Changes
    <1>3. CASE Run(r)
        <2>1. Able(r)
            BY <1>3 DEF Able, InLoop, Run, AnswerNothing, AnswerLocally, Enrich, SeekCoverage, GoOn,
                        SkipProbe, Probe, EnrichmentFails, Enriched, FrontierUntried,
                        FrontierFails, FrontierMerges, AnswerGated, AnswerOutOfTime,
                        Generate, GenerationReturns, BackendFails, GenerationTimesOut,
                        DraftUnreadable, ProbesOver, At
        <2>stages. /\ SeekCoverage(r) \/ GoOn(r) => q.stage = "retrieved"
                   /\ \A a \in Answers : Enrich(r, a) => q.stage = "retrieved"
                   /\ SkipProbe(r) \/ Probe(r) => q.stage \in {"same_route", "frontier"}
                   /\ FrontierUntried(r) => q.stage = "frontier"
                   /\ Generate(r) => q.stage = "gates"
            BY DEF SeekCoverage, GoOn, Enrich, SkipProbe, Probe, FrontierUntried, ProbesOver,
                   Generate, At
        <2>starts. /\ \A m : Charged(q, m).start = q.start
                   /\ Timed(q).start = q.start
                   /\ \A x : /\ [q EXCEPT !.phase = x].start = q.start
                             /\ [Timed(q) EXCEPT !.phase = x].start = q.start
            BY <1>0 DEF Charged, Timed, RequestStates
        <2>2. ASSUME AnswerNothing(r) \/ \E a \in Answers : AnswerLocally(r, a)
              PROVE  Changes(r)
            BY <2>1, <2>2, DeliverChanges DEF AnswerNothing, AnswerLocally
        <2>3. ASSUME NEW a \in Answers, Enrich(r, a)
              PROVE  Changes(r)
            <3> DEFINE z == [q EXCEPT !.stage = "same_route", !.local = a, !.left = MaxProbes]
            <3>1. Set(r, z) /\ Keep
                BY <2>3 DEF Enrich
            <3>2. z.via = q.via /\ Timely(q, z)
                BY <1>0, <2>stages, <2>3 DEF RequestStates, Timely, Pending, InLoop, Awaiting,
                                         AwaitingProbe
            <3> HIDE DEF z
            <3> QED BY <2>1, <3>1, <3>2, GoesOn
        <2>4. CASE SeekCoverage(r)
            <3> DEFINE z == [q EXCEPT !.stage = "frontier", !.left = MaxProbes]
            <3>1. (Set(r, z) /\ Keep) \/ \E a \in Insufficient(q.evidence) : Deliver(r, q, a)
                BY <2>4 DEF SeekCoverage, MayLackCoverage
            <3>2. z.via = q.via /\ Timely(q, z)
                BY <1>0, <2>stages, <2>4 DEF RequestStates, Timely, Pending, InLoop, Awaiting,
                                         AwaitingProbe
            <3> HIDE DEF z
            <3> QED BY <2>1, <3>1, <3>2, GoesOn, DeliverChanges
        <2>5. CASE GoOn(r) \/ FrontierUntried(r)
            <3> DEFINE z == [q EXCEPT !.stage = "gates"]
            <3>1. Set(r, z) /\ Keep
                BY <2>5 DEF GoOn, FrontierUntried
            <3>2. z.via = q.via /\ Timely(q, z)
                BY <1>0, <2>stages, <2>5 DEF RequestStates, Timely, Pending, InLoop, Awaiting,
                                         AwaitingProbe
            <3> HIDE DEF z
            <3> QED BY <2>1, <3>1, <3>2, GoesOn
        <2>6. CASE SkipProbe(r)
            <3> DEFINE z == [q EXCEPT !.left = @ - 1]
            <3>1. Set(r, z) /\ Keep
                BY <2>6 DEF SkipProbe
            <3>2. z.via = q.via /\ Timely(q, z)
                BY <1>0, <2>stages, <2>6 DEF RequestStates, Timely, Pending, InLoop, Awaiting,
                                         AwaitingProbe
            <3> HIDE DEF z
            <3> QED BY <2>1, <3>1, <3>2, GoesOn
        <2>7. CASE Probe(r)
            <3> DEFINE z == [q EXCEPT !.stage = IF @ = "same_route" THEN "same_route_probe"
                                                 ELSE "frontier_probe",
                                      !.left = @ - 1, !.tried = TRUE,
                                      !.since = now, !.due = now + NextTimeout(q)]
            <3>1. Set(r, z) /\ Keep
                BY <2>7 DEF Probe
            <3>2. z.via = q.via /\ Timely(q, z)
                BY <1>0, <2>stages, <2>7 DEF RequestStates, Timely, Pending, InLoop, Awaiting,
                                         AwaitingProbe
            <3> HIDE DEF z
            <3> QED BY <2>1, <3>1, <3>2, GoesOn
        <2>8. CASE EnrichmentFails(r) \/ Enriched(r) \/ FrontierFails(r)
            BY <2>1, <2>starts, <2>8, DeliverChanges DEF EnrichmentFails, Enriched, FrontierFails
        <2>9. CASE FrontierMerges(r)
            BY <2>1, <2>starts, <2>9, DeliverChanges DEF FrontierMerges
        <2>10. CASE AnswerGated(r) \/ AnswerOutOfTime(r)
            BY <2>1, <2>starts, <2>10, DeliverChanges DEF AnswerGated, AnswerOutOfTime, DeliverWithinBudget
        <2>11. CASE Generate(r)
            <3>1. PICK a : Set(r, [q EXCEPT !.stage = "generating", !.local = a, !.since = now,
                                            !.due = now + RemainingSynthesis(q.retrieval)])
                           /\ Keep
                BY <2>11 DEF Generate
            <3> DEFINE z == [q EXCEPT !.stage = "generating", !.local = a, !.since = now,
                                      !.due = now + RemainingSynthesis(q.retrieval)]
            <3>2. now \in Nat /\ q.retrieval \in Nat
                BY <1>0, Facts DEF RequestStates
            <3>3. RemainingRequest(q.retrieval) \in Nat
                BY <3>2, Budgets DEF RemainingRequest
            <3>4. RemainingSynthesis(q.retrieval) \in 0..SynthesisDeadline
                BY <3>3, Budgets DEF RemainingSynthesis, Lesser
            <3>5. now + RemainingSynthesis(q.retrieval) \in now..(now + SynthesisDeadline)
                BY <3>2, <3>4, Budgets
            <3>6. /\ z.via = q.via /\ z.start = q.start /\ z.stage = "generating"
                  /\ z.since = now /\ z.due = now + RemainingSynthesis(q.retrieval)
                BY <1>0 DEF RequestStates
            <3> HIDE DEF z
            <3>7. Timely(q, z)
                BY <2>11, <2>stages, <3>5, <3>6 DEF Timely
            <3>8. Set(r, z) /\ Keep
                BY <3>1 DEF z
            <3> QED BY <2>1, <3>6, <3>7, <3>8, GoesOn
        <2>12. CASE GenerationReturns(r)
            <3>1. PICK a \in Drafted(q) : \E b \in Guarded(q, a) : Settle(r, Timed(q), b)
                BY <2>12 DEF GenerationReturns
            <3>2. PICK b : Settle(r, Timed(q), b)
                BY <3>1
            <3> QED BY <2>1, <2>starts, <3>2, DeliverChanges DEF Settle, DeliverWithinBudget
        <2>13. CASE BackendFails(r) \/ GenerationTimesOut(r)
            BY <2>1, <2>starts, <2>13, DeliverChanges DEF BackendFails, GenerationTimesOut,
                           DeliverWithinBudget
        <2>14. CASE DraftUnreadable(r)
            BY <2>1, <2>starts, <2>14, RaiseChanges DEF DraftUnreadable
        <2> QED BY <1>3, <2>2, <2>3, <2>4, <2>5, <2>6, <2>7, <2>8, <2>9, <2>10, <2>11,
                   <2>12, <2>13, <2>14 DEF Run
    <1> QED BY <1>1, <1>2, <1>3

\* An answer that was delivered stays delivered.
LEMMA DeliveredStays ==
    ASSUME IInv, NEW r \in Requests, request[r].stage \notin Ended,
           NEW new, Set(r, new), NEW k, NEW a, NEW t, DeliveredIn(request, k, a, t)
    PROVE  DeliveredIn(request', k, a, t)
    <1>1. PICK d \in Requests :
              /\ request[d].via = "pipeline" /\ request[d].key = k
              /\ request[d].answer = a /\ request[d].finished <= t
        BY DEF DeliveredIn
    <1>2. request[d].stage \in Ended
        BY <1>1 DEF IInv, Sound, Grounded, Ended
    <1>3. request'[d] = request[d]
        BY <1>2 DEF IInv, Set
    <1> QED BY <1>1, <1>3 DEF DeliveredIn

\* CacheIsDelivered, conjunct by conjunct.
Kept ==
    \A k \in Keys :
        cache[k] # NoAnswer =>
            ShouldCache(cache[k]) /\ DeliveredIn(request, k, cache[k], now)

HandedOn ==
    \A r \in Requests :
        request[r].via = "cache" =>
            /\ ~request[r].answer.long
            /\ DeliveredIn(request, request[r].key, request[r].answer, request[r].start)

\* The cache holds what was delivered, after every step of a request.
LEMMA ChangesKeepCache ==
    ASSUME IInv, Kept, HandedOn, NEW r \in Requests, Changes(r), IInv'
    PROVE  Kept' /\ HandedOn'
    <1>1. PICK new : Moves(r, new) \/ Caches(r, new)
        BY DEF Changes
    <1>2. /\ Set(r, new) /\ request[r].stage \notin Ended /\ now' = now /\ new.via # "cache"
          /\ now \in Nat
        BY <1>1, AbleIsOn DEF Changes, Moves, Caches, IInv
    <1>3. /\ request'[r] = new /\ \A d \in Requests \ {r} : request'[d] = request[d]
        BY <1>2 DEF IInv, Set
    <1>4. ASSUME NEW d \in Requests, request'[d].via = "cache"
          PROVE  /\ ~request'[d].answer.long
                 /\ DeliveredIn(request', request'[d].key, request'[d].answer,
                                request'[d].start)
        <2>1. request'[d] = request[d]
            BY <1>2, <1>3, <1>4
        <2>2. /\ ~request[d].answer.long
              /\ DeliveredIn(request, request[d].key, request[d].answer, request[d].start)
            BY <1>4, <2>1 DEF HandedOn
        <2>3. DeliveredIn(request', request[d].key, request[d].answer, request[d].start)
            BY <1>2, <2>2, DeliveredStays
        <2> QED BY <2>1, <2>2, <2>3
    <1>5. ASSUME NEW k \in Keys, cache'[k] # NoAnswer
          PROVE  ShouldCache(cache'[k]) /\ DeliveredIn(request', k, cache'[k], now')
        <2>1. CASE cache'[k] = cache[k]
            <3>1. ShouldCache(cache[k]) /\ DeliveredIn(request, k, cache[k], now)
                BY <1>5, <2>1 DEF Kept
            <3>2. DeliveredIn(request', k, cache[k], now)
                BY <1>2, <3>1, DeliveredStays
            <3> QED BY <1>2, <2>1, <3>1, <3>2
        <2>2. CASE cache'[k] # cache[k]
            <3>1. /\ Caches(r, new) /\ k = new.key /\ cache'[k] = new.answer
                BY <1>1, <2>2 DEF Moves, Caches, IInv
            <3>2. /\ request'[r].via = "pipeline" /\ request'[r].key = k
                  /\ request'[r].answer = cache'[k] /\ request'[r].finished <= now'
                BY <1>2, <1>3, <3>1 DEF Caches
            <3> QED BY <3>1, <3>2 DEF Caches, DeliveredIn
        <2> QED BY <2>1, <2>2
    <1>6. Kept'
        BY <1>5 DEF Kept, ShouldCache
    <1>7. HandedOn'
        BY <1>4 DEF HandedOn
    <1> QED BY <1>6, <1>7

\* A hit hands on what is cached.
LEMMA ArriveKeepsCache ==
    ASSUME IInv, Kept, HandedOn, NEW r \in Requests, NEW k \in Keys, Arrive(r, k)
    PROVE  Kept' /\ HandedOn'
    <1> DEFINE q == [New EXCEPT !.key = k, !.start = now]
    <1>1. /\ now \in Nat /\ now' = now /\ cache' = cache /\ request[r].stage \notin Ended
        BY DEF IInv, Arrive, Keep, At, Ended
    <1>2. \E new : /\ Set(r, new)
                   /\ \/ new.via = "none"
                      \/ /\ new.via = "cache" /\ new.key = k /\ new.start = now
                         /\ new.answer = cache[k] /\ cache[k] # NoAnswer /\ ~cache[k].long
        <2>1. q.via = "none" /\ q.key = k /\ q.start = now
            BY DEF New
        <2> DEFINE y == [q EXCEPT !.stage = "retrieving"]
                   e == Ending(q, cache[k], "cache")
        <2>2. y.via = "none"
            BY DEF New
        <2>3. \/ Set(r, y)
              \/ Set(r, e) /\ cache[k] # NoAnswer /\ ~cache[k].long
            BY DEF Arrive, Entry
        <2>4. e.via = "cache" /\ e.key = k /\ e.start = now /\ e.answer = cache[k]
            <3> HIDE DEF q
            <3> QED BY <2>1, EndingFields
        <2> HIDE DEF y, e
        <2>5. CASE Set(r, y)
            BY <2>2, <2>5
        <2>6. CASE Set(r, e) /\ cache[k] # NoAnswer /\ ~cache[k].long
            BY <2>4, <2>6
        <2> QED BY <2>3, <2>5, <2>6
    <1>3. PICK new : /\ Set(r, new)
                     /\ \/ new.via = "none"
                        \/ /\ new.via = "cache" /\ new.key = k /\ new.start = now
                           /\ new.answer = cache[k] /\ cache[k] # NoAnswer /\ ~cache[k].long
        BY <1>2
    <1>4. /\ request'[r] = new /\ \A d \in Requests \ {r} : request'[d] = request[d]
        BY <1>3 DEF IInv, Set
    <1>5. \A j, a, t : DeliveredIn(request, j, a, t) => DeliveredIn(request', j, a, t)
        BY <1>1, <1>3, DeliveredStays
    <1>6. ASSUME NEW d \in Requests, request'[d].via = "cache"
          PROVE  /\ ~request'[d].answer.long
                 /\ DeliveredIn(request, request'[d].key, request'[d].answer,
                                request'[d].start)
        <2>1. CASE d = r
            BY <1>3, <1>4, <1>6, <2>1 DEF Kept
        <2>2. CASE d # r
            BY <1>4, <1>6, <2>2 DEF HandedOn
        <2> QED BY <2>1, <2>2
    <1>7. HandedOn'
        BY <1>5, <1>6 DEF HandedOn
    <1>8. Kept'
        BY <1>1, <1>5 DEF Kept, ShouldCache
    <1> QED BY <1>7, <1>8

\* What is cached, and what a hit hands on, was delivered before.
THEOREM CacheCorrect == Spec => []CacheIsDelivered
    <1>1. Init => Kept /\ HandedOn
        BY DEF Init, Kept, HandedOn, New
    <1>2. ASSUME IInv, IInv', Kept, HandedOn, [Next]_vars
          PROVE  Kept' /\ HandedOn'
        <2>1. ASSUME NEW r \in Requests, NEW k \in Keys, Arrive(r, k)
              PROVE  Kept' /\ HandedOn'
            BY <1>2, <2>1, ArriveKeepsCache
        <2>2. ASSUME NEW r \in Requests, Wake(r) \/ CapFires(r) \/ Run(r)
              PROVE  Kept' /\ HandedOn'
            BY <1>2, <2>2, StepChanges, ChangesKeepCache
        <2>3. CASE Tick
            <3>1. request' = request /\ cache' = cache /\ now' = now + 1
                BY <2>3 DEF Tick
            <3>2. \A r \in Requests : now \in Nat /\ request[r].finished \in Nat
                BY <1>2 DEF IInv, RequestStates
            <3>3. \A k, a : DeliveredIn(request, k, a, now) => DeliveredIn(request, k, a, now + 1)
                BY <3>2 DEF DeliveredIn
            <3>4. Kept'
                BY <1>2, <3>1, <3>3 DEF Kept, ShouldCache
            <3>5. HandedOn'
                BY <1>2, <3>1 DEF HandedOn
            <3> QED BY <3>4, <3>5
        <2>4. CASE UNCHANGED vars
            <3>1. request' = request /\ cache' = cache /\ now' = now
                BY <2>4 DEF vars
            <3> QED BY <1>2, <3>1 DEF Kept, HandedOn, ShouldCache
        <2> QED BY <1>2, <2>1, <2>2, <2>3, <2>4 DEF Next
    <1>3. Kept /\ HandedOn => CacheIsDelivered
        BY DEF Kept, HandedOn, CacheIsDelivered, DeliveredIn, ShouldCache
    <1> QED BY <1>1, <1>2, <1>3, Invariant, PTL DEF Spec

-----------------------------------------------------------------------------
(* Time: a request is kept past its cap only by the generations of others, *)
(* each of which is the end of that other request.                         *)

\* What one generation may take.
Generation == SynthesisDeadline + Overrun

\* The requests that are over before this one, and when it is over at the latest.
OverBefore(r) == {d \in Requests \ {r} : request[d].stage \in Ended}
Latest(r) == HardCap(request[r]) + Generation * Cardinality(OverBefore(r))
Bound(r) == HardCap(request[r]) + Overrun + (Cardinality(Requests) - 1) * Generation

NobodyGenerates == \A d \in Requests : ~At(d, "generating")

Paced(r) ==
    /\ At(r, "generating") =>
          /\ now <= request[r].since + Generation
          /\ now <= request[r].due + Overrun
          /\ request[r].due <= request[r].since + SynthesisDeadline
    /\ request[r].stage \in Pending =>
          /\ NobodyGenerates => now <= Latest(r)
          /\ \A d \in Requests : At(d, "generating") => request[d].since <= Latest(r)
    /\ request[r].stage \in Ended => request[r].finished <= Bound(r)

InTime == \A r \in Requests : Paced(r)

\* The arithmetic: each request that is over adds one generation, and the others are
\* all but one.
LEMMA LatestTypes ==
    ASSUME IInv, NEW r \in Requests
    PROVE  /\ IsFiniteSet(OverBefore(r)) /\ Cardinality(OverBefore(r)) \in Nat
           /\ Generation \in Nat /\ HardCap(request[r]) \in Nat
           /\ Latest(r) \in Nat /\ Latest(r) >= HardCap(request[r])
           /\ Latest(r) <= Bound(r) /\ Bound(r) \in Nat
           /\ Bound(r) >= HardCap(request[r]) + Overrun
    <1>1. /\ IsFiniteSet(Requests \ {r})
          /\ Cardinality(Requests \ {r}) = Cardinality(Requests) - 1
          /\ Cardinality(Requests \ {r}) \in Nat
        BY PipelineConstants, FS_RemoveElement, FS_CardinalityType
    <1>2. OverBefore(r) \in SUBSET (Requests \ {r})
        BY DEF OverBefore
    <1>3. /\ IsFiniteSet(OverBefore(r)) /\ Cardinality(OverBefore(r)) \in Nat
          /\ Cardinality(OverBefore(r)) <= Cardinality(Requests) - 1
        BY <1>1, <1>2, FS_Subset, FS_CardinalityType
    <1>4. Generation \in Nat /\ HardCap(request[r]) \in Nat
        BY Budgets, Facts DEF Generation, HardCap, RequestStates
    <1>5. \A g, c, n \in Nat : c <= n => /\ g * c \in Nat /\ g * c <= n * g /\ n * g \in Nat
        OBVIOUS
    <1>6. /\ Generation * Cardinality(OverBefore(r)) \in Nat
          /\ (Cardinality(Requests) - 1) * Generation \in Nat
          /\ Generation * Cardinality(OverBefore(r)) <= (Cardinality(Requests) - 1) * Generation
        BY <1>1, <1>3, <1>4, <1>5
    <1> QED BY <1>3, <1>4, <1>6, Budgets DEF Latest, Bound

Bounded ==
    \A r \in Requests :
        /\ Latest(r) \in Nat /\ Latest(r) >= HardCap(request[r])
        /\ Bound(r) \in Nat /\ Bound(r) >= HardCap(request[r]) + Overrun

LEMMA BoundedNext == IInv' => Bounded'
    <1>1. IInv => Bounded
        BY LatestTypes DEF Bounded
    <1> QED BY <1>1, PTL

\* A step of one request leaves the others' last moment where it is, or moves it on
\* by one generation when that request is over.
LEMMA LatestMoves ==
    ASSUME IInv, IInv', NEW r \in Requests, NEW new, Set(r, new),
           request[r].stage \notin Ended, NEW d \in Requests
    PROVE  /\ d # r => /\ Latest(d)' >= Latest(d) /\ HardCap(request[d])' = HardCap(request[d])
                       /\ new.stage \in Ended => Latest(d)' = Latest(d) + Generation
           /\ d = r /\ new.start = request[r].start => Latest(d)' = Latest(d)
    <1>1. /\ request'[r] = new /\ \A e \in Requests \ {r} : request'[e] = request[e]
        BY DEF IInv, Set
    <1>2. CASE d = r
        <2>1. OverBefore(d)' = OverBefore(d)
            BY <1>1, <1>2 DEF OverBefore
        <2> QED BY <1>1, <1>2, <2>1 DEF Latest, HardCap
    <1>3. CASE d # r /\ new.stage \notin Ended
        <2>1. OverBefore(d)' = OverBefore(d)
            BY <1>1, <1>3 DEF OverBefore
        <2>2. Latest(d)' = Latest(d) /\ HardCap(request[d])' = HardCap(request[d])
            BY <1>1, <1>3, <2>1 DEF Latest, HardCap
        <2> QED BY <1>3, <2>2, LatestTypes
    <1>4. CASE d # r /\ new.stage \in Ended
        <2>1. OverBefore(d)' = OverBefore(d) \cup {r} /\ r \notin OverBefore(d)
            BY <1>1, <1>4 DEF OverBefore
        <2>2. Cardinality(OverBefore(d)') = Cardinality(OverBefore(d)) + 1
            BY <2>1, LatestTypes, FS_AddElement
        <2>3. HardCap(request[d])' = HardCap(request[d])
            BY <1>1, <1>4 DEF HardCap
        <2>4. \A g, c \in Nat : g * (c + 1) = g * c + g
            OBVIOUS
        <2>5. /\ Latest(d)' = HardCap(request[d]) + Generation * (Cardinality(OverBefore(d)) + 1)
            BY <2>2, <2>3 DEF Latest
        <2>6. Latest(d)' = Latest(d) + Generation
            BY <2>4, <2>5, LatestTypes DEF Latest
        <2> QED BY <1>4, <2>3, <2>6, LatestTypes
    <1> QED BY <1>2, <1>3, <1>4

\* Whoever goes on is the one that generates, or nobody does.
LEMMA OneGenerates ==
    ASSUME IInv, NEW r \in Requests, LoopFree \/ Able(r), ~At(r, "generating")
    PROVE  NobodyGenerates
    BY DEF IInv, OneRuns, Able, LoopFree, InLoop, At, NobodyGenerates

\* The steps of one request, for the others.
LEMMA OthersKeepTime ==
    ASSUME IInv, IInv', InTime, NEW r \in Requests, NEW new, Set(r, new), now' = now,
           request[r].stage \notin Ended, LoopFree \/ Able(r),
           At(r, "generating") => new.stage \in Ended,
           new.stage = "generating" => new.since = now,
           NEW d \in Requests \ {r}
    PROVE  Paced(d)'
    <1>1. /\ request'[r] = new /\ \A e \in Requests \ {r} : request'[e] = request[e]
          /\ now \in Nat
        BY DEF IInv, Set
    <1>2. \A e \in Requests \ {r} : ~At(e, "generating")
        BY OneGenerates DEF IInv, OneRuns, InLoop, At, NobodyGenerates
    <1>3. /\ Latest(d)' >= Latest(d) /\ Latest(d) \in Nat /\ Latest(d)' \in Nat
          /\ HardCap(request[d])' = HardCap(request[d]) /\ Generation \in Nat
          /\ new.stage \in Ended => Latest(d)' = Latest(d) + Generation
        BY LatestMoves, LatestTypes, BoundedNext DEF Bounded
    <1>4. ~At(d, "generating")'
        BY <1>1, <1>2 DEF At
    <1>5. ASSUME request'[d].stage \in Pending
          PROVE  now <= Latest(d)'
        <2>1. request[d].stage \in Pending /\ Paced(d) /\ Paced(r)
            BY <1>1, <1>5 DEF InTime
        <2>2. CASE At(r, "generating")
            <3>1. /\ request[r].since <= Latest(d) /\ request[r].since \in Nat
                  /\ now <= request[r].since + Generation
                BY <2>1, <2>2, Facts DEF Paced, RequestStates
            <3> QED BY <1>1, <1>3, <2>2, <3>1
        <2>3. CASE ~At(r, "generating")
            <3>1. now <= Latest(d)
                BY <2>1, <2>3, OneGenerates DEF Paced
            <3> QED BY <1>1, <1>3, <3>1
        <2> QED BY <2>2, <2>3
    <1>6. ASSUME request'[d].stage \in Pending, NEW e \in Requests, At(e, "generating")'
          PROVE  request'[e].since <= Latest(d)'
        <2>1. e = r
            BY <1>1, <1>2, <1>6 DEF At
        <2>2. request'[e].since = now
            BY <1>1, <1>6, <2>1 DEF At
        <2> QED BY <1>5, <1>6, <2>2
    <1>7. request'[d].stage \in Ended => request'[d].finished <= Bound(d)'
        BY <1>1, <1>3 DEF InTime, Paced, Bound
    <1> QED BY <1>4, <1>5, <1>6, <1>7 DEF Paced

\* And for itself.
LEMMA ChangesKeepTime ==
    ASSUME IInv, IInv', InTime, NEW r \in Requests, Changes(r)
    PROVE  InTime'
    <1> DEFINE q == request[r]
    <1>1. PICK new : /\ Set(r, new) /\ Timely(q, new) /\ now' = now
        BY DEF Changes, Moves, Caches
    <1>2. /\ request'[r] = new /\ \A e \in Requests \ {r} : request'[e] = request[e]
          /\ now \in Nat /\ Able(r) /\ q.stage \notin Ended
          /\ new.start = q.start /\ new \in RequestStates /\ q \in RequestStates
        BY <1>1, AbleIsOn DEF Changes, IInv, Set, Timely
    <1>3. /\ At(r, "generating") => new.stage \in Ended
          /\ new.stage = "generating" => new.since = now
        BY <1>1 DEF Timely, At, Pending, Ended
    <1>4. \A d \in Requests \ {r} : Paced(d)'
        BY <1>1, <1>2, <1>3, OthersKeepTime
    <1>5. /\ Latest(r)' = Latest(r) /\ Bound(r)' = Bound(r) /\ Latest(r) \in Nat
          /\ Bound(r) \in Nat /\ Latest(r) <= Bound(r)
          /\ Bound(r) >= HardCap(q) + Overrun /\ Generation \in Nat
        BY <1>1, <1>2, LatestMoves, LatestTypes DEF Bound, HardCap
    <1>6. ~At(r, "generating") => NobodyGenerates /\ now <= Latest(r)
        BY <1>2, OneGenerates DEF InTime, Paced, Able, Pending, At
    <1>7. ASSUME new.stage \in Ended, new.finished = now
          PROVE  Paced(r)'
        <2>1. now <= Bound(r)
            <3>1. CASE At(r, "generating")
                <4>1. /\ now <= q.due + Overrun /\ q.due <= q.start + RequestDeadline
                      /\ q.due \in Nat /\ q.start \in Nat
                    BY <1>2, <3>1, Facts DEF InTime, Paced, OnTime, At, RequestStates
                <4> QED BY <1>2, <1>5, <4>1, Budgets DEF HardCap
            <3> QED BY <1>2, <1>5, <1>6, <3>1
        <2> QED BY <1>2, <1>5, <1>7, <2>1 DEF Paced, At, Pending, Ended, Awaiting, InLoop,
                                              AwaitingProbe
    <1>8. ASSUME new.stage = "generating", new.since = now,
                 new.due \in now..(now + SynthesisDeadline)
          PROVE  Paced(r)'
        <2>1. /\ now <= now + Generation /\ now <= new.due + Overrun
              /\ new.due <= now + SynthesisDeadline
            BY <1>2, <1>5, <1>8, Budgets
        <2>2. new.stage \notin Pending /\ new.stage \notin Ended
            BY <1>8 DEF Pending, Ended
        <2>3. Generation' = Generation
            BY DEF Generation
        <2> QED BY <1>1, <1>2, <1>8, <2>1, <2>2, <2>3 DEF Paced, At
    <1>9. ASSUME new.stage \in Pending, q.stage # "generating"
          PROVE  Paced(r)'
        <2>1. NobodyGenerates /\ now <= Latest(r)
            BY <1>6, <1>9 DEF At
        <2>2. \A e \in Requests : ~At(e, "generating")'
            BY <1>2, <1>9, <2>1 DEF NobodyGenerates, At, Pending
        <2>3. new.stage \notin Ended /\ new.stage # "generating"
            BY <1>9 DEF Pending, Ended, Awaiting, InLoop, AwaitingProbe
        <2>4. ~At(r, "generating")' /\ request'[r].stage \notin Ended /\ now' <= Latest(r)'
            BY <1>1, <1>2, <1>5, <2>1, <2>3 DEF At
        <2> QED BY <2>2, <2>4 DEF Paced
    <1>10. Paced(r)'
        BY <1>1, <1>7, <1>8, <1>9 DEF Timely
    <1> QED BY <1>4, <1>10 DEF InTime

\* A request arrives before its hard cap.
LEMMA ArriveKeepsTime ==
    ASSUME IInv, IInv', InTime, NEW r \in Requests, NEW k \in Keys, Arrive(r, k)
    PROVE  InTime'
    <1> DEFINE q == [New EXCEPT !.key = k, !.start = now]
               y == [q EXCEPT !.stage = "retrieving"]
               e == Ending(q, Entry(k), "cache")
    <1>1. /\ now \in Nat /\ now' = now /\ LoopFree
          /\ request[r].stage = "new" /\ request[r].stage \notin Ended
        BY DEF IInv, Arrive, Keep, At, Ended
    <1>2. y.stage = "retrieving" /\ y.start = now /\ q.start = now
        BY DEF New
    <1>3. e.stage = "answered" /\ e.start = now /\ e.finished = now
        <2> HIDE DEF q
        <2> QED BY <1>2, EndingFields
    <1>4. Set(r, y) \/ Set(r, e)
        BY DEF Arrive
    <1> HIDE DEF y, e
    <1>5. PICK new : /\ Set(r, new) /\ new.start = now
                     /\ \/ new.stage = "retrieving"
                        \/ new.stage = "answered" /\ new.finished = now
        BY <1>2, <1>3, <1>4
    <1>6. request'[r] = new /\ \A d \in Requests \ {r} : request'[d] = request[d]
        BY <1>5 DEF IInv, Set
    <1>7. NobodyGenerates /\ ~At(r, "generating")
        BY <1>1, OneGenerates DEF At
    <1>8. \A d \in Requests \ {r} : Paced(d)'
        BY <1>1, <1>5, <1>7, OthersKeepTime
    <1>9. /\ Latest(r)' >= HardCap(new) /\ Bound(r)' >= HardCap(new) + Overrun
          /\ HardCap(new) >= now /\ HardCap(new) \in Nat /\ Latest(r)' \in Nat /\ Bound(r)' \in Nat
        <2>1. HardCap(request[r])' = HardCap(new)
            BY <1>6 DEF HardCap
        <2>2. HardCap(new) \in Nat /\ HardCap(new) >= now
            BY <1>1, <1>5, Budgets DEF HardCap
        <2>3. /\ Latest(r)' \in Nat /\ (Latest(r) >= HardCap(request[r]))'
              /\ Bound(r)' \in Nat /\ (Bound(r) >= HardCap(request[r]) + Overrun)'
            BY BoundedNext DEF Bounded
        <2> QED BY <2>1, <2>2, <2>3
    <1>10. \A d \in Requests : ~At(d, "generating")'
        BY <1>5, <1>6, <1>7 DEF NobodyGenerates, At
    <1>11. Paced(r)'
        BY <1>1, <1>5, <1>6, <1>9, <1>10, Budgets DEF Paced, At, Pending, Ended
    <1> QED BY <1>8, <1>11 DEF InTime

\* The clock goes on past nobody's last moment, and past no backend's.
LEMMA TickKeepsTime ==
    ASSUME IInv, InTime, Tick
    PROVE  InTime'
    <1>1. now \in Nat /\ now' = now + 1 /\ request' = request
        BY DEF IInv, Tick
    <1>2. ASSUME NEW r \in Requests PROVE Paced(r)'
        <2>1. /\ Latest(r)' = Latest(r) /\ Bound(r)' = Bound(r) /\ Paced(r)
              /\ Latest(r) \in Nat /\ HardCap(request[r]) <= Latest(r)
              /\ HardCap(request[r]) \in Nat /\ Generation = SynthesisDeadline + Overrun
            BY <1>1, LatestTypes DEF Latest, OverBefore, Bound, HardCap, InTime, Generation
        <2>2. ASSUME At(r, "generating")
              PROVE  /\ now + 1 <= request[r].due + Overrun
                     /\ now + 1 <= request[r].since + Generation
                     /\ request[r].due <= request[r].since + SynthesisDeadline
            <3>1. now < request[r].due + Overrun
                BY <2>2 DEF Tick, At, InLoop
            <3>2. request[r].due \in Nat /\ request[r].since \in Nat
                BY Facts DEF RequestStates
            <3> QED BY <1>1, <2>1, <2>2, <3>1, <3>2, Budgets DEF Paced
        <2>3. ASSUME request[r].stage \in Pending, NobodyGenerates
              PROVE  now + 1 <= Latest(r)
            <3>1. LoopFree
                BY <2>3 DEF Tick, NobodyGenerates, LoopFree, At
            <3>2. request[r].stage \in Awaiting
                BY <2>3, <3>1 DEF Pending, LoopFree
            <3> QED BY <1>1, <2>1, <3>1, <3>2 DEF Tick
        <2> QED BY <1>1, <2>1, <2>2, <2>3 DEF Paced, At, NobodyGenerates
    <1> QED BY <1>2 DEF InTime

\* Every request is over by its hard cap and one generation of each of the others,
\* whatever retrieval, the probes and the backend do, if the backend is at most
\* Overrun late: execute_answer_pipeline_with_trace on a loop that others block.
THEOREM AnsweredCorrect == Spec => []AnsweredInTime
    <1>1. Init => InTime
        BY DEF Init, InTime, Paced, New, At, Pending, Awaiting, AwaitingProbe, InLoop, Ended
    <1>2. ASSUME IInv, IInv', InTime, [Next]_vars
          PROVE  InTime'
        <2>1. ASSUME NEW r \in Requests, NEW k \in Keys, Arrive(r, k) PROVE InTime'
            BY <1>2, <2>1, ArriveKeepsTime
        <2>2. ASSUME NEW r \in Requests, Wake(r) \/ CapFires(r) \/ Run(r) PROVE InTime'
            BY <1>2, <2>2, StepChanges, ChangesKeepTime
        <2>3. CASE Tick
            BY <1>2, <2>3, TickKeepsTime
        <2>4. CASE UNCHANGED vars
            BY <1>2, <2>4 DEF vars, InTime, Paced, At, NobodyGenerates, Latest, OverBefore,
                              Bound, HardCap
        <2> QED BY <1>2, <2>1, <2>2, <2>3, <2>4 DEF Next
    <1>3. InTime => AnsweredInTime
        BY DEF InTime, Paced, AnsweredInTime, Bound, Generation
    <1> QED BY <1>1, <1>2, <1>3, Invariant, PTL DEF Spec
=============================================================================
