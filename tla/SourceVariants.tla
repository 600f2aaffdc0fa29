---------------------------- MODULE SourceVariants ----------------------------
(***************************************************************************)
(* One source step of src/skill/retrieval/engine.py once it may run:       *)
(* _run_source_variants asks the source with one wording of the query      *)
(* after the other, each call within a slice of what is left of the step's *)
(* budget, and merges the hits.  FirstWave knows this walk by its result.  *)
(*                                                                         *)
(* A wording is known by its reason code and a query by the markers the    *)
(* engine looks for; which wordings a query has is any choice among those  *)
(* its route can have (retrieval/query_variants.py), and two of them that  *)
(* come out as the same text count once.                                   *)
(***************************************************************************)
EXTENDS PlanTables, FiniteSets

CONSTANTS
    Plans,      \* the classifications to walk for
    Wordings,   \* the reason codes the queries may have besides "original"
    TickLength, \* of the clock, in tenths of a second
    UnwindMax   \* the longest an adapter takes to unwind when cancelled

ASSUME VariantsConstants ==
    /\ Plans \subseteq Classifications
    /\ TickLength \in Nat \ {0}
    /\ UnwindMax \in Nat

-----------------------------------------------------------------------------
(* The steps and their wordings *)

RouteSources ==
    [policy   |-> {"policy_official_registry", "policy_official_web_allowlist_fallback"},
     academic |-> {"academic_semantic_scholar", "academic_arxiv", "academic_asta_mcp"},
     industry |-> {"industry_web_discovery", "industry_news_rss",
                   "industry_official_or_filings"}]

StepsFor(c) ==
    {Step(s, c.primary, FALSE) : s \in RouteSources[c.primary]}
    \cup IF c.supplement = NoRoute THEN {}
         ELSE {Step(s, c.supplement, TRUE) : s \in RouteSources[c.supplement]}

\* early: _INDUSTRY_EARLY_STOP_MARKERS; document: the retry markers company,
\* issuer, vendor, platform; direct: _POLICY_DIRECT_FAMILY_EARLY_STOP_MARKERS;
\* fragment: _POLICY_FRAGMENT_PRIORITY_MARKERS.
MarksFor(route) ==
    {m \in [early : BOOLEAN, document : BOOLEAN, direct : BOOLEAN, fragment : BOOLEAN] :
        /\ m.early \/ m.document => route = "industry"
        /\ m.direct \/ m.fragment => route = "policy"}

\* The order in which build_query_variants lists the wordings of a route.
CandidateOrder ==
    [policy   |-> <<"original", "cross_domain_fragment_focus", "core_focus", "policy_focus",
                    "policy_change", "policy_effective_date">>,
     industry |-> <<"original", "cross_domain_fragment_focus", "document_focus",
                    "document_concept_focus", "core_focus", "industry_cjk_gloss",
                    "industry_focus", "industry_trend", "industry_share">>,
     academic |-> <<"original", "cross_domain_fragment_focus", "academic_ascii_core",
                    "academic_source_hint", "academic_phrase_locked", "academic_topic_focus",
                    "academic_focus", "academic_lookup", "academic_benchmark",
                    "academic_evidence_type_focus">>]

MixedOnly == {"policy_focus", "industry_focus", "academic_focus"}

Has(v, reasons) == \E i \in 1..Len(v) : v[i] \in reasons

\* The members of v among the words, in their order: SelectSeq by counting places.
Kept(v, words) ==
    LET places == {i \in 1..Len(v) : v[i] \in words}
        place(i) == Cardinality({j \in places : j <= i})
    IN  [k \in 1..Cardinality(places) |-> v[CHOOSE i \in places : place(i) = k]]

\* query_variant_budget
VariantBudget(c) == IF c.label = "mixed" \/ c.primary = "industry" THEN 5 ELSE 3

\* build_query_variants: the wordings the query has, in order, up to the budget.
BuildQueryVariants(c, route, has) ==
    LET listed == Kept(CandidateOrder[route], {"original"} \cup has)
    IN  SubSeq(listed, 1, IF Len(listed) < VariantBudget(c) THEN Len(listed)
                                                            ELSE VariantBudget(c))

\* A stable sort: by key, then by place.
StableSort(v, key) ==
    LET place(i) == Cardinality({j \in 1..Len(v) : \/ key[v[j]] < key[v[i]]
                                                   \/ key[v[j]] = key[v[i]] /\ j <= i})
    IN  [k \in 1..Len(v) |-> v[CHOOSE i \in 1..Len(v) : place(i) = k]]

AllWordings == UNION {{CandidateOrder[r][i] : i \in 1..Len(CandidateOrder[r])} : r \in Routes}

\* The place of each wording in a priority table, or last.
Priority(table) ==
    [w \in AllWordings |->
        IF Has(table, {w}) THEN CHOOSE i \in 1..Len(table) : table[i] = w ELSE 99]

AcademicPriority == Priority(
    <<"academic_source_hint", "academic_ascii_core", "academic_topic_focus",
      "academic_phrase_locked", "original", "academic_evidence_type_focus",
      "academic_lookup", "academic_benchmark", "academic_focus">>)

IndustryPriority == Priority(
    <<"original", "industry_cjk_gloss", "document_focus", "document_concept_focus",
      "core_focus", "industry_focus", "industry_trend", "industry_share">>)

MixedSupplementPriority ==
    LET first == Priority(<<"cross_domain_fragment_focus", "document_focus",
                            "document_concept_focus", "core_focus", "original">>)
    IN  [w \in AllWordings |-> 100 * first[w] + IndustryPriority[w]]

FragmentPriority == Priority(<<"cross_domain_fragment_focus">>)

-----------------------------------------------------------------------------
(* What the walk asks about its step *)

PrimaryIndustry(w) ==
    w.plan.label = "single" /\ w.plan.primary = "industry"
    /\ w.step.route = "industry" /\ ~w.step.supplemental

MixedSupplementalIndustry(w) ==
    w.plan.label = "mixed" /\ w.plan.supplement = "industry"
    /\ w.step.route = "industry" /\ w.step.supplemental

RegistryFirst(w) == w.step.source = "policy_official_registry" /\ ~w.step.supplemental

MixedPrimaryPolicy(w) ==
    w.plan.label = "mixed" /\ w.plan.primary = "policy" /\ RegistryFirst(w)

DocumentRetryWordings == {"document_focus", "document_concept_focus", "core_focus"}

PrimaryIndustryDocument(w) == PrimaryIndustry(w) /\ w.marks.document

StopAfterFirstSuccess(w) ==
    \/ w.step.route = "academic"
    \/ PrimaryIndustry(w) /\ w.marks.early /\ w.step.source = "industry_web_discovery"
    \/ RegistryFirst(w) /\ (MixedPrimaryPolicy(w) \/ w.marks.direct)

\* Slip: the answer "nothing found" ends every walk.
StopAfterAnyNoHits(w) == TRUE

StopAfterFirstNoHits(w) == PrimaryIndustry(w) /\ w.marks.early

\* The reordering of _run_source_variants before its loop.
Prioritized(w, v) ==
    CASE w.step.route = "academic" ->
           IF Has(v, {"academic_source_hint", "academic_ascii_core", "academic_phrase_locked",
                      "academic_evidence_type_focus", "academic_topic_focus"})
             THEN StableSort(v, AcademicPriority) ELSE v
      [] w.step.route = "industry" ->
           LET glossed == IF Has(v, {"industry_cjk_gloss"})
                            THEN StableSort(v, IndustryPriority) ELSE v
           IN  IF MixedSupplementalIndustry(w)
                 THEN StableSort(glossed, MixedSupplementPriority) ELSE glossed
      [] w.step.route = "policy" ->
           IF MixedPrimaryPolicy(w) /\ w.marks.fragment
             THEN StableSort(v, FragmentPriority) ELSE v

\* _dedupe_academic_variants_by_upstream_query: any but the first wording may be
\* the same question to the upstream as an earlier one.
Deduped(w, v) ==
    IF w.step.route # "academic" THEN {v}
    ELSE {Kept(v, {v[1]} \cup words) : words \in SUBSET {v[i] : i \in 1..Len(v)}}

VariantsOf(w, has) == Deduped(w, Prioritized(w, BuildQueryVariants(w.plan, w.step.route, has)))

-----------------------------------------------------------------------------
(* The budget of one call, in ticks *)

Third(w) == Ticks(w.perSource, 3 * TickLength)
Half(w) == Ticks(w.perSource, 2 * TickLength)
MixedShare(w) == Ticks(33 * w.perSource, 100 * TickLength)

Least(a, b) == IF a < b THEN a ELSE b

GlossedPair(w, i) ==
    /\ PrimaryIndustry(w)
    /\ Has(w.variants, {"industry_cjk_gloss"})
    /\ w.variants[i] \in {"original", "industry_cjk_gloss"}

DocumentOriginal(w, i) ==
    /\ PrimaryIndustryDocument(w)
    /\ w.variants[i] = "original"
    /\ Has(w.variants, DocumentRetryWordings)

HasLater(w, i) == i < Len(w.variants)

\* Slip: the share of the source's budget, whatever is left of it.
SliceOfBudget(w, i, left) ==
    IF Len(w.variants) > 1 /\ GlossedPair(w, i) THEN Third(w) ELSE left

\* _variant_timeout_seconds
Slice(w, i, left) ==
    IF Len(w.variants) = 1 THEN left
    ELSE IF GlossedPair(w, i) THEN Least(left, Third(w))
    ELSE IF DocumentOriginal(w, i) /\ HasLater(w, i) THEN Least(left, Half(w))
    ELSE IF /\ MixedSupplementalIndustry(w) /\ HasLater(w, i)
            /\ w.variants[i] \in {"original", "industry_cjk_gloss"}
      THEN Least(left, MixedShare(w))
    ELSE left

\* Slips: any failure is tried again; the gloss is not.
RetryAnyFailure(w, i, r, left) == left > 0 /\ HasLater(w, i)
RetryOriginalOnly(w, i, r, left) ==
    left > 0 /\ r = "timeout" /\ HasLater(w, i) /\ w.variants[i] = "original"

\* _should_continue_after_variant_failure
ShouldContinue(w, i, r, left) ==
    /\ left > 0 /\ Len(w.variants) > 1 /\ r = "timeout" /\ HasLater(w, i)
    /\ \/ DocumentOriginal(w, i)
       \/ GlossedPair(w, i)
       \/ /\ MixedSupplementalIndustry(w)
          /\ w.variants[i] \in {"cross_domain_fragment_focus", "original",
                                "industry_cjk_gloss"}

-----------------------------------------------------------------------------
(* The walk *)

VARIABLES
    walk,   \* plan, step, query and budget of the walk, and its variants
    at,     \* the variant the loop is at
    now,    \* loop.time(), zero when the step took its deadline_at
    hits,   \* whether merged_hits is nonempty
    reason, \* last_failure_reason
    last,   \* how the last call ended: its reason, and if it was by its timer
    asked,  \* how many calls were made
    result  \* what _run_source_variants returned, or how it ended

vars == <<walk, at, now, hits, reason, last, asked, result>>

CallFailures == {"no_hits", "timeout", "rate_limited", "adapter_error"}
Results == CallFailures \cup {"ok", "raised", "cancelled"}
NoCall == [reason |-> "none", expired |-> FALSE]

Init ==
    /\ \E c \in Plans : \E s \in StepsFor(c) : \E m \in MarksFor(s.route) :
       \E has \in SUBSET (IF c.label = "mixed" THEN Wordings ELSE Wordings \ MixedOnly) :
       \E budget \in {PerSourceTimeout(c, q) : q \in Markers} :
       LET base == [plan |-> c, step |-> s, marks |-> m, perSource |-> budget] IN
       \E v \in VariantsOf(base, has) :
           walk = [plan |-> c, step |-> s, marks |-> m, perSource |-> budget,
                   deadline |-> Ticks(budget, TickLength), variants |-> v]
    /\ now \in 0..walk.deadline
    /\ at = 1
    /\ hits = FALSE
    /\ reason = "no_hits"
    /\ last = NoCall
    /\ asked = 0
    /\ result = "none"

Left == walk.deadline - now
MayCall == result = "none" /\ at <= Len(walk.variants) /\ Left > 0

\* break
LoopOver == at' = Len(walk.variants) + 1
NextVariant == at' = at + 1

\* Slip: the failed attempt is returned whatever earlier variants found.
ReturnAttempt(r) == result' = r

\* A failure ends the walk: with the hits of earlier variants, if any.
ReturnMerged(r) == result' = IF hits THEN "ok" ELSE r

\* The adapter answers with hits.
Found ==
    /\ hits' = TRUE
    /\ UNCHANGED reason
    /\ IF StopAfterFirstSuccess(walk)
         THEN result' = "ok" /\ UNCHANGED at
         ELSE NextVariant /\ UNCHANGED result

\* The adapter answers without hits.
FoundNothing ==
    /\ reason' = "no_hits"
    /\ UNCHANGED <<hits, result>>
    /\ IF StopAfterFirstNoHits(walk) THEN LoopOver ELSE NextVariant

\* The call failed with r.
Failed(r) ==
    /\ reason' = r
    /\ UNCHANGED hits
    /\ IF ShouldContinue(walk, at, r, walk.deadline - now')
         THEN NextVariant /\ UNCHANGED result
         ELSE ReturnMerged(r) /\ UNCHANGED at

\* _normalize_hits cannot read a hit: the exception leaves the walk.
Raised == result' = "raised" /\ UNCHANGED <<at, hits, reason>>

Ended(r, expired) ==
    /\ last' = [reason |-> r, expired |-> expired]
    /\ asked' = asked + 1

\* One call that ends by itself within its slice; an adapter may raise a
\* timeout of its own.
Call ==
    /\ MayCall
    /\ \E d \in 0..Slice(walk, at, Left) : now' = now + d
    /\ \/ Ended("ok", FALSE) /\ Found
       \/ Ended("no_hits", FALSE) /\ FoundNothing
       \/ \E r \in {"timeout", "rate_limited", "adapter_error"} :
              Ended(r, FALSE) /\ Failed(r)
       \/ Ended("raised", FALSE) /\ Raised
    /\ UNCHANGED walk

\* The slice runs out: wait_for cancels the adapter and waits for it to be gone.
CallExpires ==
    /\ MayCall
    /\ \E u \in 0..UnwindMax : now' = now + Slice(walk, at, Left) + u
    /\ Ended("timeout", TRUE)
    /\ Failed("timeout")
    /\ UNCHANGED walk

\* The step's task is cancelled while a call is in flight or unwinding, or the
\* adapter lets a CancelledError of its own out.
Cut ==
    /\ MayCall
    /\ \E d \in 0..Slice(walk, at, Left) + 2 * UnwindMax : now' = now + d
    /\ result' = "cancelled"
    /\ UNCHANGED <<walk, at, hits, reason, last, asked>>

\* What the code after the loop returns.
Verdict == IF hits THEN "ok" ELSE IF Left <= 0 THEN "timeout" ELSE reason

\* The loop is over: no variant is left, or no time for another.
Return ==
    /\ result = "none"
    /\ at > Len(walk.variants) \/ Left <= 0
    /\ result' = Verdict
    /\ UNCHANGED <<walk, at, now, hits, reason, last, asked>>

Next == Call \/ CallExpires \/ Cut \/ Return

Spec == Init /\ [][Next]_vars

-----------------------------------------------------------------------------
(* What a step promises the wave *)

Answered == result \notin {"none", "cancelled", "raised"}

\* FirstWave gives a step its deadline and one unwinding, whatever the slices
\* add up to, and after the deadline nothing but a timeout or earlier hits.
EndsAsWaveAssumes ==
    /\ result # "cancelled" => now <= walk.deadline + UnwindMax
    /\ Answered /\ now > walk.deadline => result \in {"ok", "timeout"}

\* Hits of any variant are the answer, also when a later variant fails or the
\* time runs out; only a cut or an unreadable hit loses them.
HitsSurvive == Answered => (result = "ok" <=> hits)

\* "Nothing found" is said of a source only after every wording was tried, but
\* for the packaging queries of an industry plan.
NothingFoundIsThorough ==
    result = "no_hits" =>
        asked = Len(walk.variants) \/ (PrimaryIndustry(walk) /\ walk.marks.early)

\* A slice cut short for a retry gets its retry: _variant_timeout_seconds and
\* _should_continue_after_variant_failure agree on which variants those are.
RetryFollows ==
    Answered /\ last.expired /\ Left > 0 => at = Len(walk.variants)

\* After a rate limit or an error the source is left alone.
BacksOff ==
    [][last.reason \in {"rate_limited", "adapter_error"} => asked' = asked]_vars
=============================================================================
