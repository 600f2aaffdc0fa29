------------------------------ MODULE Evidence ------------------------------
(***************************************************************************)
(* What src/skill/retrieval/priority.py and src/skill/evidence make of a   *)
(* list of hits: their order, which of them are about one thing, and the   *)
(* canonical record of such a group.                                       *)
(*                                                                         *)
(* A hit is known by what is compared: its source; name, its normalised    *)
(* title with the authority or the host; marks, its identifiers, each with *)
(* a kind; official, whether it names an authority; quality, the rest of   *)
(* its standing among duplicates; tier and worth, what its credibility     *)
(* tier is worth in the order of hits and in a score; match, how well it   *)
(* answers the query and the variants that found it; fresh, its recency    *)
(* and length; url; text, its snippet (0 when blank), with tokens, and     *)
(* bonus, what its dates and figures add when slices are trimmed.          *)
(***************************************************************************)
EXTENDS PlanTables, Ranking, FiniteSets, FiniteSetsExt, SequencesExt

CONSTANT MaxSlices \* slices a record retains: 4

Hits == [source : SourceIds, name : Nat, marks : SUBSET [kind : STRING, value : Nat],
         official : BOOLEAN, quality : Nat, tier : Nat, worth : Nat, match : Nat,
         fresh : Nat, url : Nat, text : Nat, tokens : Nat, bonus : Nat]

RouteOf(source) ==
    IF source \in {"policy_official_registry", "policy_official_web_allowlist_fallback"}
      THEN "policy"
    ELSE IF source \in {"academic_asta_mcp", "academic_semantic_scholar", "academic_arxiv"}
      THEN "academic" ELSE "industry"

\* Position in _POLICY_SOURCE_PRIORITY or _ACADEMIC_SOURCE_PRIORITY.
SourcePriority(source) ==
    CASE source \in {"policy_official_registry", "academic_asta_mcp"} -> 0
      [] source \in {"policy_official_web_allowlist_fallback", "academic_semantic_scholar"} -> 1
      [] source = "academic_arxiv" -> 2
      [] OTHER -> 9

\* S in ascending order of Key, as sorted() leaves it.
SortedBy(S, Key(_)) ==
    LET key == [x \in S |-> Key(x)]
        place == [x \in S |-> 1 + Cardinality({y \in S : RanksBelow(key[y], key[x])})]
    IN  [i \in 1..Cardinality(S) |-> CHOOSE x \in S : place[x] = i]

\* _sort_policy, _sort_academic and _sort_industry, on places in hits.
SortRoute(route, hits, S) ==
    IF route = "industry"
      THEN SortedBy(S, LAMBDA p : <<-hits[p].match, hits[p].tier, -hits[p].fresh, p>>)
      ELSE SortedBy({p \in S : route = "academic" => RouteOf(hits[p].source) = "academic"},
                    LAMBDA p : <<SourcePriority(hits[p].source), -hits[p].match,
                                 -hits[p].fresh, p>>)

\* prioritize_hits; every hit of a mix is of one of its two routes.
PrioritizeHits(c, hits) ==
    LET of(route) == SortRoute(route, hits,
                         {p \in DOMAIN hits : c.label = "mixed" => RouteOf(hits[p].source) = route})
        order == IF c.label = "mixed" /\ c.supplement # NoRoute
                   THEN of(c.primary) \o of(c.supplement) ELSE of(c.primary)
    IN  [i \in DOMAIN order |-> hits[order[i]]]

-----------------------------------------------------------------------------
(* Duplicates: collapse_evidence_records *)

Of(h, kinds) == {m \in h.marks : m.kind \in kinds}

Dated(h) == Of(h, {"published", "effective"}) # {}

\* An author, a year or a level of evidence alone ("paper") makes an academic record,
\* though it is no identifier.  A version status comes with policy sources only.
DomainOf(h) ==
    IF RouteOf(h.source) = "policy" \/ (h.official /\ Dated(h)) THEN "policy"
    ELSE IF RouteOf(h.source) = "academic"
            \/ Of(h, {"doi", "arxiv", "heuristic", "paper"}) # {}
      THEN "academic" ELSE "industry"

\* A policy without an authority and a date is no evidence.
Accepted(h) == DomainOf(h) = "policy" => h.official /\ Dated(h)

\* _academic_aliases: without an identifier a paper is known by where it is.
Aliases(h) ==
    LET ids == Of(h, {"doi", "arxiv", "heuristic"}) IN
    IF ids = {} THEN {[kind |-> "source", value |-> h.url]} ELSE ids

\* _record_identity_matches and _should_merge_industry; being worded alike is a
\* relation that need not be transitive, and neither is sharing a date.
Matches(h, first) ==
    /\ h.name = first.name
    /\ IF DomainOf(h) = "policy"
         THEN Of(h, {"version", "published", "effective"})
                \cap Of(first, {"version", "published", "effective"}) # {}
         ELSE Of(h, {"wording"}) \cap Of(first, {"wording"}) # {}

GroupAliases(hits, g) == UNION {Aliases(hits[g[i]]) : i \in DOMAIN g}

Joins(hits, p, g) ==
    /\ DomainOf(hits[p]) = DomainOf(hits[g[1]])
    /\ IF DomainOf(hits[p]) = "academic"
         THEN Aliases(hits[p]) \cap GroupAliases(hits, g) # {}
         ELSE Matches(hits[p], hits[g[1]])

\* Groups are made in the order of their first hits.
InOrder(groups) == SortedBy(groups, LAMBDA g : g)

\* Slip: a paper joins the first group it shares an alias with, and no more.
BridgesNothing(hits, p, groups) == {Head(InOrder(groups))}

\* The groups a hit brings together: all it shares an alias with for a paper,
\* the first that matches otherwise.
Merged(hits, p, groups) ==
    IF DomainOf(hits[p]) = "academic" THEN groups ELSE {Head(InOrder(groups))}

\* One turn of the loops over records: place p is put into the groups so far.
AddToGroups(hits, p, groups) ==
    LET near == {g \in groups : Joins(hits, p, g)}
        met == Merged(hits, p, near)
        order == InOrder(met)
    IN  IF ~Accepted(hits[p]) THEN groups
        ELSE IF near = {} THEN groups \cup {<<p>>}
        ELSE (groups \ met) \cup {Append(order[1], p) \o FlattenSeq(Tail(order))}

-----------------------------------------------------------------------------
(* The canonical record of a group *)

Has(h, kind) == IF Of(h, {kind}) = {} THEN 0 ELSE 1

\* _policy_priority and _academic_priority, best first; industry keeps its order.
Preferred(hits, g) ==
    LET h(i) == hits[g[i]]
        key(i) == CASE DomainOf(h(1)) = "policy" ->
                          <<-Has(h(i), "version"), -Has(h(i), "effective"), -h(i).quality, i>>
                    [] DomainOf(h(1)) = "academic" ->
                          <<-h(i).quality, -Has(h(i), "doi"), -Has(h(i), "arxiv"), i>>
                    [] OTHER -> <<i>>
        order == SortedBy(DOMAIN g, key)
    IN  [i \in DOMAIN order |-> h(order[i])]

\* Different snippets, the preferred first and worth three times the others.
RetainedSlices(hits, g) ==
    LET best == Preferred(hits, g)
        new == {i \in DOMAIN best : /\ best[i].text # 0
                                    /\ \A j \in 1..i - 1 : best[j].text # best[i].text}
        place(i) == Cardinality({j \in new : j <= i})
    IN  {[text |-> best[i].text, score |-> IF place(i) = 1 THEN 3 ELSE 1,
          bonus |-> best[i].bonus, tokens |-> best[i].tokens, match |-> best[i].match] :
            i \in {j \in new : place(j) <= MaxSlices}}

\* The identifier evidence_id is built from: the first kind the group has.
IdKind(domain, marks) ==
    LET kinds == IF domain = "policy" THEN <<"version", "published", "effective">>
                 ELSE <<"doi", "arxiv", "heuristic", "source">>
    IN  kinds[Min({i \in DOMAIN kinds : \E m \in marks : m.kind = kinds[i]})]

\* evidence_id; the order of the numbers stands for the order of the texts.
EvidenceId(hits, g) ==
    LET best == Preferred(hits, g)
        domain == DomainOf(best[1])
        marks == IF domain = "academic" THEN GroupAliases(hits, g)
                 ELSE UNION {best[i].marks : i \in DOMAIN best}
        kind == IdKind(domain, marks)
        first == best[Min({i \in DOMAIN best : Of(best[i], {kind}) # {}})]
    IN  CASE domain = "academic" ->
               <<0, CHOOSE i \in 1..4 : <<"arxiv", "doi", "heuristic", "source">>[i] = kind,
                 Min({m.value : m \in {n \in marks : n.kind = kind}})>>
          [] domain = "industry" -> <<1, hits[g[1]].name, hits[g[1]].url>>
          [] OTHER -> <<2, best[1].name, (CHOOSE m \in Of(first, {kind}) : TRUE).value>>

\* What score_evidence_records finds: a group is primary if one of its hits is.
CanonicalRecord(hits, role, g) ==
    [id     |-> EvidenceId(hits, g),
     role   |-> IF \E i \in DOMAIN g : role[g[i]] = "primary" THEN "primary" ELSE "supplemental",
     worth  |-> Max({hits[g[i]].worth : i \in DOMAIN g}),
     slices |-> RetainedSlices(hits, g),
     raws   |-> g]
=============================================================================
