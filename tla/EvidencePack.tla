---------------------------- MODULE EvidencePack ----------------------------
(***************************************************************************)
(* src/skill/evidence/pack.py: build_evidence_pack chooses at most TopK of *)
(* the scored records and then prunes, a slice or a record at a time, until*)
(* what is left fits the token budget.  Records are known by their place in*)
(* the list the pack is given, slices are a set.                           *)
(*                                                                         *)
(* Scores and bonuses are in halves of the code's.  What completeness,     *)
(* authority and evidence level add to a record's score does not change    *)
(* while it is packed and is its worth.  The code breaks the last ties by  *)
(* the text of a slice and by evidence_id; here a tie goes either way.     *)
(***************************************************************************)
EXTENDS Ranking, Sequences, FiniteSets, FiniteSetsExt

CONSTANTS
    TokenBudget,    \* token_budget
    TopK,           \* top_k
    SupplementalMin \* supplemental_min_items

ASSUME PackConstants ==
    /\ TokenBudget \in Nat
    /\ TopK \in Nat \ {0}
    /\ SupplementalMin \in Nat

VARIABLES
    records, \* the scored records, in the order the caller ranked them
    kept,    \* working_records: the slices left of each record kept
    clipped, \* something was left out
    pruned,  \* something was left out to meet the token budget
    packing  \* "ready", "pruning" or "packed"

vars == <<records, kept, clipped, pruned, packing>>

Places == 1..Len(records)
Side(S, role) == {i \in S : records[i].role = role}
Primary(S) == Side(S, "primary")
Supplemental(S) == Side(S, "supplemental")

RoleScore(role) == IF role = "primary" THEN 16 ELSE 7
SliceScores(slices) == MapThenSumSet(LAMBDA s : 4 * s.score, slices)
Score(r, slices) == RoleScore(r.role) + r.worth + SliceScores(slices)

TokensOf(slices) == MapThenSumSet(LAMBDA s : s.tokens, slices)
TotalTokens(k) == MapThenSumSet(LAMBDA i : TokensOf(k[i]), DOMAIN k)

-----------------------------------------------------------------------------
(* _select_top_k *)

AtMost(a, b) == IF a <= b THEN a ELSE b

\* The first n members of S, or all of them: S[:n].
Leading(S, n) ==
    {T \in SUBSET S : /\ Cardinality(T) = AtMost(n, Cardinality(S))
                      /\ \A i \in T, j \in S \ T : i < j}

\* The places kept for supplemental records when both sides have some.
Reserve ==
    IF Primary(Places) = {} \/ Supplemental(Places) = {} \/ TopK = 1 THEN 0
    ELSE AtMost(AtMost(SupplementalMin, Cardinality(Supplemental(Places))), TopK - 1)

\* A record that shares the evidence_id of a chosen one does not fill a place.
Fillers(chosen) ==
    {i \in Places \ chosen : \A j \in chosen : records[i].id # records[j].id}

Select ==
    /\ packing = "ready"
    /\ \E p \in Leading(Primary(Places), TopK - Reserve) :
       \E s \in Leading(Supplemental(Places), Reserve) :
       \E f \in Leading(Fillers(p \cup s), TopK - Cardinality(p \cup s)) :
          /\ kept' = [i \in p \cup s \cup f |-> records[i].slices]
          /\ clipped' = (Len(records) > Cardinality(p \cup s \cup f))
    /\ pruned' = FALSE
    /\ packing' = "pruning"
    /\ UNCHANGED records

-----------------------------------------------------------------------------
(* The loop of build_evidence_pack *)

OverBudget ==
    /\ packing = "pruning"
    /\ DOMAIN kept # {}
    /\ TotalTokens(kept) > TokenBudget

Trimmable == {i \in DOMAIN kept : Cardinality(kept[i]) > 1}

SliceRank(s) == <<s.score + s.bonus, s.tokens>>

\* Slip: the cut is counted as pruning only.
PruneOnly == pruned' = TRUE /\ UNCHANGED clipped

MarkPruned == pruned' = TRUE /\ clipped' = TRUE

\* _trim_lowest_scoring_slice; a record's last slice is never trimmed.
Trim ==
    /\ OverBudget
    /\ \E i \in Trimmable : \E s \in kept[i] :
          /\ \A j \in Trimmable : \A t \in kept[j] : ~RanksBelow(SliceRank(t), SliceRank(s))
          /\ kept' = [kept EXCEPT ![i] = @ \ {s}]
    /\ MarkPruned
    /\ UNCHANGED <<records, packing>>

\* Slip: the reserve is kept for the supplement one record short.
ProtectedShort(i) ==
    /\ records[i].role = "supplemental"
    /\ Cardinality(Supplemental(DOMAIN kept)) < Reserve
    /\ Primary(DOMAIN kept) # {}

Protected(i) ==
    /\ records[i].role = "supplemental"
    /\ Cardinality(Supplemental(DOMAIN kept)) <= Reserve
    /\ Primary(DOMAIN kept) # {}

Removable ==
    IF \A i \in DOMAIN kept : Protected(i) THEN DOMAIN kept
    ELSE {i \in DOMAIN kept : ~Protected(i)}

RecordRank(i) == <<Score(records[i], kept[i]), TokensOf(kept[i])>>

\* _drop_lowest_scoring_record, when there is no slice to trim.
Drop ==
    /\ OverBudget
    /\ Trimmable = {}
    /\ \E i \in Removable :
          /\ \A j \in Removable : ~RanksBelow(RecordRank(j), RecordRank(i))
          /\ kept' = [j \in DOMAIN kept \ {i} |-> kept[j]]
    /\ MarkPruned
    /\ UNCHANGED <<records, packing>>

Finish ==
    /\ packing = "pruning"
    /\ ~OverBudget
    /\ packing' = "packed"
    /\ UNCHANGED <<records, kept, clipped, pruned>>

Next == Select \/ Trim \/ Drop \/ Finish

-----------------------------------------------------------------------------

Slices == [text : Nat, score : Nat, bonus : Nat, tokens : Nat, match : Nat]

\* A canonical record: raws are the hits it was merged from.
Records == [id : Seq(Nat), role : {"primary", "supplemental"}, worth : Nat,
            slices : SUBSET Slices, raws : Seq(Nat)]

TypeOK ==
    /\ records \in Seq(Records)
    /\ DOMAIN kept \subseteq Places
    /\ \A i \in DOMAIN kept : kept[i] \subseteq records[i].slices
    /\ clipped \in BOOLEAN
    /\ pruned \in BOOLEAN
    /\ packing \in {"ready", "pruning", "packed"}

\* The pack on its own, given any records.
Init ==
    /\ records \in Seq(Records)
    /\ kept = << >>
    /\ clipped = FALSE
    /\ pruned = FALSE
    /\ packing = "ready"

Spec == Init /\ [][Next]_vars

-----------------------------------------------------------------------------

\* However low they score and whatever order slices and records go in, the
\* pruning leaves the supplement its reserved records for as long as it leaves
\* the primary side any.
SupplementKept ==
    packing # "ready" /\ Primary(DOMAIN kept) # {}
        => Cardinality(Supplemental(DOMAIN kept)) >= Reserve

\* A pack that does not say it was clipped holds every slice of every record.
UnclippedIsWhole ==
    packing # "ready" /\ ~clipped => kept = [i \in Places |-> records[i].slices]
=============================================================================
