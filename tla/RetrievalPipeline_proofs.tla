---------------------- MODULE RetrievalPipeline_proofs ----------------------
(***************************************************************************)
(* Theorems about RetrievalPipeline, the plan it starts from and the       *)
(* EvidencePack it ends in, for every query, all lists of hits the engine  *)
(* may return and all limits.                                              *)
(***************************************************************************)
EXTENDS RetrievalPipeline, FiniteSetTheorems, FunctionTheorems, SequenceTheorems,
        WellFoundedInduction, TLAPS

-----------------------------------------------------------------------------
(* The pack: EvidencePack, for every list of records and all limits *)

\* The places of a list, a side of it and what is kept are finite sets.
LEMMA PlacesFinite ==
    ASSUME Len(records) \in Nat
    PROVE  /\ IsFiniteSet(Places) /\ Cardinality(Places) = Len(records)
           /\ \A S \in SUBSET Places : IsFiniteSet(S) /\ Cardinality(S) \in Nat
<1>1. IsFiniteSet(Places) /\ Cardinality(Places) = Len(records)
  BY FS_Interval DEF Places
<1> QED
  BY <1>1, FS_Subset, FS_CardinalityType

\* What is reserved is never more than the supplement has.
LEMMA ReserveAvailable ==
    ASSUME Len(records) \in Nat
    PROVE  /\ Reserve \in Nat
           /\ Reserve <= Cardinality(Supplemental(Places))
           /\ Reserve <= TopK
<1>1. Cardinality(Supplemental(Places)) \in Nat
  BY PlacesFinite DEF Supplemental, Side
<1> QED
  BY <1>1, PackConstants DEF Reserve, AtMost

\* Removing one place takes one supplemental record away at most.
LEMMA OneFewer ==
    ASSUME Len(records) \in Nat, NEW S \in SUBSET Places, NEW i \in S
    PROVE  Cardinality(Supplemental(S \ {i})) =
               IF records[i].role = "supplemental"
                 THEN Cardinality(Supplemental(S)) - 1 ELSE Cardinality(Supplemental(S))
<1>1. Supplemental(S \ {i}) = Supplemental(S) \ {i}
  BY DEF Supplemental, Side
<1>2. IsFiniteSet(Supplemental(S))
  BY PlacesFinite DEF Supplemental, Side
<1> QED
  BY <1>1, <1>2, FS_RemoveElement DEF Supplemental, Side

\* Nothing is kept before the selection; what a record holds does not matter.
PackInv ==
    /\ Len(records) \in Nat
    /\ DOMAIN kept \subseteq Places
    /\ packing = "ready" => DOMAIN kept = {}
    /\ SupplementKept
    /\ UnclippedIsWhole

\* A selection keeps its reserve, and is everything unless it says otherwise.
LEMMA SelectKeepsInv ==
    ASSUME PackInv, Select
    PROVE  PackInv'
<1>1. PICK p \in Leading(Primary(Places), TopK - Reserve) :
      \E s \in Leading(Supplemental(Places), Reserve) :
      \E f \in Leading(Fillers(p \cup s), TopK - Cardinality(p \cup s)) :
          /\ kept' = [i \in p \cup s \cup f |-> records[i].slices]
          /\ clipped' = (Len(records) > Cardinality(p \cup s \cup f))
  BY DEF Select
<1>2. PICK s \in Leading(Supplemental(Places), Reserve) :
      \E f \in Leading(Fillers(p \cup s), TopK - Cardinality(p \cup s)) :
          /\ kept' = [i \in p \cup s \cup f |-> records[i].slices]
          /\ clipped' = (Len(records) > Cardinality(p \cup s \cup f))
  BY <1>1
<1>3. PICK f \in Leading(Fillers(p \cup s), TopK - Cardinality(p \cup s)) :
          /\ kept' = [i \in p \cup s \cup f |-> records[i].slices]
          /\ clipped' = (Len(records) > Cardinality(p \cup s \cup f))
  BY <1>2
<1> DEFINE chosen == p \cup s \cup f
<1>4. p \subseteq Places /\ s \subseteq Supplemental(Places) /\ f \subseteq Places
  BY DEF Leading, Primary, Supplemental, Side, Fillers
<1>5. chosen \subseteq Places
  BY <1>4 DEF Supplemental, Side
<1>6. records' = records /\ packing' = "pruning" /\ pruned' = FALSE
  BY DEF Select
<1>7. Len(records') \in Nat /\ DOMAIN kept' \subseteq Places'
  BY <1>3, <1>5, <1>6 DEF PackInv, Places
<1>8. Cardinality(s) = Reserve
  BY PlacesFinite, ReserveAvailable DEF PackInv, Leading, AtMost, Supplemental, Side
<1>9. s \subseteq Supplemental(chosen)
  BY <1>4 DEF Supplemental, Side
<1>10. IsFiniteSet(Supplemental(chosen))
  BY <1>5, PlacesFinite DEF PackInv, Supplemental, Side
<1>11. Cardinality(Supplemental(chosen)) >= Reserve
  BY <1>8, <1>9, <1>10, FS_Subset
<1>12. SupplementKept'
  <2>1. DOMAIN kept' = chosen
    BY <1>3
  <2>2. Supplemental(DOMAIN kept)' = Supplemental(chosen) /\ Reserve' = Reserve
    BY <2>1, <1>6 DEF Supplemental, Primary, Side, Reserve, Places
  <2> QED BY <2>2, <1>11 DEF SupplementKept
<1>13. UnclippedIsWhole'
  <2>1. SUFFICES ASSUME ~clipped' PROVE kept' = [i \in Places' |-> records[i].slices]
    BY <1>6 DEF UnclippedIsWhole
  <2>2. Cardinality(chosen) = Cardinality(Places)
    <3>1. ~ (Len(records) > Cardinality(chosen))
      BY <2>1, <1>3
    <3>2. Cardinality(chosen) <= Cardinality(Places) /\ Cardinality(chosen) \in Nat
      BY <1>5, PlacesFinite, FS_Subset DEF PackInv
    <3> QED BY <3>1, <3>2, PlacesFinite DEF PackInv
  <2>3. chosen = Places
    BY <2>2, <1>5, PlacesFinite, FS_Subset DEF PackInv
  <2> QED BY <2>3, <1>3, <1>6 DEF Places
<1> QED
  BY <1>6, <1>7, <1>12, <1>13 DEF PackInv

\* Trimming a slice takes no record away.
LEMMA TrimKeepsInv ==
    ASSUME PackInv, Trim
    PROVE  PackInv'
<1>1. PICK i \in DOMAIN kept : \E s \in kept[i] : kept' = [kept EXCEPT ![i] = @ \ {s}]
  BY DEF Trim, Trimmable
<1>2. records' = records /\ packing' = packing /\ packing = "pruning"
      /\ clipped' = TRUE /\ pruned' = TRUE
  BY DEF Trim, OverBudget, MarkPruned
<1>3. DOMAIN kept' = DOMAIN kept
  BY <1>1
<1>4. Len(records') \in Nat /\ DOMAIN kept' \subseteq Places'
  BY <1>2, <1>3 DEF PackInv, Places
<1>5. SupplementKept'
  BY <1>2, <1>3 DEF PackInv, SupplementKept, Supplemental, Primary, Side, Reserve, Places
<1> QED
  BY <1>2, <1>4, <1>5 DEF PackInv, UnclippedIsWhole

\* A dropped supplemental record was one more than the reserve, or the last
\* primary record was gone before it.
LEMMA DropKeepsInv ==
    ASSUME PackInv, Drop
    PROVE  PackInv'
<1>1. PICK i \in Removable : kept' = [j \in DOMAIN kept \ {i} |-> kept[j]]
  BY DEF Drop
<1>2. records' = records /\ packing' = packing /\ packing = "pruning"
      /\ clipped' = TRUE /\ pruned' = TRUE
  BY DEF Drop, OverBudget, MarkPruned
<1>3. i \in DOMAIN kept /\ DOMAIN kept' = DOMAIN kept \ {i} /\ DOMAIN kept \subseteq Places
  BY <1>1 DEF Removable, PackInv
<1>4. Len(records') \in Nat /\ DOMAIN kept' \subseteq Places'
  BY <1>2, <1>3 DEF PackInv, Places
<1>5. SupplementKept'
  <2>1. SUFFICES ASSUME Primary(DOMAIN kept \ {i}) # {}
                 PROVE  Cardinality(Supplemental(DOMAIN kept \ {i})) >= Reserve
    BY <1>2, <1>3 DEF SupplementKept, Supplemental, Primary, Side, Reserve, Places
  <2>2. PICK j \in DOMAIN kept : records[j].role = "primary"
    BY <2>1 DEF Primary, Side
  <2>3. ~Protected(j)
    BY <2>2 DEF Protected
  <2>4. ~Protected(i)
    BY <2>2, <2>3, <1>1 DEF Removable
  <2>5. Primary(DOMAIN kept) # {}
    BY <2>2 DEF Primary, Side
  <2>6. Cardinality(Supplemental(DOMAIN kept)) >= Reserve
    BY <2>5, <1>2 DEF PackInv, SupplementKept
  <2>7. Cardinality(Supplemental(DOMAIN kept)) \in Nat /\ Reserve \in Nat
    BY <1>3, PlacesFinite, ReserveAvailable DEF PackInv, Supplemental, Side
  <2>8. CASE records[i].role = "supplemental"
    <3>1. Cardinality(Supplemental(DOMAIN kept)) > Reserve
      BY <2>4, <2>5, <2>7, <2>8 DEF Protected
    <3>2. Cardinality(Supplemental(DOMAIN kept \ {i})) = Cardinality(Supplemental(DOMAIN kept)) - 1
      BY <2>8, <1>3, OneFewer DEF PackInv
    <3> QED BY <3>1, <3>2, <2>7
  <2>9. CASE records[i].role # "supplemental"
    BY <2>6, <2>9, <1>3, OneFewer DEF PackInv
  <2> QED BY <2>8, <2>9
<1> QED
  BY <1>2, <1>4, <1>5 DEF PackInv, UnclippedIsWhole

\* Selection, the two prunings and the end of the loop keep what a pack promises.
LEMMA PackKeepsInv ==
    ASSUME PackInv, [Next]_vars
    PROVE  PackInv'
<1>1. CASE Select BY <1>1, SelectKeepsInv
<1>2. CASE Trim BY <1>2, TrimKeepsInv
<1>3. CASE Drop BY <1>3, DropKeepsInv
<1>4. CASE Finish
  <2>1. UNCHANGED <<records, kept, clipped, pruned>> /\ packing = "pruning" /\ packing' = "packed"
    BY <1>4 DEF Finish
  <2> QED
    BY <2>1 DEF PackInv, SupplementKept, UnclippedIsWhole, Supplemental, Primary, Side,
                Reserve, Places
<1>5. CASE UNCHANGED vars
  BY <1>5 DEF vars, PackInv, SupplementKept, UnclippedIsWhole, Supplemental, Primary, Side,
              Reserve, Places
<1> QED
  BY <1>1, <1>2, <1>3, <1>4, <1>5 DEF Next

\* So the pack keeps it, whatever records it is given.
LEMMA PackInvHolds == Spec => []PackInv
<1>1. Init => PackInv
  BY DEF Init, PackInv, SupplementKept, UnclippedIsWhole, Places
<1>2. PackInv /\ [Next]_vars => PackInv'
  BY PackKeepsInv
<1> QED BY <1>1, <1>2, PTL DEF Spec

\* _drop_lowest_scoring_record: the supplement keeps its reserve while a
\* primary record is left, for every list, budget, top_k and minimum.
THEOREM ReserveSurvives == Spec => []SupplementKept
BY PackInvHolds, PTL DEF PackInv

\* EvidencePack.clipped: a pack that does not say so has lost no slice.
THEOREM ClippingIsTold == Spec => []UnclippedIsWhole
BY PackInvHolds, PTL DEF PackInv

\* No step of the pack makes a slice up or keeps a place that is not there.
LEMMA PackKeepsTypes ==
    ASSUME TypeOK, [Next]_vars
    PROVE  TypeOK'
<1>1. CASE Select
  <2>1. PICK S \in SUBSET Places : kept' = [i \in S |-> records[i].slices]
    <3>1. PICK p \in Leading(Primary(Places), TopK - Reserve) :
          \E s \in Leading(Supplemental(Places), Reserve) :
          \E f \in Leading(Fillers(p \cup s), TopK - Cardinality(p \cup s)) :
              kept' = [i \in p \cup s \cup f |-> records[i].slices]
      BY <1>1 DEF Select
    <3>2. PICK s \in Leading(Supplemental(Places), Reserve) :
          \E f \in Leading(Fillers(p \cup s), TopK - Cardinality(p \cup s)) :
              kept' = [i \in p \cup s \cup f |-> records[i].slices]
      BY <3>1
    <3>3. PICK f \in Leading(Fillers(p \cup s), TopK - Cardinality(p \cup s)) :
              kept' = [i \in p \cup s \cup f |-> records[i].slices]
      BY <3>2
    <3>4. p \cup s \cup f \in SUBSET Places
      BY DEF Leading, Primary, Supplemental, Side, Fillers
    <3> QED BY <3>3, <3>4
  <2>2. clipped' \in BOOLEAN
    BY <1>1 DEF Select
  <2> QED BY <1>1, <2>1, <2>2 DEF TypeOK, Select, Places
<1>2. CASE Trim
  <2>1. PICK i \in DOMAIN kept : \E s \in kept[i] : kept' = [kept EXCEPT ![i] = @ \ {s}]
    BY <1>2 DEF Trim, Trimmable
  <2> QED BY <1>2, <2>1 DEF TypeOK, Trim, MarkPruned, Places
<1>3. CASE Drop
  <2>1. PICK i : kept' = [j \in DOMAIN kept \ {i} |-> kept[j]]
    BY <1>3 DEF Drop
  <2> QED BY <1>3, <2>1 DEF TypeOK, Drop, MarkPruned, Places
<1>4. CASE Finish
  BY <1>4 DEF TypeOK, Finish, Places
<1>5. CASE UNCHANGED vars
  BY <1>5 DEF TypeOK, vars, Places
<1> QED BY <1>1, <1>2, <1>3, <1>4, <1>5 DEF Next

\* What is kept of a record is slices of that record.
THEOREM PackTypes == Spec => []TypeOK
<1>1. Init => TypeOK
  <2> SUFFICES ASSUME Init PROVE TypeOK
    OBVIOUS
  <2>1. DOMAIN kept = {}
    BY DEF Init
  <2> QED BY <2>1 DEF Init, TypeOK
<1> QED BY <1>1, PackKeepsTypes, PTL DEF Spec

-----------------------------------------------------------------------------
(* Sorting *)

\* Where x goes in S by the strict order R.
PlaceIn(S, R, x) == 1 + Cardinality({y \in S : <<y, x>> \in R})

\* A strict order of S, no two of whose members are level.
Orders(R, S) ==
    /\ \A x \in S : <<x, x>> \notin R
    /\ \A x, y \in S : x # y => <<x, y>> \in R \/ <<y, x>> \in R
    /\ \A x, y, z \in S : <<x, y>> \in R /\ <<y, z>> \in R => <<x, z>> \in R

\* Then every place is taken, by one member.
LEMMA EveryPlaceIsTaken ==
    ASSUME NEW S, IsFiniteSet(S), NEW R, Orders(R, S)
    PROVE  /\ Cardinality(S) \in Nat
           /\ \A x \in S : PlaceIn(S, R, x) \in 1..Cardinality(S)
           /\ \A x, y \in S : PlaceIn(S, R, x) = PlaceIn(S, R, y) => x = y
           /\ \A i \in 1..Cardinality(S) : \E x \in S : PlaceIn(S, R, x) = i
<1> DEFINE n == Cardinality(S)
           before(x) == {y \in S : <<y, x>> \in R}
           place == [x \in S |-> PlaceIn(S, R, x)]
<1>1. n \in Nat
  BY FS_CardinalityType
<1>2. ASSUME NEW x \in S
      PROVE  /\ IsFiniteSet(before(x)) /\ Cardinality(before(x)) \in Nat
             /\ Cardinality(before(x)) < n
  <2>1. x \notin before(x) /\ before(x) \subseteq S
    BY DEF Orders
  <2>2. IsFiniteSet(before(x)) /\ Cardinality(before(x)) <= n
        /\ (Cardinality(before(x)) = n => before(x) = S)
    BY <2>1, FS_Subset
  <2> QED BY <1>1, <2>1, <2>2, FS_CardinalityType
<1>3. ASSUME NEW x \in S, NEW y \in S, <<x, y>> \in R
      PROVE  Cardinality(before(x)) < Cardinality(before(y))
  <2>1. before(x) \subseteq before(y)
    BY <1>3 DEF Orders
  <2>2. x \in before(y) /\ x \notin before(x)
    BY <1>3 DEF Orders
  <2>3. Cardinality(before(x)) <= Cardinality(before(y))
        /\ (Cardinality(before(x)) = Cardinality(before(y)) => before(x) = before(y))
    BY <1>2, <2>1, FS_Subset
  <2> QED BY <1>2, <2>2, <2>3
<1>4. \A x \in S : PlaceIn(S, R, x) \in 1..n
  BY <1>1, <1>2 DEF PlaceIn
<1>5. ASSUME NEW x \in S, NEW y \in S, x # y
      PROVE  PlaceIn(S, R, x) # PlaceIn(S, R, y)
  <2>1. <<x, y>> \in R \/ <<y, x>> \in R
    BY <1>5 DEF Orders
  <2>2. Cardinality(before(x)) \in Nat /\ Cardinality(before(y)) \in Nat
    BY <1>2
  <2>3. Cardinality(before(x)) # Cardinality(before(y))
    BY <1>3, <2>1, <2>2
  <2> QED BY <2>2, <2>3 DEF PlaceIn
<1>6. place \in Injection(S, 1..n)
  <2>1. place \in [S -> 1..n]
    BY <1>4
  <2>2. \A x, y \in S : place[x] = place[y] => x = y
    BY <1>5
  <2> QED BY <2>1, <2>2, Fun_IsInj
<1>7. IsFiniteSet(1..n) /\ Cardinality(1..n) = n
  BY <1>1, FS_Interval
<1>8. place \in Surjection(S, 1..n)
  BY <1>6, <1>7, FS_Injection
<1>9. \A i \in 1..n : \E x \in S : PlaceIn(S, R, x) = i
  BY <1>8 DEF Surjection
<1> QED BY <1>1, <1>4, <1>5, <1>9

\* The members of S, each once.
Lists(s, S) ==
    /\ s \in Seq(S) /\ PlacesOf(s) = S
    /\ \A i, j \in DOMAIN s : s[i] = s[j] => i = j

\* sorted(): what it returns has the members of S, each once, when no two keys
\* are level.
LEMMA SortedLists ==
    ASSUME NEW S, IsFiniteSet(S), NEW R, Orders(R, S),
           NEW place, \A x \in S : place[x] = PlaceIn(S, R, x),
           NEW s, s = [i \in 1..Cardinality(S) |-> CHOOSE x \in S : place[x] = i]
    PROVE  Lists(s, S) /\ Len(s) = Cardinality(S)
<1>1. Cardinality(S) \in Nat
  BY EveryPlaceIsTaken
<1>2. ASSUME NEW i \in 1..Cardinality(S) PROVE s[i] \in S /\ PlaceIn(S, R, s[i]) = i
  <2>1. \E x \in S : place[x] = i
    BY EveryPlaceIsTaken
  <2>2. s[i] \in S /\ place[s[i]] = i
    BY <2>1
  <2> QED BY <2>2
<1>3. s \in Seq(S) /\ Len(s) = Cardinality(S) /\ DOMAIN s = 1..Cardinality(S)
  BY <1>1, <1>2
<1>4. \A x \in S : x = s[PlaceIn(S, R, x)] /\ PlaceIn(S, R, x) \in DOMAIN s
  BY <1>2, <1>3, EveryPlaceIsTaken
<1>5. PlacesOf(s) = S
  <2>1. \A i \in DOMAIN s : s[i] \in S
    BY <1>2, <1>3
  <2>2. PlacesOf(s) \subseteq S
    BY <2>1 DEF PlacesOf
  <2>3. ASSUME NEW x \in S PROVE x \in PlacesOf(s)
    BY <1>4 DEF PlacesOf
  <2> QED BY <2>2, <2>3
<1>6. \A i, j \in DOMAIN s : s[i] = s[j] => i = j
  BY <1>2, <1>3
<1> QED BY <1>3, <1>5, <1>6 DEF Lists

\* Two lists, one after the other.
LEMMA ConcatLists ==
    ASSUME NEW A, NEW B, NEW s, NEW t, Lists(s, A), Lists(t, B), A \cap B = {}
    PROVE  Lists(s \o t, A \cup B)
<1> DEFINE c == s \o t
<1>1. s \in Seq(A \cup B) /\ t \in Seq(A \cup B)
  BY SeqMonotonic DEF Lists
<1>2. /\ Len(s) \in Nat /\ DOMAIN s = 1..Len(s)
      /\ Len(t) \in Nat /\ DOMAIN t = 1..Len(t)
  BY <1>1, LenProperties
<1>3. /\ c \in Seq(A \cup B) /\ Len(c) = Len(s) + Len(t) /\ DOMAIN c = 1..Len(s) + Len(t)
      /\ \A i \in 1..Len(s) + Len(t) : c[i] = IF i <= Len(s) THEN s[i] ELSE t[i - Len(s)]
  BY <1>1, ConcatProperties, LenProperties
<1> HIDE DEF c
<1>4. \A i \in 1..Len(s) : i \in DOMAIN c /\ c[i] = s[i] /\ s[i] \in A
  BY <1>2, <1>3 DEF Lists
<1>5. \A i \in 1..Len(t) : i + Len(s) \in DOMAIN c /\ c[i + Len(s)] = t[i] /\ t[i] \in B
  BY <1>2, <1>3 DEF Lists
<1>6. \A i \in DOMAIN c : \/ i \in 1..Len(s)
                          \/ i - Len(s) \in 1..Len(t) /\ i = (i - Len(s)) + Len(s)
  BY <1>2, <1>3
<1>7. PlacesOf(c) = A \cup B
  <2>1. ASSUME NEW x \in A PROVE x \in PlacesOf(c)
    <3>1. PICK i \in DOMAIN s : s[i] = x
      BY <2>1 DEF Lists, PlacesOf
    <3> QED BY <3>1, <1>2, <1>4 DEF PlacesOf
  <2>2. ASSUME NEW x \in B PROVE x \in PlacesOf(c)
    <3>1. PICK i \in DOMAIN t : t[i] = x
      BY <2>2 DEF Lists, PlacesOf
    <3> QED BY <3>1, <1>2, <1>5 DEF PlacesOf
  <2>3. \A i \in DOMAIN c : c[i] \in A \cup B
    BY <1>4, <1>5, <1>6
  <2> QED BY <2>1, <2>2, <2>3 DEF PlacesOf
<1>8. ASSUME NEW i \in DOMAIN c, NEW j \in DOMAIN c, c[i] = c[j] PROVE i = j
  <2>1. CASE i \in 1..Len(s) /\ j \in 1..Len(s)
    BY <1>2, <1>4, <1>8, <2>1 DEF Lists
  <2>2. CASE i \in 1..Len(s) /\ j - Len(s) \in 1..Len(t) /\ j = (j - Len(s)) + Len(s)
    BY <1>4, <1>5, <1>8, <2>2
  <2>3. CASE j \in 1..Len(s) /\ i - Len(s) \in 1..Len(t) /\ i = (i - Len(s)) + Len(s)
    BY <1>4, <1>5, <1>8, <2>3
  <2>4. CASE /\ i - Len(s) \in 1..Len(t) /\ i = (i - Len(s)) + Len(s)
             /\ j - Len(s) \in 1..Len(t) /\ j = (j - Len(s)) + Len(s)
    <3>1. t[i - Len(s)] = t[j - Len(s)]
      BY <1>5, <1>8, <2>4
    <3>2. i - Len(s) = j - Len(s)
      BY <1>2, <2>4, <3>1 DEF Lists
    <3> QED BY <2>4, <3>2
  <2> QED BY <1>6, <2>1, <2>2, <2>3, <2>4
<1> QED BY <1>3, <1>7, <1>8 DEF Lists, c

\* A list of one.
LEMMA OneListed == ASSUME NEW x PROVE Lists(<<x>>, {x})
BY DEF Lists, PlacesOf

\* A list of none.
LEMMA NoneListed == Lists(<< >>, {})
BY DEF Lists, PlacesOf

\* Append adds what is not listed yet.
LEMMA AppendLists ==
    ASSUME NEW A, NEW s, Lists(s, A), NEW x, x \notin A
    PROVE  Lists(Append(s, x), A \cup {x})
<1>1. s \in Seq(A \cup {x})
  BY SeqMonotonic DEF Lists
<1>2. Append(s, x) = s \o <<x>>
  BY <1>1
<1>3. Lists(<<x>>, {x}) /\ A \cap {x} = {}
  BY OneListed
<1> QED BY <1>2, <1>3, ConcatLists

\* A set of numbers that has one, and with each the next one up to n.
LEMMA CountingUp ==
    ASSUME NEW n \in Nat, NEW S, 1 \in S, \A k \in 1..n - 1 : k \in S => k + 1 \in S
    PROVE  \A k \in 1..n : k \in S
<1> DEFINE R == OpToRel(<, Nat)
           out == {k \in 1..n : k \notin S}
<1>1. IsWellFoundedOn(R, Nat)
  BY NatLessThanWellFounded
<1>2. \A a, b \in Nat : a < b => <<a, b>> \in R
  BY DEF OpToRel
<1> HIDE DEF R
<1>3. SUFFICES ASSUME out # {} PROVE FALSE
  OBVIOUS
<1>4. out \subseteq Nat
  OBVIOUS
<1>5. PICK m \in out : \A k \in out : ~ (<<k, m>> \in R)
  BY <1>1, <1>3, <1>4, WFMin
<1>6. m \in 1..n /\ m \notin S
  OBVIOUS
<1>7. m # 1 /\ m - 1 \in 1..n - 1 /\ m - 1 \in 1..n /\ (m - 1) + 1 = m
  BY <1>6
<1>8. <<m - 1, m>> \in R
  BY <1>2, <1>6, <1>7
<1>9. m - 1 \in S
  BY <1>5, <1>7, <1>8
<1> QED BY <1>6, <1>7, <1>9

\* The recursion FlattenSeq is defined by, up to n.
Flattens(f, lists, n) ==
    f = [i \in 1..n |-> IF i = 1 THEN lists[i] ELSE f[i - 1] \o lists[i]]

\* The recursion that FlattenSeq chooses a function by has a solution.
LEMMA FlattenExists ==
    ASSUME NEW lists, NEW n \in Nat \ {0}
    PROVE  \E f : Flattens(f, lists, n)
<1> DEFINE S == {k \in Nat : \E f : Flattens(f, lists, k)}
<1>1. 1 \in S
  <2> DEFINE f == [i \in 1..1 |-> lists[i]]
  <2>1. f = [i \in 1..1 |-> IF i = 1 THEN lists[i] ELSE f[i - 1] \o lists[i]]
    OBVIOUS
  <2> QED BY <2>1 DEF Flattens
<1>2. ASSUME NEW k \in 1..n - 1, k \in S PROVE k + 1 \in S
  <2>1. PICK f : Flattens(f, lists, k)
    BY <1>2
  <2> HIDE DEF S
  <2> DEFINE g == [i \in 1..k + 1 |-> IF i <= k THEN f[i] ELSE f[k] \o lists[k + 1]]
  <2>2. ASSUME NEW i \in 1..k + 1
        PROVE  g[i] = IF i = 1 THEN lists[i] ELSE g[i - 1] \o lists[i]
    <3>1. CASE i <= k
      <4>0. i \in 1..k
        BY <2>2, <3>1
      <4>1. f[i] = IF i = 1 THEN lists[i] ELSE f[i - 1] \o lists[i]
        BY <2>1, <4>0 DEF Flattens
      <4>2. g[i] = f[i] /\ (i # 1 => g[i - 1] = f[i - 1])
        BY <3>1
      <4> QED BY <4>1, <4>2
    <3>2. CASE ~ (i <= k)
      <4>1. i = k + 1 /\ i # 1 /\ i - 1 = k
        BY <1>2, <3>2
      <4>2. g[i] = f[k] \o lists[k + 1]
        BY <2>2, <3>2, <4>1
      <4>3. g[k] = f[k]
        BY <1>2
      <4> QED BY <4>1, <4>2, <4>3
    <3> QED BY <3>1, <3>2
  <2>3. g = [i \in 1..k + 1 |-> IF i = 1 THEN lists[i] ELSE g[i - 1] \o lists[i]]
    <3> HIDE DEF g
    <3>1. DOMAIN g = 1..k + 1 /\ g = [i \in 1..k + 1 |-> g[i]]
      BY DEF g
    <3> QED BY <2>2, <3>1
  <2>4. Flattens(g, lists, k + 1)
    BY <2>3 DEF Flattens
  <2> HIDE DEF g
  <2> QED BY <1>2, <2>4 DEF S
<1> HIDE DEF S
<1>3. n \in S
  BY <1>1, <1>2, CountingUp
<1> QED BY <1>3 DEF S

\* The concatenation of lists that share no member.
LEMMA FlattenLists ==
    ASSUME NEW lists, Len(lists) \in Nat, DOMAIN lists = 1..Len(lists),
           \A i \in 1..Len(lists) : Lists(lists[i], PlacesOf(lists[i])),
           \A i, j \in 1..Len(lists) : i # j => PlacesOf(lists[i]) \cap PlacesOf(lists[j]) = {}
    PROVE  Lists(FlattenSeq(lists), UNION {PlacesOf(lists[i]) : i \in 1..Len(lists)})
<1> DEFINE upTo(n) == UNION {PlacesOf(lists[i]) : i \in 1..n}
<1>1. CASE Len(lists) = 0
  <2>1. FlattenSeq(lists) = lists /\ upTo(Len(lists)) = {}
    BY <1>1 DEF FlattenSeq
  <2>2. Lists(lists, {})
    BY <1>1 DEF Lists, PlacesOf
  <2> QED BY <2>1, <2>2
<1>2. CASE Len(lists) # 0
  <2> DEFINE f == CHOOSE f : Flattens(f, lists, Len(lists))
             S == {n \in Nat : Lists(f[n], upTo(n))}
  <2>1. Flattens(f, lists, Len(lists))
    BY <1>2, FlattenExists
  <2>2. FlattenSeq(lists) = f[Len(lists)]
    BY <1>2 DEF FlattenSeq, Flattens
  <2> HIDE DEF f
  <2>3. 1 \in S
    <3>1. f[1] = lists[1]
      BY <1>2, <2>1 DEF Flattens
    <3>2. upTo(1) = PlacesOf(lists[1])
      OBVIOUS
    <3> HIDE DEF upTo
    <3> QED BY <1>2, <3>1, <3>2
  <2>4. ASSUME NEW n \in 1..Len(lists) - 1, n \in S PROVE n + 1 \in S
    <3>1. n + 1 \in 1..Len(lists) /\ n + 1 # 1 /\ (n + 1) - 1 = n /\ n + 1 \in Nat
      OBVIOUS
    <3>2. f[n + 1] = f[n] \o lists[n + 1]
      BY <2>1, <3>1 DEF Flattens
    <3>3. upTo(n) \cap PlacesOf(lists[n + 1]) = {}
      BY <3>1
    <3>4. upTo(n + 1) = upTo(n) \cup PlacesOf(lists[n + 1])
      BY <3>1
    <3>5. Lists(f[n], upTo(n)) /\ Lists(lists[n + 1], PlacesOf(lists[n + 1]))
      BY <2>4, <3>1
    <3> HIDE DEF upTo
    <3>6. Lists(f[n] \o lists[n + 1], upTo(n) \cup PlacesOf(lists[n + 1]))
      BY <3>3, <3>5, ConcatLists
    <3> QED BY <3>1, <3>2, <3>4, <3>6
  <2> HIDE DEF S
  <2>5. Len(lists) \in 1..Len(lists)
    BY <1>2
  <2>6. Len(lists) \in S
    BY <2>3, <2>4, <2>5, CountingUp
  <2> QED BY <2>2, <2>6 DEF S
<1> QED BY <1>1, <1>2

\* The groups are told apart by their first members.
LEMMA InOrderLists ==
    ASSUME NEW G, IsFiniteSet(G), \A g \in G : 1 \in DOMAIN g,
           \A g \in G : \A i \in DOMAIN g : i \in Nat \ {0} /\ g[i] \in Nat,
           \A g, h \in G : g # h => g[1] # h[1]
    PROVE  Lists(InOrder(G), G) /\ Len(InOrder(G)) = Cardinality(G)
<1> DEFINE R == {o \in G \X G : o[1][1] < o[2][1]}
           key == [x \in G |-> x]
           place == [x \in G |-> 1 + Cardinality({y \in G : RanksBelow(key[y], key[x])})]
<1>1. Orders(R, G)
  BY DEF Orders
<1>2. ASSUME NEW x \in G, NEW y \in G PROVE RanksBelow(key[y], key[x]) <=> <<y, x>> \in R
  <2>1. CASE x = y
    <3>1. ~ RanksBelow(x, x)
      BY DEF RanksBelow
    <3>2. <<y, x>> \notin R
      BY <2>1
    <3> QED BY <2>1, <3>1, <3>2
  <2>2. CASE x # y
    <3>1. y[1] # x[1] /\ y[1] \in Nat /\ x[1] \in Nat
      BY <2>2
    <3>2. RanksBelow(y, x) <=> y[1] < x[1]
      BY <3>1 DEF RanksBelow
    <3> QED BY <3>2
  <2> QED BY <2>1, <2>2
<1>3. \A x \in G : place[x] = PlaceIn(G, R, x)
  <2>1. \A x \in G : {y \in G : RanksBelow(key[y], key[x])} = {y \in G : <<y, x>> \in R}
    BY <1>2
  <2> QED BY <2>1 DEF PlaceIn
<1>4. InOrder(G) = [i \in 1..Cardinality(G) |-> CHOOSE x \in G : place[x] = i]
  BY DEF InOrder, SortedBy
<1> HIDE DEF place, R
<1> QED BY <1>1, <1>3, <1>4, SortedLists

\* What is made place by place is a list.
LEMMA ListMade ==
    ASSUME NEW n \in Nat, NEW f, f = [i \in 1..n |-> f[i]]
    PROVE  f \in Seq(PlacesOf(f)) /\ Len(f) = n /\ DOMAIN f = 1..n
BY DEF PlacesOf

\* What SortedBy makes of the keys and of the places they give.
PlaceByKey(S, key) == [x \in S |-> 1 + Cardinality({y \in S : RanksBelow(key[y], key[x])})]
Placed(S, place) == [i \in 1..Cardinality(S) |-> CHOOSE x \in S : place[x] = i]

\* Keys that are tuples of n numbers, no two of them equal.
Keyed(S, key, n) ==
    /\ \A x \in S : DOMAIN key[x] = 1..n /\ \A i \in 1..n : key[x][i] \in Int
    /\ \A x, y \in S : x # y => \E i \in 1..n : key[x][i] # key[y][i]

KeyOrder(S, key) == {o \in S \X S : RanksBelow(key[o[1]], key[o[2]])}

\* Tuples of n numbers, no two of them equal, order what they are the keys of.
LEMMA KeysOrder ==
    ASSUME NEW S, NEW n, n \in Nat, NEW key, Keyed(S, key, n)
    PROVE  Orders(KeyOrder(S, key), S)
<1> USE DEF Keyed
<1> DEFINE R == KeyOrder(S, key)
<1>1. \A x, y \in S : <<x, y>> \in R <=>
          \E i \in 1..n : key[x][i] < key[y][i] /\ \A j \in 1..i - 1 : key[x][j] = key[y][j]
  BY DEF RanksBelow, KeyOrder
<1> HIDE DEF R
<1>2. \A x \in S : <<x, x>> \notin R
  BY <1>1
<1>3. ASSUME NEW x \in S, NEW y \in S, x # y PROVE <<x, y>> \in R \/ <<y, x>> \in R
  <2> DEFINE apart == {i \in 1..n : key[x][i] # key[y][i]}
  <2>1. apart # {} /\ apart \subseteq Nat
    BY <1>3
  <2>2. PICK m \in apart : \A i \in apart : ~ (<<i, m>> \in OpToRel(<, Nat))
    BY <2>1, NatLessThanWellFounded, WFMin
  <2>3. \A j \in 1..m - 1 : key[x][j] = key[y][j]
    <3>1. SUFFICES ASSUME NEW j \in 1..m - 1, key[x][j] # key[y][j] PROVE FALSE
      OBVIOUS
    <3>2. j \in apart /\ j < m /\ j \in Nat /\ m \in Nat
      BY <3>1
    <3>3. <<j, m>> \in OpToRel(<, Nat)
      BY <3>2 DEF OpToRel
    <3> QED BY <2>2, <3>2, <3>3
  <2>4. m \in 1..n /\ key[x][m] \in Int /\ key[y][m] \in Int /\ key[x][m] # key[y][m]
    OBVIOUS
  <2>5. key[x][m] < key[y][m] \/ key[y][m] < key[x][m]
    BY <2>4
  <2> HIDE DEF apart
  <2> QED BY <1>1, <2>3, <2>4, <2>5
<1>4. ASSUME NEW x \in S, NEW y \in S, NEW z \in S, <<x, y>> \in R, <<y, z>> \in R
      PROVE  <<x, z>> \in R
  <2>1. PICK i \in 1..n : key[x][i] < key[y][i] /\ \A j \in 1..i - 1 : key[x][j] = key[y][j]
    BY <1>1, <1>4
  <2>2. PICK k \in 1..n : key[y][k] < key[z][k] /\ \A j \in 1..k - 1 : key[y][j] = key[z][j]
    BY <1>1, <1>4
  <2> DEFINE m == IF i <= k THEN i ELSE k
  <2>3. m \in 1..n /\ 1..m - 1 \subseteq 1..i - 1 /\ 1..m - 1 \subseteq 1..k - 1
    OBVIOUS
  <2>4. \A j \in 1..m - 1 : key[x][j] = key[z][j]
    BY <2>1, <2>2, <2>3
  <2>5. key[x][m] < key[z][m]
    <3>1. key[x][m] \in Int /\ key[y][m] \in Int /\ key[z][m] \in Int
      BY <2>3
    <3>2. CASE i < k
      <4>1. m = i /\ i \in 1..k - 1
        BY <3>2
      <4>2. key[x][i] < key[y][i] /\ key[y][i] = key[z][i]
        BY <2>1, <2>2, <4>1
      <4> QED BY <4>1, <4>2
    <3>3. CASE i = k
      BY <2>1, <2>2, <3>1, <3>3
    <3>4. CASE k < i
      <4>1. m = k /\ k \in 1..i - 1
        BY <3>4
      <4>2. key[y][k] < key[z][k] /\ key[x][k] = key[y][k]
        BY <2>1, <2>2, <4>1
      <4> QED BY <4>1, <4>2
    <3> QED BY <3>2, <3>3, <3>4
  <2> HIDE DEF m
  <2> QED BY <1>1, <2>3, <2>4, <2>5
<1> QED BY <1>2, <1>3, <1>4 DEF Orders, R

\* sorted() by such keys.
LEMMA SortedByKeys ==
    ASSUME NEW S, IsFiniteSet(S), NEW n, n \in Nat, NEW key, Keyed(S, key, n)
    PROVE  /\ Lists(Placed(S, PlaceByKey(S, key)), S)
           /\ Len(Placed(S, PlaceByKey(S, key))) = Cardinality(S)
<1>1. Orders(KeyOrder(S, key), S)
  BY KeysOrder
<1>2. \A x \in S : {y \in S : RanksBelow(key[y], key[x])} =
                     {y \in S : <<y, x>> \in KeyOrder(S, key)}
  BY DEF KeyOrder
<1>3. \A x \in S : PlaceByKey(S, key)[x] = PlaceIn(S, KeyOrder(S, key), x)
  BY <1>2 DEF PlaceIn, PlaceByKey
<1>4. \A place, s : /\ \A x \in S : place[x] = PlaceIn(S, KeyOrder(S, key), x)
                    /\ s = Placed(S, place)
                    => Lists(s, S) /\ Len(s) = Cardinality(S)
  BY <1>1, SortedLists DEF Placed
<1> QED BY <1>3, <1>4

\* Keys that end in what they are the keys of, as sorted() breaks the last ties by.
LEMMA KeyedFour ==
    ASSUME NEW S, S \subseteq Int, NEW key,
           \A x \in S : \E a, b, c \in Int : key[x] = <<a, b, c, x>>
    PROVE  Keyed(S, key, 4)
<1>1. ASSUME NEW x \in S
      PROVE  /\ DOMAIN key[x] = 1..4 /\ key[x][4] = x
             /\ \A i \in 1..4 : key[x][i] \in Int
  <2>1. PICK a \in Int, b \in Int, c \in Int : key[x] = <<a, b, c, x>>
    OBVIOUS
  <2>2. x \in Int
    OBVIOUS
  <2> QED BY <2>1, <2>2
<1> QED BY <1>1 DEF Keyed

\* Sorting by nothing but the place.
LEMMA KeyedOne ==
    ASSUME NEW S, S \subseteq Int, NEW key, \A x \in S : key[x] = <<x>>
    PROVE  Keyed(S, key, 1)
<1>1. ASSUME NEW x \in S
      PROVE  /\ DOMAIN key[x] = 1..1 /\ key[x][1] = x
             /\ \A i \in 1..1 : key[x][i] \in Int
  <2>1. x \in Int /\ key[x] = <<x>>
    OBVIOUS
  <2> QED BY <2>1
<1> QED BY <1>1 DEF Keyed

\* A list made of members of X.
LEMMA MadeOf ==
    ASSUME NEW n \in Nat, NEW X, NEW f, f = [i \in 1..n |-> f[i]], \A i \in 1..n : f[i] \in X
    PROVE  f \in Seq(X) /\ Len(f) = n /\ DOMAIN f = 1..n
OBVIOUS

\* _sort_policy, _sort_academic and _sort_industry.
LEMMA SortedRoute ==
    ASSUME NEW found, found \in Seq(Hits), NEW S, S \subseteq DOMAIN found, NEW route
    PROVE  \E T \in SUBSET S : Lists(SortRoute(route, found, S), T)
<1>1. IsFiniteSet(S) /\ S \subseteq Nat
  <2>1. DOMAIN found = 1..Len(found) /\ Len(found) \in Nat
    BY LenProperties
  <2>2. IsFiniteSet(1..Len(found))
    BY <2>1, FS_Interval
  <2> QED BY <2>1, <2>2, FS_Subset
<1>2. \A p \in S : found[p] \in Hits
  BY ElementOfSeq, LenProperties
<1>3. \A p \in S : /\ found[p].match \in Int /\ found[p].tier \in Int /\ found[p].fresh \in Int
                   /\ -found[p].match \in Int /\ -found[p].fresh \in Int /\ p \in Int
  <2> TAKE p \in S
  <2>1. found[p].match \in Nat /\ found[p].tier \in Nat /\ found[p].fresh \in Nat
    BY <1>2 DEF Hits
  <2> QED BY <1>1, <2>1
<1>4. CASE route = "industry"
  <2> DEFINE key == [p \in S |-> <<-found[p].match, found[p].tier, -found[p].fresh, p>>]
  <2>1. Keyed(S, key, 4)
    BY <1>3 DEF Keyed
  <2>2. SortRoute(route, found, S) = Placed(S, PlaceByKey(S, key))
    BY <1>4 DEF SortRoute, SortedBy, Placed, PlaceByKey
  <2> HIDE DEF key
  <2>3. Lists(Placed(S, PlaceByKey(S, key)), S)
    BY <1>1, <2>1, SortedByKeys
  <2> QED BY <2>2, <2>3
<1>5. CASE route # "industry"
  <2> DEFINE T == {p \in S : route = "academic" => RouteOf(found[p].source) = "academic"}
             key == [p \in T |-> <<SourcePriority(found[p].source), -found[p].match,
                                   -found[p].fresh, p>>]
  <2>1. Keyed(T, key, 4)
    <3>1. \A source : SourcePriority(source) \in Int
      BY DEF SourcePriority
    <3> QED BY <1>3, <3>1 DEF Keyed
  <2>2. SortRoute(route, found, S) = Placed(T, PlaceByKey(T, key))
    BY <1>5 DEF SortRoute, SortedBy, Placed, PlaceByKey
  <2>3. T \in SUBSET S /\ IsFiniteSet(T)
    BY <1>1, FS_Subset
  <2> HIDE DEF key, T
  <2>4. Lists(Placed(T, PlaceByKey(T, key)), T)
    BY <2>1, <2>3, SortedByKeys
  <2> QED BY <2>2, <2>3, <2>4
<1> QED BY <1>4, <1>5

\* prioritize_hits orders hits and makes none up.
LEMMA PrioritizedHits ==
    ASSUME NEW c, NEW found, found \in Seq(Hits)
    PROVE  /\ PrioritizeHits(c, found) \in Seq(Hits)
           /\ \A i \in DOMAIN PrioritizeHits(c, found) :
                 \E p \in DOMAIN found : PrioritizeHits(c, found)[i] = found[p]
<1> DEFINE D == DOMAIN found
           of(route) == SortRoute(route, found,
                            {p \in D : c.label = "mixed" => RouteOf(found[p].source) = route})
           order == IF c.label = "mixed" /\ c.supplement # NoRoute
                      THEN of(c.primary) \o of(c.supplement) ELSE of(c.primary)
<1>1. \A route : of(route) \in Seq(D)
  <2> TAKE route
  <2> DEFINE S == {p \in D : c.label = "mixed" => RouteOf(found[p].source) = route}
  <2>1. PICK T \in SUBSET S : Lists(SortRoute(route, found, S), T)
    BY SortedRoute
  <2>2. T \subseteq D
    BY <2>1
  <2> QED BY <2>1, <2>2, SeqMonotonic DEF Lists
<1>2. PrioritizeHits(c, found) = [i \in DOMAIN order |-> found[order[i]]]
  BY DEF PrioritizeHits
<1> HIDE DEF of
<1>3. order \in Seq(D)
  <2>1. CASE c.label = "mixed" /\ c.supplement # NoRoute
    BY <1>1, <2>1, ConcatProperties
  <2>2. CASE ~ (c.label = "mixed" /\ c.supplement # NoRoute)
    BY <1>1, <2>2
  <2> QED BY <2>1, <2>2
<1> HIDE DEF order
<1>4. Len(order) \in Nat /\ DOMAIN order = 1..Len(order)
      /\ \A i \in 1..Len(order) : order[i] \in D
  BY <1>3, LenProperties, ElementOfSeq
<1>5. \A p \in D : found[p] \in Hits
  BY LenProperties, ElementOfSeq
<1> HIDE DEF D
<1>6. PrioritizeHits(c, found) = [i \in 1..Len(order) |-> found[order[i]]]
  BY <1>2, <1>4
<1>7. PrioritizeHits(c, found) \in Seq(Hits)
  BY <1>4, <1>5, <1>6
<1>8. \A i \in DOMAIN PrioritizeHits(c, found) :
          \E p \in D : PrioritizeHits(c, found)[i] = found[p]
  BY <1>4, <1>6
<1> QED BY <1>7, <1>8 DEF D

-----------------------------------------------------------------------------
(* Which hits are one record *)

Linked(p, q) == q \in Papers /\ Aliases(hits[p]) \cap Aliases(hits[q]) # {}

\* Among the first n hits, those linked to a member of S are in S.
ClosedIn(S, n) == \A p \in S, q \in 1..n : Linked(p, q) => q \in S

\* Hits of one domain, each once.
IsGroup(g, n) ==
    /\ g # << >>
    /\ Lists(g, PlacesOf(g)) /\ PlacesOf(g) \subseteq 1..n
    /\ \A p \in PlacesOf(g) : DomainOf(hits[p]) = DomainOf(hits[g[1]])

\* A work: closed, and no smaller set that is closed has any of it.
OneWork(g, n) ==
    /\ ClosedIn(PlacesOf(g), n)
    /\ \A S \in SUBSET DOMAIN hits :
          PlacesOf(g) \cap S # {} /\ ClosedIn(S, n) => PlacesOf(g) \subseteq S

\* What the loops over records keep of the groups of the first n hits.
Grouped(G, n) ==
    /\ IsFiniteSet(G)
    /\ \A g \in G : IsGroup(g, n) /\ (g[1] \in Papers => OneWork(g, n))
    /\ \A g, h \in G : g # h => PlacesOf(g) \cap PlacesOf(h) = {}
    /\ \A p \in 1..n : Accepted(hits[p]) <=> \E g \in G : p \in PlacesOf(g)

\* A group is a list of places in hits, with a first one.
LEMMA GroupFacts ==
    ASSUME NEW n \in Nat, NEW g, IsGroup(g, n)
    PROVE  /\ DOMAIN g = 1..Len(g) /\ Len(g) \in Nat \ {0} /\ 1 \in DOMAIN g
           /\ \A i \in DOMAIN g : i \in Nat \ {0} /\ g[i] \in PlacesOf(g) /\ g[i] \in 1..n
           /\ g[1] \in PlacesOf(g)
           /\ \A p \in PlacesOf(g) : \E i \in DOMAIN g : g[i] = p
<1>1. g \in Seq(PlacesOf(g)) /\ g # << >> /\ PlacesOf(g) \subseteq 1..n
  BY DEF IsGroup, Lists
<1>2. DOMAIN g = 1..Len(g) /\ Len(g) \in Nat \ {0}
  BY <1>1, EmptySeq, LenProperties
<1>3. 1 \in DOMAIN g
  BY <1>2
<1>4. \A i \in DOMAIN g : g[i] \in PlacesOf(g)
  BY DEF PlacesOf
<1>5. \A p \in PlacesOf(g) : \E i \in DOMAIN g : g[i] = p
  BY DEF PlacesOf
<1>6. \A i \in DOMAIN g : i \in Nat \ {0}
  BY <1>2
<1> QED BY <1>1, <1>2, <1>3, <1>4, <1>5, <1>6

\* A group shares an alias with a paper exactly if a member of it does.
LEMMA JoinsByMember ==
    ASSUME NEW n \in Nat, NEW g, IsGroup(g, n), NEW p, DomainOf(hits[p]) = "academic"
    PROVE  Joins(hits, p, g) <=>
             /\ DomainOf(hits[g[1]]) = "academic"
             /\ \E q \in PlacesOf(g) : Aliases(hits[p]) \cap Aliases(hits[q]) # {}
<1>1. \A q \in PlacesOf(g) : \E i \in DOMAIN g : g[i] = q
  BY GroupFacts
<1>2. \A i \in DOMAIN g : g[i] \in PlacesOf(g)
  BY GroupFacts
<1>3. (Aliases(hits[p]) \cap GroupAliases(hits, g) # {}) <=>
        \E q \in PlacesOf(g) : Aliases(hits[p]) \cap Aliases(hits[q]) # {}
  <2>1. ASSUME Aliases(hits[p]) \cap GroupAliases(hits, g) # {}
        PROVE  \E q \in PlacesOf(g) : Aliases(hits[p]) \cap Aliases(hits[q]) # {}
    <3>1. PICK i \in DOMAIN g : Aliases(hits[p]) \cap Aliases(hits[g[i]]) # {}
      BY <2>1 DEF GroupAliases
    <3> QED BY <1>2, <3>1
  <2>2. ASSUME NEW q \in PlacesOf(g), Aliases(hits[p]) \cap Aliases(hits[q]) # {}
        PROVE  Aliases(hits[p]) \cap GroupAliases(hits, g) # {}
    <3>1. PICK i \in DOMAIN g : g[i] = q
      BY <1>1
    <3> QED BY <2>2, <3>1 DEF GroupAliases
  <2> QED BY <2>1, <2>2
<1> QED BY <1>3 DEF Joins

PlacesOfAll(G) == UNION {PlacesOf(g) : g \in G}

\* The record that AddToGroups makes of some groups and one more hit.
Together(met, p) ==
    Append(InOrder(met)[1], p) \o FlattenSeq(Tail(InOrder(met)))

\* It has the places of them all and the new one, each once, and a first hit as before.
LEMMA TogetherLists ==
    ASSUME NEW n \in Nat, NEW met, IsFiniteSet(met), met # {},
           \A g \in met : IsGroup(g, n),
           \A g, h \in met : g # h => PlacesOf(g) \cap PlacesOf(h) = {},
           NEW p, p \notin 1..n
    PROVE  /\ Lists(Together(met, p), {p} \cup PlacesOfAll(met))
           /\ Together(met, p) # << >>
           /\ \E g \in met : Together(met, p)[1] = g[1]
<1> DEFINE order == InOrder(met)
           rest == Tail(order)
           new == Append(order[1], p)
<1>1. \A g \in met : 1 \in DOMAIN g /\ \A i \in DOMAIN g : i \in Nat \ {0} /\ g[i] \in Nat
  BY GroupFacts
<1>2. \A g, h \in met : g # h => g[1] # h[1]
  BY GroupFacts
<1>3. Lists(order, met) /\ Len(order) = Cardinality(met)
  BY <1>1, <1>2, InOrderLists
<1>4. /\ order \in Seq(met) /\ Len(order) \in Nat \ {0} /\ DOMAIN order = 1..Len(order)
      /\ PlacesOf(order) = met
      /\ \A i, j \in 1..Len(order) : order[i] = order[j] => i = j
  <2>1. order \in Seq(met) /\ PlacesOf(order) = met
    BY <1>3 DEF Lists
  <2>2. Len(order) \in Nat /\ DOMAIN order = 1..Len(order)
    BY <2>1, LenProperties
  <2>3. Cardinality(met) # 0
    BY FS_EmptySet
  <2> HIDE DEF order
  <2> QED BY <1>3, <2>1, <2>2, <2>3 DEF Lists
<1> HIDE DEF order
<1>5. /\ order[1] \in met /\ rest \in Seq(met) /\ Len(rest) = Len(order) - 1
      /\ DOMAIN rest = 1..Len(rest) /\ \A i \in 1..Len(rest) : rest[i] = order[i + 1]
  <2>1. order # << >> /\ order[1] \in met
    BY <1>4
  <2>2. rest \in Seq(met) /\ Len(rest) = Len(order) - 1
        /\ \A i \in 1..Len(rest) : rest[i] = order[i + 1]
    BY <1>4, <2>1, HeadTailProperties
  <2> QED BY <2>1, <2>2, LenProperties
<1> HIDE DEF rest
<1>6. \A i \in 1..Len(rest) : rest[i] \in met /\ rest[i] # order[1]
  BY <1>4, <1>5
<1>7. \A i, j \in 1..Len(rest) : i # j => rest[i] # rest[j]
  BY <1>4, <1>5
<1>8. Lists(FlattenSeq(rest), UNION {PlacesOf(rest[i]) : i \in 1..Len(rest)})
  <2>1. Len(rest) \in Nat
    BY <1>4, <1>5
  <2>2. \A i \in 1..Len(rest) : Lists(rest[i], PlacesOf(rest[i]))
    BY <1>6 DEF IsGroup
  <2>3. \A i, j \in 1..Len(rest) : i # j => PlacesOf(rest[i]) \cap PlacesOf(rest[j]) = {}
    BY <1>6, <1>7
  <2> QED BY <1>5, <2>1, <2>2, <2>3, FlattenLists
<1>9. Lists(new, PlacesOf(order[1]) \cup {p})
  <2>1. Lists(order[1], PlacesOf(order[1])) /\ p \notin PlacesOf(order[1])
    BY <1>5 DEF IsGroup
  <2> QED BY <2>1, AppendLists
<1>10. (PlacesOf(order[1]) \cup {p}) \cap UNION {PlacesOf(rest[i]) : i \in 1..Len(rest)} = {}
  <2>1. ASSUME NEW i \in 1..Len(rest)
        PROVE  (PlacesOf(order[1]) \cup {p}) \cap PlacesOf(rest[i]) = {}
    <3>1. PlacesOf(order[1]) \cap PlacesOf(rest[i]) = {}
      BY <1>5, <1>6
    <3>2. p \notin PlacesOf(rest[i])
      BY <1>6 DEF IsGroup
    <3> QED BY <3>1, <3>2
  <2> QED BY <2>1
<1>11. (PlacesOf(order[1]) \cup {p}) \cup UNION {PlacesOf(rest[i]) : i \in 1..Len(rest)}
         = {p} \cup PlacesOfAll(met)
  <2>1. ASSUME NEW g \in met PROVE g = order[1] \/ \E i \in 1..Len(rest) : g = rest[i]
    <3>1. PICK i \in 1..Len(order) : g = order[i]
      BY <1>4 DEF PlacesOf
    <3>2. CASE i # 1
      <4>1. i - 1 \in 1..Len(rest) /\ (i - 1) + 1 = i
        BY <1>4, <1>5, <3>2
      <4> QED BY <1>5, <3>1, <4>1
    <3> QED BY <3>1, <3>2
  <2> QED BY <1>5, <1>6, <2>1 DEF PlacesOfAll
<1>12. Together(met, p) = new \o FlattenSeq(rest)
  BY DEF Together, order, rest
<1> HIDE DEF new
<1>13. Lists(Together(met, p), {p} \cup PlacesOfAll(met))
  BY <1>8, <1>9, <1>10, <1>11, <1>12, ConcatLists
<1>14. Together(met, p) # << >> /\ Together(met, p)[1] = order[1][1]
  <2>1. order[1] \in Seq(Nat \cup {p}) /\ order[1] # << >> /\ Len(order[1]) \in Nat \ {0}
    <3>1. order[1] \in Seq(PlacesOf(order[1])) /\ PlacesOf(order[1]) \subseteq Nat \cup {p}
      BY <1>5 DEF IsGroup, Lists
    <3>2. order[1] # << >> /\ Len(order[1]) \in Nat \ {0}
      BY <1>5, GroupFacts DEF IsGroup
    <3> QED BY <3>1, <3>2, SeqMonotonic
  <2>2. new \in Seq(Nat \cup {p}) /\ Len(new) = Len(order[1]) + 1 /\ new[1] = order[1][1]
    BY <2>1 DEF new
  <2> DEFINE X == (Nat \cup {p}) \cup UNION {PlacesOf(rest[i]) : i \in 1..Len(rest)}
             f == FlattenSeq(rest)
  <2>3. f \in Seq(X) /\ new \in Seq(X)
    BY <1>8, <2>2, SeqMonotonic DEF Lists
  <2> HIDE DEF X, f
  <2>4. Len(f) \in Nat /\ Len(new \o f) = Len(new) + Len(f)
        /\ \A i \in 1..Len(new) + Len(f) :
              (new \o f)[i] = IF i <= Len(new) THEN new[i] ELSE f[i - Len(new)]
    BY <2>3, ConcatProperties, LenProperties
  <2>5. 1 \in 1..Len(new) + Len(f) /\ 1 <= Len(new) /\ Len(new \o f) # 0
    BY <2>1, <2>2, <2>4
  <2>6. (new \o f)[1] = order[1][1] /\ new \o f # << >>
    BY <2>2, <2>3, <2>4, <2>5, EmptySeq
  <2> QED BY <1>12, <2>6 DEF f
<1> QED BY <1>5, <1>13, <1>14

\* A hit that is no evidence leaves the groups as they are.
LEMMA RejectedHit ==
    ASSUME NEW n \in Nat, NEW G, Grouped(G, n), ~ Accepted(hits[n + 1])
    PROVE  Grouped(G, n + 1)
<1> DEFINE p == n + 1
<1>1. p \notin Papers
  BY DEF Accepted, Papers
<1>2. ASSUME NEW S PROVE ClosedIn(S, p) <=> ClosedIn(S, n)
  <2>1. (\A q \in 1..p : q \in 1..n \/ q = p) /\ 1..n \subseteq 1..p
    OBVIOUS
  <2>2. \A q : ~ Linked(q, p)
    BY <1>1 DEF Linked
  <2> HIDE DEF p
  <2> QED BY <2>1, <2>2 DEF ClosedIn
<1>3. \A g \in G : IsGroup(g, p)
  BY DEF Grouped, IsGroup
<1>4. \A g \in G : g[1] \in Papers => OneWork(g, p)
  BY <1>2 DEF Grouped, OneWork
<1>5. \A g \in G : p \notin PlacesOf(g)
  BY DEF Grouped, IsGroup
<1>6. \A q \in 1..p : Accepted(hits[q]) <=> \E g \in G : q \in PlacesOf(g)
  <2>1. \A q \in 1..p : q \in 1..n \/ q = p
    OBVIOUS
  <2> QED BY <1>5, <2>1 DEF Grouped
<1> HIDE DEF p
<1> QED BY <1>3, <1>4, <1>6 DEF Grouped, p

\* An accepted hit: met are groups of its domain, its own group is the others' members
\* and itself; if it is a paper they are all it shares an alias with.
LEMMA AcceptedHit ==
    ASSUME NEW n \in Nat, 1..n + 1 \subseteq DOMAIN hits,
           NEW G, Grouped(G, n), Accepted(hits[n + 1]),
           NEW met \in SUBSET G, NEW new, new # << >>,
           Lists(new, {n + 1} \cup PlacesOfAll(met)),
           DomainOf(hits[new[1]]) = DomainOf(hits[n + 1]),
           \A g \in met : DomainOf(hits[g[1]]) = DomainOf(hits[n + 1]),
           n + 1 \in Papers => met = {g \in G : Joins(hits, n + 1, g)}
    PROVE  Grouped((G \ met) \cup {new}, n + 1)
<1> DEFINE p == n + 1
           N == {p} \cup UNION {PlacesOf(g) : g \in met}
<1>1. PlacesOf(new) = N /\ new # << >> /\ DomainOf(hits[new[1]]) = DomainOf(hits[p])
  BY DEF Lists, PlacesOfAll
<1>2. p \in 1..p /\ p \notin 1..n /\ 1..n \subseteq DOMAIN hits /\ p \in DOMAIN hits
      /\ \A q \in 1..p : q \in 1..n \/ q = p
  OBVIOUS
<1>3. /\ IsFiniteSet(G)
      /\ \A g \in G : IsGroup(g, n) /\ PlacesOf(g) \subseteq 1..n /\ p \notin PlacesOf(g)
                      /\ (g[1] \in Papers => OneWork(g, n))
      /\ \A g, h \in G : g # h => PlacesOf(g) \cap PlacesOf(h) = {}
      /\ \A q \in 1..n : Accepted(hits[q]) <=> \E g \in G : q \in PlacesOf(g)
  BY <1>2 DEF Grouped, IsGroup
<1>4. \A g \in G : /\ g[1] \in PlacesOf(g)
                   /\ \A q \in PlacesOf(g) : DomainOf(hits[q]) = DomainOf(hits[g[1]])
  BY <1>3, GroupFacts DEF IsGroup
<1>5. \A q \in N : DomainOf(hits[q]) = DomainOf(hits[p]) /\ q \in 1..p
  BY <1>2, <1>3, <1>4
<1>6. IsGroup(new, p)
  <2>1. Lists(new, PlacesOf(new))
    BY <1>1 DEF PlacesOfAll
  <2> QED BY <1>1, <1>5, <2>1 DEF IsGroup
<1>7. \A g \in G : IsGroup(g, p)
  BY <1>2, <1>3 DEF IsGroup
<1>8. \A S : ClosedIn(S, p) => ClosedIn(S, n)
  BY <1>2 DEF ClosedIn
<1>9. ASSUME NEW g \in G \ met, g[1] \in Papers PROVE OneWork(g, p)
  <2>1. OneWork(g, n)
    BY <1>3, <1>9
  <2>2. ASSUME NEW q \in PlacesOf(g) PROVE ~ Linked(q, p)
    <3>1. SUFFICES ASSUME p \in Papers, Aliases(hits[q]) \cap Aliases(hits[p]) # {} PROVE FALSE
      BY DEF Linked
    <3>2. DomainOf(hits[p]) = "academic" /\ DomainOf(hits[g[1]]) = "academic"
      BY <1>9, <3>1 DEF Papers
    <3>3. Aliases(hits[p]) \cap Aliases(hits[q]) # {}
      BY <3>1
    <3>4. Joins(hits, p, g)
      BY <1>3, <2>2, <3>2, <3>3, JoinsByMember
    <3> QED BY <1>9, <3>1, <3>4
  <2>3. ClosedIn(PlacesOf(g), p)
    BY <1>2, <2>1, <2>2 DEF OneWork, ClosedIn
  <2> QED BY <1>8, <2>1, <2>3 DEF OneWork
<1>10. ASSUME p \in Papers PROVE OneWork(new, p)
  <2>1. /\ met = {g \in G : Joins(hits, p, g)} /\ DomainOf(hits[p]) = "academic"
        /\ \A g \in met : OneWork(g, n)
    <3>1. met = {g \in G : Joins(hits, p, g)} /\ DomainOf(hits[p]) = "academic"
      BY <1>10 DEF Papers
    <3>2. ASSUME NEW g \in met PROVE g[1] \in DOMAIN hits
      <4>1. g[1] \in 1..n
        BY <1>3, <1>4
      <4> QED BY <1>2, <4>1
    <3> QED BY <1>3, <3>1, <3>2 DEF Papers
  <2>2. ASSUME NEW q \in N, NEW r \in 1..p, Linked(q, r) PROVE r \in N
    <3>1. CASE r = p
      BY <3>1
    <3>2. CASE r \in 1..n /\ q = p
      <4>1. DomainOf(hits[r]) = "academic" /\ Aliases(hits[p]) \cap Aliases(hits[r]) # {}
        BY <2>2, <3>2 DEF Linked, Papers
      <4>2. PICK g \in G : r \in PlacesOf(g)
        BY <1>3, <3>2, <4>1 DEF Accepted
      <4>3. DomainOf(hits[g[1]]) = "academic"
        BY <1>4, <4>1, <4>2
      <4>4. Joins(hits, p, g)
        BY <1>3, <2>1, <4>1, <4>2, <4>3, JoinsByMember
      <4> QED BY <2>1, <4>2, <4>4
    <3>3. CASE r \in 1..n /\ q # p
      <4>1. PICK g \in met : q \in PlacesOf(g)
        BY <3>3
      <4>2. r \in PlacesOf(g)
        BY <2>1, <2>2, <3>3, <4>1 DEF OneWork, ClosedIn
      <4> QED BY <4>1, <4>2
    <3> QED BY <1>2, <3>1, <3>2, <3>3
  <2>3. ASSUME NEW S \in SUBSET DOMAIN hits, N \cap S # {}, ClosedIn(S, p) PROVE N \subseteq S
    <3>1. ASSUME NEW g \in met, PlacesOf(g) \cap S # {} PROVE PlacesOf(g) \subseteq S
      BY <1>8, <2>1, <2>3, <3>1 DEF OneWork
    <3>2. \A g \in met : \E q \in PlacesOf(g) : Aliases(hits[p]) \cap Aliases(hits[q]) # {}
      BY <1>3, <2>1, JoinsByMember
    <3>3. p \in S
      <4>1. CASE p \in S
        BY <4>1
      <4>2. CASE \E g \in met : PlacesOf(g) \cap S # {}
        <5>1. PICK g \in met : PlacesOf(g) \cap S # {}
          BY <4>2
        <5>2. PICK q \in PlacesOf(g) : Aliases(hits[p]) \cap Aliases(hits[q]) # {}
          BY <3>2
        <5>3. q \in S /\ Linked(q, p)
          BY <1>10, <3>1, <5>1, <5>2 DEF Linked
        <5> QED BY <1>2, <2>3, <5>3 DEF ClosedIn
      <4> QED BY <2>3, <4>1, <4>2
    <3>4. ASSUME NEW g \in met PROVE PlacesOf(g) \subseteq S
      <4>1. PICK q \in PlacesOf(g) : Aliases(hits[p]) \cap Aliases(hits[q]) # {}
        BY <3>2
      <4>2. q \in 1..n /\ DomainOf(hits[q]) = "academic" /\ q \in DOMAIN hits
        <5>1. q \in 1..n /\ DomainOf(hits[q]) = DomainOf(hits[p])
          BY <1>3, <1>4, <4>1
        <5> QED BY <1>2, <2>1, <5>1
      <4>3. Linked(p, q)
        BY <4>1, <4>2 DEF Linked, Papers
      <4>4. q \in S
        BY <1>2, <2>3, <3>3, <4>2, <4>3 DEF ClosedIn
      <4> QED BY <3>1, <4>1, <4>4
    <3> QED BY <3>3, <3>4
  <2>4. ClosedIn(N, p)
    BY <2>2 DEF ClosedIn
  <2> HIDE DEF N
  <2> QED BY <1>1, <2>3, <2>4 DEF OneWork
<1>11. new[1] \in Papers => p \in Papers
  BY <1>1 DEF Papers
<1> DEFINE H == (G \ met) \cup {new}
<1>12. \A g \in H : IsGroup(g, p) /\ (g[1] \in Papers => OneWork(g, p))
  BY <1>6, <1>7, <1>9, <1>10, <1>11
<1>13. \A g \in G \ met : PlacesOf(g) \cap N = {}
  BY <1>3
<1>14. \A g, h \in H : g # h => PlacesOf(g) \cap PlacesOf(h) = {}
  BY <1>1, <1>3, <1>13
<1>15. \A q \in 1..p : Accepted(hits[q]) <=> \E g \in H : q \in PlacesOf(g)
  <2>1. Accepted(hits[p]) /\ p \in PlacesOf(new)
    BY <1>1
  <2>2. ASSUME NEW q \in 1..n
        PROVE  (\E g \in G : q \in PlacesOf(g)) <=> (\E g \in H : q \in PlacesOf(g))
    <3>1. q # p
      BY <1>2
    <3>2. q \in N <=> \E g \in met : q \in PlacesOf(g)
      BY <3>1
    <3> HIDE DEF N
    <3> QED BY <1>1, <3>2
  <2> QED BY <1>2, <1>3, <2>1, <2>2
<1>16. IsFiniteSet(H)
  <2>1. IsFiniteSet(G \ met)
    BY <1>3, FS_Subset
  <2> QED BY <2>1, FS_AddElement
<1> HIDE DEF H, p
<1> QED BY <1>12, <1>14, <1>15, <1>16 DEF Grouped, H, p

\* A hit that joins some groups leaves one record of them and the hit.
LEMMA JoinedHit ==
    ASSUME NEW n \in Nat, 1..n + 1 \subseteq DOMAIN hits,
           NEW G, Grouped(G, n), Accepted(hits[n + 1]),
           NEW met, met # {}, met \subseteq {g \in G : Joins(hits, n + 1, g)},
           n + 1 \in Papers => met = {g \in G : Joins(hits, n + 1, g)}
    PROVE  Grouped((G \ met) \cup {Together(met, n + 1)}, n + 1)
<1>1. /\ IsFiniteSet(met) /\ met \in SUBSET G
      /\ \A g \in met : IsGroup(g, n)
      /\ \A g, h \in met : g # h => PlacesOf(g) \cap PlacesOf(h) = {}
  <2>1. IsFiniteSet(G) /\ met \subseteq G
    BY DEF Grouped
  <2> QED BY <2>1, FS_Subset DEF Grouped
<1>2. n + 1 \notin 1..n
  OBVIOUS
<1>3. /\ Lists(Together(met, n + 1), {n + 1} \cup PlacesOfAll(met))
      /\ Together(met, n + 1) # << >>
      /\ \E g \in met : Together(met, n + 1)[1] = g[1]
  <2>1. n \in Nat
    OBVIOUS
  <2>2. ASSUME NEW p, p \notin 1..n 
        PROVE  /\ Lists(Together(met, p), {p} \cup PlacesOfAll(met))
               /\ Together(met, p) # << >>
               /\ \E g \in met : Together(met, p)[1] = g[1]
    BY <1>1, <2>1, <2>2, TogetherLists
  <2> QED BY <1>2, <2>2
<1>4. \A g \in met : DomainOf(hits[g[1]]) = DomainOf(hits[n + 1])
  BY DEF Joins
<1>5. DomainOf(hits[Together(met, n + 1)[1]]) = DomainOf(hits[n + 1])
  BY <1>3, <1>4
<1> QED BY <1>1, <1>3, <1>4, <1>5, AcceptedHit

\* One turn of the loops over records.
LEMMA PutInGroups ==
    ASSUME NEW n \in Nat, 1..n + 1 \subseteq DOMAIN hits, NEW G, Grouped(G, n)
    PROVE  Grouped(AddToGroups(hits, n + 1, G), n + 1)
<1> DEFINE p == n + 1
           near == {g \in G : Joins(hits, p, g)}
<1>1. CASE ~ Accepted(hits[p])
  BY <1>1, RejectedHit DEF AddToGroups
<1>2. CASE Accepted(hits[p]) /\ near = {}
  <2>1. AddToGroups(hits, p, G) = G \cup {<<p>>}
    BY <1>2 DEF AddToGroups
  <2>2. Lists(<<p>>, {p} \cup PlacesOfAll({})) /\ <<p>> # << >> /\ <<p>>[1] = p
    BY OneListed DEF PlacesOfAll
  <2>3. Grouped((G \ {}) \cup {<<p>>}, p)
    BY <1>2, <2>2, AcceptedHit
  <2> QED BY <2>1, <2>3
<1>3. CASE Accepted(hits[p]) /\ near # {}
  <2>1. /\ IsFiniteSet(near)
        /\ \A g \in near : IsGroup(g, n)
        /\ \A g, h \in near : g # h => PlacesOf(g) \cap PlacesOf(h) = {}
    BY FS_Subset DEF Grouped
  <2>2. Head(InOrder(near)) \in near
    <3>1. Lists(InOrder(near), near) /\ Len(InOrder(near)) = Cardinality(near)
      <4>1. \A g \in near : 1 \in DOMAIN g /\ \A i \in DOMAIN g : i \in Nat \ {0} /\ g[i] \in Nat
        BY <2>1, GroupFacts
      <4>2. \A g, h \in near : g # h => g[1] # h[1]
        BY <2>1, GroupFacts
      <4> QED BY <2>1, <4>1, <4>2, InOrderLists
    <3>2. InOrder(near) \in Seq(near) /\ Len(InOrder(near)) # 0
      BY <1>3, <2>1, <3>1, FS_EmptySet DEF Lists
    <3>3. InOrder(near) # << >>
      BY <3>2
    <3> QED BY <3>2, <3>3, HeadTailProperties
  <2>3. PICK met : met = Merged(hits, p, near)
    OBVIOUS
  <2>4. met = IF p \in Papers THEN near ELSE {Head(InOrder(near))}
    BY <2>3 DEF Merged, Papers
  <2>5. met # {} /\ met \subseteq near /\ (p \in Papers => met = near)
    BY <1>3, <2>2, <2>4
  <2>6. AddToGroups(hits, p, G) = (G \ met) \cup {Together(met, p)}
    BY <1>3, <2>3 DEF AddToGroups, Together
  <2>7. Grouped((G \ met) \cup {Together(met, p)}, p)
    BY <1>3, <2>5, JoinedHit
  <2> QED BY <2>6, <2>7
<1> QED BY <1>1, <1>2, <1>3

-----------------------------------------------------------------------------
(* The stages *)

\* Where the loops over records are, and what they have made of the hits.
MergeInv ==
    /\ Len(hits) \in Nat /\ DOMAIN hits = 1..Len(hits)
    /\ at \in 1..Len(hits) + 1
    /\ Grouped(groups, at - 1)
    /\ stage = "planning" => at = 1 /\ groups = {}
    /\ stage \notin {"planning", "grouping"} => at = Len(hits) + 1

\* Before the first hit there is no group.
LEMMA NothingGrouped == Grouped({}, 0)
BY FS_EmptySet DEF Grouped

\* The same of the next state.
LEMMA NothingGroupedNext == Grouped({}, 0)'
BY FS_EmptySet DEF Grouped

\* Groups are about the hits and nothing else.
LEMMA GroupedSteady ==
    ASSUME UNCHANGED hits, NEW n \in Nat, Grouped(groups', n)
    PROVE  Grouped(groups, n)'
BY DEF Grouped, IsGroup, OneWork, ClosedIn, Linked, Papers

\* The pack, the planner and the response leave the merging alone.
LEMMA MergeSteady ==
    ASSUME MergeInv, UNCHANGED <<hits, at, groups>>,
           stage' = "planning" => stage = "planning",
           stage' \notin {"planning", "grouping"} => at = Len(hits) + 1
    PROVE  MergeInv'
<1>1. at - 1 \in Nat /\ Grouped(groups', at - 1)
  BY DEF MergeInv
<1>2. Grouped(groups, at - 1)'
  BY <1>1, GroupedSteady
<1> QED BY <1>2 DEF MergeInv

\* The merging starts from a list of hits and no groups.
LEMMA RetrieveKeepsMerge ==
    ASSUME MergeInv, Retrieve
    PROVE  MergeInv'
<1>1. PICK found \in Outcomes : hits' = PrioritizeHits(class.result, found)
  BY DEF Retrieve
<1>2. Len(hits') \in Nat /\ DOMAIN hits' = 1..Len(hits')
  <2>1. hits' \in Seq(Hits)
    BY <1>1, OutcomesAreHits, PrioritizedHits
  <2> QED BY <2>1, LenProperties
<1>3. stage' = "grouping" /\ at' = 1 /\ groups' = {}
  BY DEF Retrieve, MergeInv
<1>4. Grouped(groups, at - 1)'
  BY <1>3, NothingGroupedNext
<1> QED BY <1>2, <1>3, <1>4 DEF MergeInv

\* One turn of the loops over records.
LEMMA CollapseKeepsMerge ==
    ASSUME MergeInv, Collapse
    PROVE  MergeInv'
<1>1. PICK n \in Nat : n = at - 1
  BY DEF MergeInv
<1>2. /\ 1..n + 1 \subseteq DOMAIN hits /\ Grouped(groups, n)
      /\ at' = n + 2 /\ at' \in 1..Len(hits) + 1 /\ UNCHANGED <<stage, hits>>
      /\ groups' = AddToGroups(hits, n + 1, groups) /\ stage = "grouping"
  BY <1>1 DEF MergeInv, Collapse
<1>3. PICK m \in Nat : m = n + 1
  OBVIOUS
<1>4. Grouped(groups', m)
  BY <1>2, <1>3, PutInGroups
<1>5. Grouped(groups, m)'
  BY <1>2, <1>4, GroupedSteady
<1>6. at' - 1 = m
  BY <1>2, <1>3
<1> QED BY <1>2, <1>5, <1>6 DEF MergeInv

\* So the groups are right after every turn of every retrieval.
LEMMA MergeHolds == PipelineSpec => []MergeInv
<1>1. PipelineInit => MergeInv
  <2> SUFFICES ASSUME PipelineInit PROVE MergeInv
    OBVIOUS
  <2>1. stage = "planning" /\ hits = << >> /\ at = 1 /\ groups = {}
    BY DEF PipelineInit
  <2>2. Len(hits) = 0 /\ DOMAIN hits = 1..Len(hits) /\ at - 1 = 0
    BY <2>1
  <2>3. Grouped(groups, at - 1)
    BY <2>1, <2>2, NothingGrouped
  <2> QED BY <2>1, <2>2, <2>3 DEF MergeInv
<1>2. MergeInv /\ [PipelineNext]_allVars => MergeInv'
  <2> SUFFICES ASSUME MergeInv, [PipelineNext]_allVars PROVE MergeInv'
    OBVIOUS
  <2>1. CASE BuildPlan
    BY <2>1, MergeSteady DEF BuildPlan, ownVars, MergeInv
  <2>2. CASE Retrieve
    BY <2>2, RetrieveKeepsMerge
  <2>3. CASE Collapse
    BY <2>3, CollapseKeepsMerge
  <2>4. CASE Rank
    BY <2>4, MergeSteady DEF Rank, MergeInv
  <2>5. CASE PackStep
    BY <2>5, MergeSteady DEF PackStep, ownVars, MergeInv
  <2>6. CASE Shape
    BY <2>6, MergeSteady DEF Shape, MergeInv
  <2>7. CASE Stop
    BY <2>7, MergeSteady DEF Stop, allVars, ownVars, MergeInv
  <2>8. CASE UNCHANGED allVars
    BY <2>8, MergeSteady DEF allVars, ownVars, MergeInv
  <2> QED BY <2>1, <2>2, <2>3, <2>4, <2>5, <2>6, <2>7, <2>8 DEF PipelineNext
<1> QED BY <1>1, <1>2, PTL DEF PipelineSpec

\* When every hit has been placed, a record of papers is a closure of its first.
LEMMA WorkIsClosure ==
    ASSUME MergeInv, stage \notin {"planning", "grouping"},
           NEW g \in groups, DomainOf(hits[g[1]]) = "academic"
    PROVE  PlacesOf(g) = AliasClosure(g[1])
<1> DEFINE n == Len(hits)
<1>1. n \in Nat /\ DOMAIN hits = 1..n /\ at - 1 = n
  BY DEF MergeInv
<1>2. IsGroup(g, n) /\ (g[1] \in Papers => OneWork(g, n))
  BY <1>1 DEF MergeInv, Grouped
<1> HIDE DEF n
<1>3. g[1] \in PlacesOf(g) /\ PlacesOf(g) \subseteq DOMAIN hits
  BY <1>1, <1>2, GroupFacts DEF IsGroup
<1>4. OneWork(g, n)
  BY <1>2, <1>3 DEF Papers
<1>5. \A S : ClosedByAlias(S) <=> ClosedIn(S, n)
  BY <1>1 DEF ClosedByAlias, ClosedIn, Linked, Papers
<1>6. ASSUME NEW q \in PlacesOf(g) PROVE q \in AliasClosure(g[1])
  <2>1. ASSUME NEW S \in SUBSET DOMAIN hits, g[1] \in S, ClosedByAlias(S) PROVE q \in S
    BY <1>3, <1>4, <1>5, <2>1 DEF OneWork
  <2> QED BY <1>3, <2>1 DEF AliasClosure
<1>7. ASSUME NEW q \in AliasClosure(g[1]) PROVE q \in PlacesOf(g)
  BY <1>3, <1>4, <1>5 DEF AliasClosure, OneWork
<1> QED BY <1>6, <1>7

\* An accepted hit has one place in one record.
LEMMA OnePlaceEach ==
    ASSUME MergeInv, stage \notin {"planning", "grouping"},
           NEW p \in DOMAIN hits, Accepted(hits[p])
    PROVE  Cardinality(Occurrences(p)) = 1
<1> DEFINE n == Len(hits)
<1>1. n \in Nat /\ DOMAIN hits = 1..n /\ at - 1 = n
  BY DEF MergeInv
<1>2. /\ \A g \in groups : IsGroup(g, n)
      /\ \A g, h \in groups : g # h => PlacesOf(g) \cap PlacesOf(h) = {}
      /\ \E g \in groups : p \in PlacesOf(g)
  BY <1>1 DEF MergeInv, Grouped
<1> HIDE DEF n
<1>3. PICK g \in groups : p \in PlacesOf(g)
  BY <1>2
<1>4. PICK i \in DOMAIN g : g[i] = p
  BY <1>3 DEF PlacesOf
<1>5. ASSUME NEW o \in Occurrences(p) PROVE o = <<g, i>>
  <2>1. PICK h \in groups : o \in {h} \X {k \in DOMAIN h : h[k] = p}
    BY DEF Occurrences
  <2>2. PICK k \in DOMAIN h : o = <<h, k>> /\ h[k] = p
    BY <2>1
  <2>3. h = g
    BY <1>2, <1>3, <2>2 DEF PlacesOf
  <2>4. k = i
    BY <1>2, <1>4, <2>2, <2>3 DEF IsGroup, Lists
  <2> QED BY <2>2, <2>3, <2>4
<1>6. <<g, i>> \in Occurrences(p)
  BY <1>4 DEF Occurrences
<1>7. Occurrences(p) = {<<g, i>>}
  BY <1>5, <1>6
<1> QED BY <1>7, FS_Singleton

\* canonicalize_academic_records and the loops over records.
THEOREM WorksAreMerged == PipelineSpec => []WorksAreTold
<1>1. MergeInv => WorksAreTold
  BY WorkIsClosure, OnePlaceEach DEF WorksAreTold
<1> QED BY <1>1, MergeHolds, PTL

-----------------------------------------------------------------------------
(* Sides *)

\* The scores order any routes by score, then precedence, and one comes first.
LEMMA RouteRanked ==
    ASSUME NEW scores \in Scores, NEW routes \in SUBSET Routes, routes # {}
    PROVE  RankFirst(scores, routes) \in routes
<1>1. /\ Precedence["policy"] = 0
      /\ Precedence["academic"] = 1
      /\ Precedence["industry"] = 2
  BY DEF Precedence
<1>2. /\ scores["policy"] \in Nat
      /\ scores["academic"] \in Nat
      /\ scores["industry"] \in Nat
      /\ routes \subseteq {"policy", "academic", "industry"}
  BY DEF Scores, Routes
<1>3. \E r \in routes : \A s \in routes \ {r} : RanksBefore(r, s, scores)
  <2>1. CASE "policy" \in routes
    BY <2>1, <1>1, <1>2 DEF RanksBefore
  <2>2. CASE "policy" \notin routes /\ "academic" \in routes
    BY <2>2, <1>1, <1>2 DEF RanksBefore
  <2>3. CASE "policy" \notin routes /\ "academic" \notin routes
    BY <2>3, <1>1, <1>2 DEF RanksBefore
  <2> QED BY <2>1, <2>2, <2>3
<1> QED BY <1>3 DEF RankFirst

\* classify_query: no mix is of one route with itself.
LEMMA SidesDiffer ==
    ASSUME NEW c \in Classifications
    PROVE  /\ c.primary \in Routes /\ c.supplement \in Routes \cup {NoRoute}
           /\ c.supplement # c.primary
<1>1. PICK v \in Views : c = Classify(v)
  BY DEF Classifications
<1>2. v.scores \in Scores
  BY DEF Views
<1> DEFINE first == RankFirst(v.scores, Routes)
           second == RankFirst(v.scores, Routes \ {first})
<1>3. first \in Routes
  BY <1>2, RouteRanked DEF Routes
<1>4. Routes \ {first} # {}
  BY DEF Routes
<1>5. second \in Routes /\ second # first
  BY <1>2, <1>4, RouteRanked
<1> HIDE DEF first, second
<1>6. NoRoute \notin Routes /\ {"policy", "academic", "industry"} = Routes
  BY DEF NoRoute, Routes
<1>7. \A s : MixOf(first, s).primary = first /\ MixOf(first, s).supplement = s
  BY DEF MixOf
<1>8. \/ c \in {MixOf(first, second), MixOf(first, NoRoute)}
      \/ c \in {Concrete("policy"), MixOf("policy", "industry"), Concrete("industry"),
                ParallelUpdate, Concrete(first)}
  BY <1>1 DEF Classify, first, second
<1>9. CASE c \in {MixOf(first, second), MixOf(first, NoRoute)}
  BY <1>3, <1>5, <1>6, <1>7, <1>9
<1>10. CASE c \in {Concrete("policy"), Concrete("industry"), Concrete(first)}
  BY <1>3, <1>6, <1>10 DEF Concrete
<1>11. CASE c \in {MixOf("policy", "industry"), ParallelUpdate}
  BY <1>6, <1>11 DEF MixOf, ParallelUpdate
<1> QED BY <1>8, <1>9, <1>10, <1>11

\* A step is on the side of the route it was planned for.
OnSide(step, c) ==
    /\ step.supplemental \in BOOLEAN
    /\ step.route = IF step.supplemental THEN c.supplement ELSE c.primary

SidesInv ==
    /\ class.result \in Classifications
    /\ \A i \in DOMAIN firstWave : OnSide(firstWave[i], class.result)
    /\ \A q \in pending : OnSide(q.step, class.result)
    /\ \A f \in fallbacks : OnSide(f.step, class.result)

\* Two lists of steps of a plan, one after the other.
LEMMA StepsJoined ==
    ASSUME NEW c, NEW s, s \in Seq(PlacesOf(s)), \A x \in PlacesOf(s) : OnSide(x, c),
           NEW t, t \in Seq(PlacesOf(t)), \A x \in PlacesOf(t) : OnSide(x, c)
    PROVE  /\ DOMAIN (s \o t) = 1..Len(s \o t)
           /\ \A i \in DOMAIN (s \o t) : OnSide((s \o t)[i], c)
<1> DEFINE X == PlacesOf(s) \cup PlacesOf(t)
<1>1. s \o t \in Seq(X)
  BY SeqMonotonic, ConcatProperties
<1>2. \A x \in X : OnSide(x, c)
  OBVIOUS
<1> HIDE DEF X
<1> QED BY <1>1, <1>2, ElementOfSeq, LenProperties

\* Steps planned for a route are on its side.
LEMMA StepsOnSide ==
    ASSUME NEW c, NEW ids, Len(ids) \in Nat, NEW route, NEW supplemental \in BOOLEAN,
           route = IF supplemental THEN c.supplement ELSE c.primary
    PROVE  /\ AsSteps(ids, route, supplemental) \in Seq(PlacesOf(AsSteps(ids, route, supplemental)))
           /\ \A x \in PlacesOf(AsSteps(ids, route, supplemental)) : OnSide(x, c)
<1> DEFINE f == AsSteps(ids, route, supplemental)
<1>1. f = [i \in 1..Len(ids) |-> Step(ids[i], route, supplemental)]
  BY DEF AsSteps
<1> HIDE DEF f
<1>2. f = [i \in 1..Len(ids) |-> f[i]]
  BY <1>1
<1>3. \A s : OnSide(Step(s, route, supplemental), c)
  BY DEF OnSide, Step
<1>4. \A x \in PlacesOf(f) : OnSide(x, c)
  BY <1>1, <1>3 DEF PlacesOf
<1>5. f \in Seq(PlacesOf(f))
  BY <1>2, ListMade
<1> QED BY <1>4, <1>5 DEF f

\* build_retrieval_plan: the first wave of a classified query.
LEMMA FirstWaveOnSide ==
    ASSUME NEW c \in Classifications, NEW q
    PROVE  /\ DOMAIN FirstWaveOf(c, q) = 1..Len(FirstWaveOf(c, q))
           /\ \A i \in DOMAIN FirstWaveOf(c, q) : OnSide(FirstWaveOf(c, q)[i], c)
<1>1. \A s : Len(<<s>>) \in Nat
  OBVIOUS
<1>2. Len(IndustryFirstWave(q)) \in Nat
  BY DEF IndustryFirstWave, DomainFirstWave
<1>3. Len(SupplementalIndustry(q)) \in Nat
  BY <1>2 DEF SupplementalIndustry
<1>4. Len(DomainFirstWave["policy"]) \in Nat /\ Len(DomainFirstWave["academic"]) \in Nat
  BY DEF DomainFirstWave
<1> DEFINE s == PrimaryFirstWave(c, q)
           t == SupplementalFirstWave(c, q)
<1>5. s \in Seq(PlacesOf(s)) /\ \A x \in PlacesOf(s) : OnSide(x, c)
  <2> DEFINE ids == CASE IsAcademicPlan(c) -> <<MetadataOrder(q)[1]>>
                      [] c.primary = "industry" -> IndustryFirstWave(q)
                      [] OTHER -> DomainFirstWave[c.primary]
  <2>1. Len(ids) \in Nat
    <3>1. c.primary \in {"policy", "academic", "industry"}
      BY SidesDiffer DEF Routes
    <3>2. IsAcademicPlan(c) => c.primary = "academic"
      BY DEF IsAcademicPlan
    <3> QED BY <1>1, <1>2, <1>4, <3>1, <3>2
  <2>2. s = AsSteps(ids, c.primary, FALSE)
    BY DEF PrimaryFirstWave
  <2> HIDE DEF ids, s
  <2> QED BY <2>1, <2>2, StepsOnSide
<1>6. t \in Seq(PlacesOf(t)) /\ \A x \in PlacesOf(t) : OnSide(x, c)
  <2>1. CASE c.supplement = NoRoute
    <3>1. t = << >>
      BY <2>1 DEF SupplementalFirstWave
    <3> HIDE DEF t
    <3> QED BY <3>1 DEF PlacesOf
  <2>2. CASE c.supplement # NoRoute
    <3> DEFINE ids == IF c.supplement = "industry" THEN SupplementalIndustry(q)
                      ELSE <<SupplementalStrongest[c.supplement]>>
    <3>1. Len(ids) \in Nat
      BY <1>1, <1>3
    <3>2. t = AsSteps(ids, c.supplement, TRUE)
      BY <2>2 DEF SupplementalFirstWave
    <3> HIDE DEF ids, t
    <3> QED BY <3>1, <3>2, StepsOnSide
  <2> QED BY <2>1, <2>2
<1>7. FirstWaveOf(c, q) = s \o t
  BY DEF FirstWaveOf
<1> HIDE DEF s, t
<1> QED BY <1>5, <1>6, <1>7, StepsJoined

\* The planner's tables, instantiated, are those of PlanTables.
LEMMA SameClassifications == Plan!Classifications = Classifications
BY DEF Classifications, Views, Classify, RankFirst, RanksBefore, Precedence, Scores, Families,
       Concrete, MixOf, ParallelUpdate, IsExplicitCrossDomain, IsPolicyFiling,
       KeepsPolicyFilingConcrete, PrefersIndustryFiling, PrefersIndustryStandards,
       IsParallelUpdateQuery, LowSignalScoreThreshold, Routes, NoRoute,
       Plan!Classifications, Plan!Views, Plan!Classify, Plan!RankFirst, Plan!RanksBefore,
       Plan!Precedence, Plan!Scores, Plan!Families, Plan!Concrete, Plan!MixOf,
       Plan!ParallelUpdate, Plan!IsExplicitCrossDomain, Plan!IsPolicyFiling,
       Plan!KeepsPolicyFilingConcrete, Plan!PrefersIndustryFiling,
       Plan!PrefersIndustryStandards, Plan!IsParallelUpdateQuery,
       Plan!LowSignalScoreThreshold, Plan!Routes, Plan!NoRoute

\* The planner's first wave, instantiated, is that of PlanTables.
LEMMA SameFirstWave ==
    ASSUME NEW c, NEW q
    PROVE  Plan!FirstWaveOf(c, q) = FirstWaveOf(c, q)
BY DEF FirstWaveOf, PrimaryFirstWave, SupplementalFirstWave, SupplementalIndustry,
       IndustryFirstWave, MetadataOrder, DomainFirstWave, SupplementalStrongest,
       IsAcademicPlan, AsSteps, Step, NoRoute,
       Plan!FirstWaveOf, Plan!PrimaryFirstWave, Plan!SupplementalFirstWave,
       Plan!SupplementalIndustry, Plan!IndustryFirstWave, Plan!MetadataOrder,
       Plan!DomainFirstWave, Plan!SupplementalStrongest, Plan!IsAcademicPlan, Plan!AsSteps,
       Plan!Step, Plan!NoRoute

\* A plan starts with the steps of its first wave, each on its side.
LEMMA PlanStartsOnSide == PipelineInit => SidesInv
<1> SUFFICES ASSUME PipelineInit PROVE SidesInv
  OBVIOUS
<1>1. PICK c \in Classifications, q \in Plan!Markers :
        /\ class = [result |-> c, markers |-> q]
        /\ firstWave = FirstWaveOf(c, q)
        /\ pending = IF Plan!IsAcademicPlan(c) THEN {}
                     ELSE {Plan!Queued(Plan!NoRoute, firstWave[i]) : i \in 1..Len(firstWave)}
        /\ fallbacks = {}
  BY SameClassifications, SameFirstWave DEF PipelineInit, Plan!Init
<1>2. class.result = c /\ \A i \in 1..Len(firstWave) : OnSide(firstWave[i], c)
  BY <1>1, FirstWaveOnSide
<1>3. \A x \in pending : OnSide(x.step, c)
  BY <1>1, <1>2 DEF Plan!Queued
<1> QED BY <1>1, <1>2, <1>3, FirstWaveOnSide DEF SidesInv

\* What the walk adds for a step on its side is on that side.
LEMMA EntryOnSide ==
    ASSUME SidesInv, NEW head \in pending, NEW t
    PROVE  OnSide(Plan!EntryStep(head, t), class.result)
<1>1. CASE Plan!Known(head.step.source, t)
  <2>1. \E f \in fallbacks : f.from = head.step.source /\ f.step.source = t
    BY <1>1 DEF Plan!Known
  <2>2. PICK f \in fallbacks : Plan!EntryStep(head, t) = f.step
    BY <1>1, <2>1 DEF Plan!EntryStep
  <2> QED BY <2>2 DEF SidesInv
<1>2. CASE ~ Plan!Known(head.step.source, t)
  BY <1>2 DEF SidesInv, OnSide, Plan!EntryStep, Plan!Inherited, Plan!Step
<1> QED BY <1>1, <1>2

\* The walk over the fallback tables and the chains by hand change no side.
LEMMA PlanStaysOnSide ==
    ASSUME SidesInv, Plan!Next
    PROVE  SidesInv'
<1>1. UNCHANGED <<class, firstWave>>
  BY DEF Plan!Next, Plan!WalkHead, Plan!Finish
<1>2. ASSUME NEW f \in fallbacks' PROVE OnSide(f.step, class.result)
  <2>1. ASSUME NEW head \in pending, fallbacks' = fallbacks \cup Plan!EntriesOf(head)
        PROVE  OnSide(f.step, class.result)
    <3>1. \/ f \in fallbacks
          \/ \E t, r : f = Plan!Transition(head.step.source, r, Plan!EntryStep(head, t))
      BY <2>1 DEF Plan!EntriesOf
    <3> QED BY <3>1, EntryOnSide DEF SidesInv, Plan!Transition
  <2>2. ASSUME NEW chain, NEW route, NEW supplemental \in BOOLEAN,
               f \in Plan!LinksOf(chain, route, supplemental),
               route = IF supplemental THEN class.result.supplement ELSE class.result.primary
        PROVE  OnSide(f.step, class.result)
    BY <2>2 DEF Plan!LinksOf, Plan!Transition, Plan!Step, OnSide
  <2>3. CASE Plan!WalkHead
    BY <2>1, <2>3 DEF Plan!WalkHead
  <2>4. CASE Plan!Finish
    <3> DEFINE c == class.result
               chain == Plan!HandChain(c, class.markers)
    <3>1. fallbacks' = IF Plan!IsAcademicPlan(c) THEN Plan!LinksOf(chain, "academic", FALSE)
                       ELSE IF chain = << >> THEN fallbacks
                       ELSE Plan!Replaced(c.supplement, chain)
      BY <2>4 DEF Plan!Finish
    <3> HIDE DEF chain
    <3>2. Plan!IsAcademicPlan(c) => c.primary = "academic"
      BY DEF Plan!IsAcademicPlan
    <3>3. f \in fallbacks \/ f \in Plan!LinksOf(chain, c.supplement, TRUE)
          \/ (Plan!IsAcademicPlan(c) /\ f \in Plan!LinksOf(chain, "academic", FALSE))
      BY <3>1 DEF Plan!Replaced
    <3>4. CASE f \in fallbacks
      BY <3>4 DEF SidesInv
    <3>5. CASE f \in Plan!LinksOf(chain, c.supplement, TRUE)
      BY <2>2, <3>5
    <3>6. CASE Plan!IsAcademicPlan(c) /\ f \in Plan!LinksOf(chain, "academic", FALSE)
      BY <2>2, <3>2, <3>6
    <3> QED BY <3>3, <3>4, <3>5, <3>6
  <2> QED BY <2>3, <2>4 DEF Plan!Next
<1>3. ASSUME NEW x \in pending' PROVE OnSide(x.step, class.result)
  <2>1. CASE Plan!WalkHead
    <3>1. PICK head \in pending : pending' = (pending \cup Plan!FollowedBy(head)) \ processed'
      BY <2>1 DEF Plan!WalkHead
    <3>2. x \in pending \/ \E t : x = Plan!Queued(head.step.source, Plan!EntryStep(head, t))
      BY <3>1 DEF Plan!FollowedBy
    <3> QED BY <3>2, EntryOnSide DEF SidesInv, Plan!Queued
  <2>2. CASE Plan!Finish
    BY <2>2 DEF Plan!Finish, SidesInv
  <2> QED BY <2>1, <2>2 DEF Plan!Next
<1> QED BY <1>1, <1>2, <1>3 DEF SidesInv, OnSide

\* So every step of every plan is on the side of its route.
LEMMA SidesHold == PipelineSpec => []SidesInv
<1>1. SidesInv /\ [PipelineNext]_allVars => SidesInv'
  <2> SUFFICES ASSUME SidesInv, [PipelineNext]_allVars PROVE SidesInv'
    OBVIOUS
  <2>1. CASE BuildPlan
    BY <2>1, PlanStaysOnSide DEF BuildPlan
  <2>2. CASE UNCHANGED planVars
    BY <2>2 DEF planVars, SidesInv, OnSide
  <2> QED
    BY <2>1, <2>2 DEF PipelineNext, Retrieve, Collapse, Rank, PackStep, Shape, Stop, allVars
<1> QED BY <1>1, PlanStartsOnSide, PTL DEF PipelineSpec

\* What the engine writes on the hits of a planned source is the side it is planned for.
LEMMA RoleIsSide ==
    ASSUME SidesInv, NEW h, \E s \in PlannedSteps : s.source = h.source
    PROVE  RouteRole(h) = "primary" <=> ~ StepOf(h.source).supplemental
<1> DEFINE s == StepOf(h.source)
<1>1. s \in PlannedSteps
  BY DEF StepOf
<1>2. OnSide(s, class.result)
  BY <1>1 DEF PlannedSteps, SidesInv
<1>3. class.result.supplement # class.result.primary
  BY SidesDiffer DEF SidesInv
<1> QED BY <1>2, <1>3 DEF RouteRole, OnSide

-----------------------------------------------------------------------------
(* The plan *)

\* The route whose sources s is one of; industry_ddgs is in no plan.
HomeOf(s) ==
    IF s \in {"policy_official_registry", "policy_official_web_allowlist_fallback"}
      THEN "policy"
    ELSE IF s \in {"academic_semantic_scholar", "academic_arxiv", "academic_asta_mcp"}
      THEN "academic"
    ELSE IF s \in {"industry_official_or_filings", "industry_web_discovery",
                   "industry_news_rss"}
      THEN "industry"
    ELSE NoRoute

AtHome(step) == step.route \in Routes /\ HomeOf(step.source) = step.route

\* SOURCE_BACKUP_CHAIN, row by row.
LEMMA PlanTable ==
    /\ Plan!SourceIds =
         {"policy_official_registry", "policy_official_web_allowlist_fallback",
          "academic_asta_mcp", "academic_semantic_scholar", "academic_arxiv", "industry_ddgs",
          "industry_official_or_filings", "industry_web_discovery", "industry_news_rss"}
    /\ Plan!ChainReasons = {"no_hits", "timeout", "rate_limited"}
    /\ \A r \in Plan!ChainReasons :
         /\ Plan!SourceBackupChain["policy_official_registry"][r] =
              "policy_official_web_allowlist_fallback"
         /\ Plan!SourceBackupChain["policy_official_web_allowlist_fallback"][r] = NoRoute
         /\ Plan!SourceBackupChain["academic_asta_mcp"][r] = NoRoute
         /\ Plan!SourceBackupChain["academic_semantic_scholar"][r] = "academic_asta_mcp"
         /\ Plan!SourceBackupChain["academic_arxiv"][r] = NoRoute
         /\ Plan!SourceBackupChain["industry_official_or_filings"][r] =
              IF r = "rate_limited" THEN "industry_news_rss" ELSE "industry_web_discovery"
         /\ Plan!SourceBackupChain["industry_web_discovery"][r] =
              IF r = "rate_limited" THEN "industry_official_or_filings" ELSE "industry_news_rss"
         /\ Plan!SourceBackupChain["industry_news_rss"][r] =
              IF r = "rate_limited" THEN "industry_web_discovery"
              ELSE "industry_official_or_filings"
    /\ NoRoute = "none" /\ Plan!NoBackup = "none"
BY DEF Plan!SourceIds, Plan!SourceBackupChain, Plan!Backup, Plan!ChainReasons,
       Plan!NoBackup, NoRoute

\* A backup is a source of the same route, and has a backup of its own to offer or none.
LEMMA BackupAtHome ==
    ASSUME NEW s, HomeOf(s) \in Routes, NEW r \in Plan!ChainReasons,
           Plan!SourceBackupChain[s][r] \in Plan!SourceIds
    PROVE  HomeOf(Plan!SourceBackupChain[s][r]) = HomeOf(s)
BY PlanTable DEF HomeOf, Routes

\* A target that two reasons lead to.
LedToTwice(s, t) ==
    \E r, u \in Plan!ChainReasons :
        r # u /\ Plan!SourceBackupChain[s][r] = t /\ Plan!SourceBackupChain[s][u] = t

\* The walk goes on from it wherever it comes from.
LEMMA TwiceIsFollowed ==
    ASSUME NEW s, NEW t, LedToTwice(s, t), NEW known \in BOOLEAN
    PROVE  Plan!Follows(s, t, known)
<1>1. PICK r, u \in Plan!ChainReasons : r # u /\ {r, u} \subseteq Plan!Triggers(s, t)
  BY DEF LedToTwice, Plan!Triggers
<1>2. IsFiniteSet({"no_hits", "timeout", "rate_limited"})
  <2>1. IsFiniteSet({} \cup {"no_hits"})
    BY FS_EmptySet, FS_AddElement
  <2>2. IsFiniteSet(({} \cup {"no_hits"}) \cup {"timeout"})
    BY <2>1, FS_AddElement
  <2>3. IsFiniteSet((({} \cup {"no_hits"}) \cup {"timeout"}) \cup {"rate_limited"})
    BY <2>2, FS_AddElement
  <2>4. (({} \cup {"no_hits"}) \cup {"timeout"}) \cup {"rate_limited"}
          = {"no_hits", "timeout", "rate_limited"}
    OBVIOUS
  <2> QED BY <2>3, <2>4
<1>3. IsFiniteSet(Plan!Triggers(s, t))
  BY <1>2, FS_Subset DEF Plan!Triggers, Plan!ChainReasons
<1>4. IsFiniteSet({r}) /\ Cardinality({r}) = 1
  BY FS_Singleton
<1>5. IsFiniteSet({r} \cup {u}) /\ Cardinality({r} \cup {u}) = 2
  BY <1>1, <1>4, FS_AddElement
<1>6. {r} \cup {u} \in SUBSET Plan!Triggers(s, t)
  BY <1>1
<1>7. Cardinality({r} \cup {u}) <= Cardinality(Plan!Triggers(s, t))
  BY <1>3, <1>6, FS_Subset
<1>8. Cardinality(Plan!Triggers(s, t)) \in Nat
  BY <1>3, FS_CardinalityType
<1>9. Plan!Cardinality(Plan!Triggers(s, t)) = Cardinality(Plan!Triggers(s, t))
  BY DEF Cardinality, Plan!Cardinality
<1> QED BY <1>5, <1>7, <1>8, <1>9 DEF Plan!Follows

\* Within a route the second reasons lead round, so a set closed under them is closed
\* under every reason.
LEMMA TwiceClosed ==
    ASSUME NEW D, \A s \in D : HomeOf(s) \in Routes,
           \A s \in D, t \in Plan!SourceIds : LedToTwice(s, t) => t \in D
    PROVE  \A s \in D, r \in Plan!ChainReasons :
              Plan!SourceBackupChain[s][r] \in Plan!SourceIds => Plan!SourceBackupChain[s][r] \in D
<1>1. /\ LedToTwice("policy_official_registry", "policy_official_web_allowlist_fallback")
      /\ LedToTwice("academic_semantic_scholar", "academic_asta_mcp")
      /\ LedToTwice("industry_official_or_filings", "industry_web_discovery")
      /\ LedToTwice("industry_web_discovery", "industry_news_rss")
      /\ LedToTwice("industry_news_rss", "industry_official_or_filings")
  BY PlanTable DEF LedToTwice
<1>2. TAKE s \in D, r \in Plan!ChainReasons
<1>3. HAVE Plan!SourceBackupChain[s][r] \in Plan!SourceIds
<1>4. CASE HomeOf(s) = "industry"
  <2>1. s \in {"industry_official_or_filings", "industry_web_discovery", "industry_news_rss"}
    BY <1>4, PlanTable DEF HomeOf
  <2>2. {"industry_official_or_filings", "industry_web_discovery", "industry_news_rss"} \subseteq D
    BY <1>1, <2>1, PlanTable
  <2> QED BY <2>1, <2>2, PlanTable
<1>5. CASE HomeOf(s) # "industry"
  BY <1>1, <1>3, <1>5, PlanTable DEF HomeOf, Routes
<1> QED BY <1>4, <1>5

\* What the engine may call after a source of S has failed, and the recursion that
\* Reach is defined by.
NextOf(S) == {f.step.source : f \in {g \in fallbacks : g.from \in S}}

Reaches(after, s, n) ==
    after = [k \in 0..n |-> IF k = 0 THEN NextOf({s})
                            ELSE LET S == after[k - 1] IN S \cup NextOf(S)]

\* Any number of rounds of following the chains from a source can be made.
LEMMA ReachExists ==
    ASSUME NEW s, NEW n \in Nat
    PROVE  \E after : Reaches(after, s, n)
<1> DEFINE S == {k \in Nat : \E after : Reaches(after, s, k - 1)}
<1>1. 1 \in S
  <2> DEFINE f == [k \in 0..1 - 1 |-> NextOf({s})]
  <2>1. f = [k \in 0..1 - 1 |-> IF k = 0 THEN NextOf({s})
                                ELSE LET T == f[k - 1] IN T \cup NextOf(T)]
    BY \A k \in 0..1 - 1 : k = 0
  <2> QED BY <2>1 DEF Reaches
<1>2. ASSUME NEW k \in 1..(n + 1) - 1, k \in S PROVE k + 1 \in S
  <2>1. PICK f : Reaches(f, s, k - 1)
    BY <1>2
  <2> HIDE DEF S
  <2>2. f = [j \in 0..k - 1 |-> IF j = 0 THEN NextOf({s}) ELSE f[j - 1] \cup NextOf(f[j - 1])]
    BY <2>1 DEF Reaches
  <2> DEFINE g == [j \in 0..k |-> IF j < k THEN f[j] ELSE f[k - 1] \cup NextOf(f[k - 1])]
             h == [j \in 0..k |-> IF j = 0 THEN NextOf({s}) ELSE g[j - 1] \cup NextOf(g[j - 1])]
  <2>3. ASSUME NEW j \in 0..k PROVE g[j] = h[j]
    <3>1. CASE j < k
      <4>1. j \in 0..k - 1 /\ (j # 0 => j - 1 \in 0..k /\ j - 1 < k)
        BY <3>1
      <4>2. g[j] = f[j] /\ (j # 0 => g[j - 1] = f[j - 1])
        BY <3>1, <4>1
      <4> HIDE DEF g
      <4>3. f[j] = IF j = 0 THEN NextOf({s}) ELSE f[j - 1] \cup NextOf(f[j - 1])
        BY <2>2, <4>1
      <4> QED BY <4>2, <4>3
    <3>2. CASE ~ (j < k)
      <4>1. j = k /\ j # 0 /\ j - 1 = k - 1 /\ k - 1 \in 0..k /\ k - 1 < k
        BY <1>2, <3>2
      <4>2. g[j] = f[k - 1] \cup NextOf(f[k - 1]) /\ g[j - 1] = f[k - 1]
        BY <4>1
      <4> HIDE DEF g
      <4> QED BY <4>1, <4>2
    <3> QED BY <3>1, <3>2
  <2>4. g = h
    BY <2>3
  <2>5. Reaches(g, s, k)
    <3> HIDE DEF g
    <3> QED BY <2>4 DEF Reaches
  <2>6. (k + 1) - 1 = k /\ k + 1 \in Nat
    BY <1>2
  <2> HIDE DEF g
  <2> QED BY <2>5, <2>6 DEF S
<1> HIDE DEF S
<1>3. n + 1 \in Nat /\ n + 1 \in 1..n + 1 /\ (n + 1) - 1 = n
  OBVIOUS
<1>4. n + 1 \in S
  BY <1>1, <1>2, <1>3, CountingUp
<1> QED BY <1>3, <1>4 DEF S

\* Every backup taken from s or from a member of S is a member of S.
ClosedFrom(s, S) == \A f \in fallbacks : f.from \in S \cup {s} => f.step.source \in S

\* So the chain of s does not leave S.
LEMMA ReachWithin ==
    ASSUME NEW s, NEW S, ClosedFrom(s, S)
    PROVE  Plan!Reach(s) \subseteq S
<1> DEFINE n == Plan!Cardinality(Plan!SourceIds)
           after == CHOOSE f : Reaches(f, s, n)
           K == {k \in Nat : after[k - 1] \subseteq S}
<1>1. n \in Nat
  <2>1. \A T, x : IsFiniteSet(T) => IsFiniteSet(T \cup {x})
    BY FS_AddElement
  <2>2. IsFiniteSet({})
    BY FS_EmptySet
  <2>3. Plan!SourceIds = {} \cup {"policy_official_registry"}
         \cup {"policy_official_web_allowlist_fallback"} \cup {"academic_asta_mcp"}
         \cup {"academic_semantic_scholar"} \cup {"academic_arxiv"} \cup {"industry_ddgs"}
         \cup {"industry_official_or_filings"} \cup {"industry_web_discovery"}
         \cup {"industry_news_rss"}
    BY PlanTable
  <2>4. IsFiniteSet(Plan!SourceIds)
    BY <2>1, <2>2, <2>3, Zenon
  <2>5. Cardinality(Plan!SourceIds) \in Nat
    BY <2>4, FS_CardinalityType
  <2> QED BY <2>5 DEF Cardinality, Plan!Cardinality
<1>2. Plan!Reach(s) = after[n]
  BY DEF Plan!Reach, Reaches, NextOf
<1> HIDE DEF n
<1>3. Reaches(after, s, n)
  BY <1>1, ReachExists
<1> HIDE DEF after
<1>4. \A T : T \subseteq S \cup {s} => NextOf(T) \subseteq S
  BY DEF ClosedFrom, NextOf
<1>5. 1 \in K
  BY <1>1, <1>3, <1>4 DEF Reaches
<1>6. ASSUME NEW k \in 1..(n + 1) - 1, k \in K PROVE k + 1 \in K
  <2>1. k \in 0..n /\ k # 0 /\ (k + 1) - 1 = k /\ k + 1 \in Nat
    BY <1>1, <1>6
  <2>2. after[k] = after[k - 1] \cup NextOf(after[k - 1])
    BY <1>3, <2>1 DEF Reaches
  <2>3. after[k] \subseteq S
    BY <1>4, <1>6, <2>2
  <2> QED BY <2>1, <2>3
<1> HIDE DEF K
<1>7. n + 1 \in Nat /\ n + 1 \in 1..n + 1 /\ (n + 1) - 1 = n
  BY <1>1
<1>8. n + 1 \in K
  BY <1>5, <1>6, <1>7, CountingUp
<1> QED BY <1>2, <1>7, <1>8 DEF K

\* Sources of a list, and of the steps made of it.
AllOf(ids) == {ids[i] : i \in 1..Len(ids)}

\* The lengths of the lists build_retrieval_plan writes out and the sources they hold.
LEMMA SourcesListed ==
    /\ \A a : Len(<<a>>) = 1 /\ AllOf(<<a>>) = {a}
    /\ \A a, b : Len(<<a, b>>) = 2 /\ AllOf(<<a, b>>) = {a, b}
    /\ \A a, b, d : Len(<<a, b, d>>) = 3 /\ AllOf(<<a, b, d>>) = {a, b, d}
<1>1. \A a : Len(<<a>>) = 1 /\ AllOf(<<a>>) = {a}
  BY DEF AllOf
<1>2. \A a, b : Len(<<a, b>>) = 2 /\ AllOf(<<a, b>>) = {a, b}
  <2> TAKE a, b
  <2>1. Len(<<a, b>>) = 2 /\ 1..2 = {1, 2} /\ <<a, b>>[1] = a /\ <<a, b>>[2] = b
    OBVIOUS
  <2> QED BY <2>1 DEF AllOf
<1>3. \A a, b, d : Len(<<a, b, d>>) = 3 /\ AllOf(<<a, b, d>>) = {a, b, d}
  <2> TAKE a, b, d
  <2>1. /\ Len(<<a, b, d>>) = 3 /\ 1..3 = {1, 2, 3}
        /\ <<a, b, d>>[1] = a /\ <<a, b, d>>[2] = b /\ <<a, b, d>>[3] = d
    OBVIOUS
  <2> QED BY <2>1 DEF AllOf
<1> QED BY <1>1, <1>2, <1>3

\* Steps planned for a route.
StepsFor(steps, route) ==
    /\ steps \in Seq(PlacesOf(steps))
    /\ \A x \in PlacesOf(steps) : x.route = route /\ x.source \in Plan!IdsOf(steps)

\* Steps made of a list of sources for a route are of that route and of those sources.
LEMMA StepsMade ==
    ASSUME NEW ids, Len(ids) \in Nat, NEW route, NEW supplemental
    PROVE  /\ StepsFor(Plan!AsSteps(ids, route, supplemental), route)
           /\ Plan!IdsOf(Plan!AsSteps(ids, route, supplemental)) = AllOf(ids)
<1> DEFINE f == Plan!AsSteps(ids, route, supplemental)
<1>1. f = [i \in 1..Len(ids) |-> Plan!Step(ids[i], route, supplemental)]
  BY DEF Plan!AsSteps
<1> HIDE DEF f
<1>2. f = [i \in 1..Len(ids) |-> f[i]]
  BY <1>1
<1>3. f \in Seq(PlacesOf(f)) /\ Len(f) = Len(ids) /\ DOMAIN f = 1..Len(ids)
  BY <1>2, ListMade
<1>4. \A i \in 1..Len(ids) : f[i].source = ids[i] /\ f[i].route = route
  BY <1>1 DEF Plan!Step
<1>5. Plan!IdsOf(f) = AllOf(ids)
  BY <1>3, <1>4 DEF Plan!IdsOf, AllOf
<1>6. \A x \in PlacesOf(f) : x.route = route /\ x.source \in AllOf(ids)
  BY <1>3, <1>4 DEF PlacesOf, AllOf
<1> QED BY <1>3, <1>5, <1>6 DEF f, StepsFor

\* The sources of two lists of steps, one after the other.
LEMMA IdsJoined ==
    ASSUME NEW s, s \in Seq(PlacesOf(s)), NEW t, t \in Seq(PlacesOf(t))
    PROVE  /\ Plan!IdsOf(s \o t) = Plan!IdsOf(s) \cup Plan!IdsOf(t)
           /\ \A i \in 1..Len(s \o t) : (s \o t)[i] \in PlacesOf(s) \cup PlacesOf(t)
<1> DEFINE X == PlacesOf(s) \cup PlacesOf(t)
<1>1. s \in Seq(X) /\ t \in Seq(X)
  BY SeqMonotonic
<1> HIDE DEF X
<1>2. /\ Len(s) \in Nat /\ Len(t) \in Nat /\ Len(s \o t) = Len(s) + Len(t)
      /\ \A i \in 1..Len(s) + Len(t) : (s \o t)[i] = IF i <= Len(s) THEN s[i] ELSE t[i - Len(s)]
      /\ s \o t \in Seq(X)
  BY <1>1, ConcatProperties, LenProperties
<1>3. \A i \in 1..Len(s) : i \in 1..Len(s) + Len(t) /\ (s \o t)[i] = s[i]
  BY <1>2
<1>4. \A i \in 1..Len(t) : Len(s) + i \in 1..Len(s) + Len(t) /\ (s \o t)[Len(s) + i] = t[i]
  BY <1>2
<1>5. \A i \in 1..Len(s) + Len(t) : i \in 1..Len(s) \/ (i - Len(s) \in 1..Len(t)
                                      /\ (s \o t)[i] = t[i - Len(s)])
  BY <1>2
<1>6. \A x \in Plan!IdsOf(s \o t) : x \in Plan!IdsOf(s) \cup Plan!IdsOf(t)
  BY <1>2, <1>3, <1>5 DEF Plan!IdsOf
<1>7. \A x \in Plan!IdsOf(s) : x \in Plan!IdsOf(s \o t)
  BY <1>2, <1>3 DEF Plan!IdsOf
<1>8. \A x \in Plan!IdsOf(t) : x \in Plan!IdsOf(s \o t)
  <2> SUFFICES ASSUME NEW x \in Plan!IdsOf(t) PROVE x \in Plan!IdsOf(s \o t)
    OBVIOUS
  <2>1. PICK i \in 1..Len(t) : x = t[i].source
    BY DEF Plan!IdsOf
  <2>2. Len(s) + i \in 1..Len(s \o t) /\ (s \o t)[Len(s) + i].source = x
    BY <1>2, <1>4, <2>1
  <2> QED BY <2>2 DEF Plan!IdsOf
<1>9. \A i \in 1..Len(s \o t) : (s \o t)[i] \in X
  BY <1>2, ElementOfSeq, LenProperties
<1> QED BY <1>6, <1>7, <1>8, <1>9 DEF X

\* classify_query: a concrete query has no supplement.
LEMMA ConcreteAlone ==
    ASSUME NEW c \in Classifications, c.label = "single"
    PROVE  c.supplement = NoRoute
<1>1. PICK v \in Views : c = Classify(v)
  BY DEF Classifications
<1> DEFINE first == RankFirst(v.scores, Routes)
           second == RankFirst(v.scores, Routes \ {first})
<1>2. \/ c \in {MixOf(first, second), MixOf(first, NoRoute)}
      \/ c \in {Concrete("policy"), MixOf("policy", "industry"), Concrete("industry"),
                ParallelUpdate, Concrete(first)}
  BY <1>1 DEF Classify
<1> HIDE DEF first, second
<1> QED BY <1>2 DEF MixOf, Concrete, ParallelUpdate

OfIndustry == {"industry_official_or_filings", "industry_web_discovery", "industry_news_rss"}

\* _industry_first_wave: one industry source or all of them.
LEMMA IndustryIds ==
    ASSUME NEW q
    PROVE  /\ Len(Plan!IndustryFirstWave(q)) \in Nat
           /\ AllOf(Plan!IndustryFirstWave(q)) \in
                {{"industry_official_or_filings"}, {"industry_web_discovery"}, OfIndustry}
<1> DEFINE ids == Plan!IndustryFirstWave(q)
<1>1. ids \in {<<"industry_official_or_filings">>, <<"industry_web_discovery">>,
               <<"industry_official_or_filings", "industry_web_discovery", "industry_news_rss">>,
               <<"industry_web_discovery", "industry_news_rss", "industry_official_or_filings">>}
  BY DEF Plan!IndustryFirstWave, Plan!DomainFirstWave
<1> HIDE DEF ids
<1>2. SUFFICES /\ Len(ids) \in Nat
               /\ AllOf(ids) \in
                    {{"industry_official_or_filings"}, {"industry_web_discovery"}, OfIndustry}
  BY DEF ids
<1>3. CASE ids = <<"industry_official_or_filings">>
  <2>1. Len(ids) = 1 /\ AllOf(ids) = {"industry_official_or_filings"}
    BY <1>3, SourcesListed
  <2> QED BY <2>1
<1>4. CASE ids = <<"industry_web_discovery">>
  <2>1. Len(ids) = 1 /\ AllOf(ids) = {"industry_web_discovery"}
    BY <1>4, SourcesListed
  <2> QED BY <2>1
<1>5. CASE ids = <<"industry_official_or_filings", "industry_web_discovery", "industry_news_rss">>
  <2>1. Len(ids) = 3 /\ AllOf(ids) = OfIndustry
    BY <1>5, SourcesListed DEF OfIndustry
  <2> QED BY <2>1
<1>6. CASE ids = <<"industry_web_discovery", "industry_news_rss", "industry_official_or_filings">>
  <2>1. /\ Len(ids) = 3
        /\ AllOf(ids) =
             {"industry_web_discovery", "industry_news_rss", "industry_official_or_filings"}
    BY <1>6, SourcesListed
  <2>2. AllOf(ids) = OfIndustry
    BY <2>1 DEF OfIndustry
  <2> QED BY <2>1, <2>2
<1> QED BY <1>1, <1>3, <1>4, <1>5, <1>6

\* The sources of the primary route's part of a first wave.
PrimaryIds(ids, c, q) ==
    /\ Plan!IsAcademicPlan(c) => ids = {Plan!MetadataOrder(q)[1]}
    /\ c.primary = "policy" => ids = {"policy_official_registry"}
    /\ c.primary = "academic" /\ ~ Plan!IsAcademicPlan(c) =>
         ids = {"academic_semantic_scholar", "academic_arxiv"}
    /\ c.primary = "industry" =>
         ids \in {{"industry_official_or_filings"}, {"industry_web_discovery"}, OfIndustry}

\* The steps of the primary route: which sources, all of that route.
LEMMA PrimarySources ==
    ASSUME NEW c \in Classifications, NEW q
    PROVE  /\ StepsFor(Plan!PrimaryFirstWave(c, q), c.primary)
           /\ PrimaryIds(Plan!IdsOf(Plan!PrimaryFirstWave(c, q)), c, q)
<1> DEFINE ids == CASE Plan!IsAcademicPlan(c) -> <<Plan!MetadataOrder(q)[1]>>
                    [] c.primary = "industry" -> Plan!IndustryFirstWave(q)
                    [] OTHER -> Plan!DomainFirstWave[c.primary]
           steps == Plan!PrimaryFirstWave(c, q)
<1>1. steps = Plan!AsSteps(ids, c.primary, FALSE)
  BY DEF Plan!PrimaryFirstWave
<1>2. c.primary \in {"policy", "academic", "industry"}
  BY SidesDiffer DEF Routes
<1>3. Plan!IsAcademicPlan(c) => c.primary = "academic"
  BY DEF Plan!IsAcademicPlan
<1>4. CASE Plan!IsAcademicPlan(c)
  <2>1. ids = <<Plan!MetadataOrder(q)[1]>>
    BY <1>3, <1>4
  <2>2. Len(ids) \in Nat /\ AllOf(ids) = {Plan!MetadataOrder(q)[1]}
    BY <2>1, SourcesListed
  <2>3. Len(ids) \in Nat /\ PrimaryIds(AllOf(ids), c, q)
    BY <1>3, <1>4, <2>2 DEF PrimaryIds
  <2> HIDE DEF ids
  <2> QED BY <1>1, <2>3, StepsMade
<1>5. CASE c.primary = "industry"
  <2>1. ids = Plan!IndustryFirstWave(q)
    BY <1>3, <1>5
  <2>2. Len(ids) \in Nat /\ PrimaryIds(AllOf(ids), c, q)
    BY <1>3, <1>5, <2>1, IndustryIds DEF PrimaryIds
  <2> HIDE DEF ids
  <2> QED BY <1>1, <2>2, StepsMade
<1>6. CASE c.primary = "policy"
  <2>1. ids = <<"policy_official_registry">>
    BY <1>3, <1>6 DEF Plan!DomainFirstWave
  <2>2. Len(ids) \in Nat /\ PrimaryIds(AllOf(ids), c, q)
    BY <1>3, <1>6, <2>1, SourcesListed DEF PrimaryIds
  <2> HIDE DEF ids
  <2> QED BY <1>1, <2>2, StepsMade
<1>7. CASE c.primary = "academic" /\ ~ Plan!IsAcademicPlan(c)
  <2>1. ids = <<"academic_semantic_scholar", "academic_arxiv">>
    BY <1>3, <1>7 DEF Plan!DomainFirstWave
  <2>2. Len(ids) \in Nat /\ PrimaryIds(AllOf(ids), c, q)
    BY <1>3, <1>7, <2>1, SourcesListed DEF PrimaryIds
  <2> HIDE DEF ids
  <2> QED BY <1>1, <2>2, StepsMade
<1> QED BY <1>2, <1>4, <1>5, <1>6, <1>7

\* The sources of the supplement's part.
SupplementalIds(ids, c, q) ==
    /\ c.supplement = NoRoute => ids = {}
    /\ c.supplement = "policy" => ids = {"policy_official_registry"}
    /\ c.supplement = "academic" => ids = {"academic_semantic_scholar"}
    /\ c.supplement = "industry" =>
         ids \in {{"industry_official_or_filings"}, {"industry_web_discovery"},
                  {"industry_news_rss"}, OfIndustry}
    /\ Plan!SwapsIndustry(c, q) => ids \in {{"industry_web_discovery"}, {"industry_news_rss"}}

\* The steps of the supplemental route: which sources, all of that route.
LEMMA SupplementalSources ==
    ASSUME NEW c \in Classifications, NEW q
    PROVE  /\ StepsFor(Plan!SupplementalFirstWave(c, q), c.supplement)
           /\ SupplementalIds(Plan!IdsOf(Plan!SupplementalFirstWave(c, q)), c, q)
<1> DEFINE ids == IF c.supplement = "industry" THEN Plan!SupplementalIndustry(q)
                  ELSE <<Plan!SupplementalStrongest[c.supplement]>>
           steps == Plan!SupplementalFirstWave(c, q)
<1>1. c.supplement # NoRoute => steps = Plan!AsSteps(ids, c.supplement, TRUE)
  BY DEF Plan!SupplementalFirstWave, Plan!NoRoute, NoRoute
<1>2. c.supplement \in {"policy", "academic", "industry", NoRoute} /\ NoRoute = "none"
  BY SidesDiffer DEF Routes, NoRoute
<1>3. Plan!SwapsIndustry(c, q) => c.supplement = "industry"
  BY DEF Plan!SwapsIndustry
<1>4. CASE c.supplement = NoRoute
  <2>1. steps = << >>
    BY <1>4 DEF Plan!SupplementalFirstWave, Plan!NoRoute, NoRoute
  <2> HIDE DEF steps
  <2>2. PlacesOf(steps) = {} /\ Plan!IdsOf(steps) = {} /\ steps \in Seq(PlacesOf(steps))
    BY <2>1 DEF PlacesOf, Plan!IdsOf
  <2>3. SupplementalIds({}, c, q)
    BY <1>2, <1>3, <1>4 DEF SupplementalIds
  <2>4. StepsFor(steps, c.supplement) /\ SupplementalIds(Plan!IdsOf(steps), c, q)
    BY <2>2, <2>3 DEF StepsFor
  <2> QED BY <2>4 DEF steps
<1>5. CASE c.supplement \in {"policy", "academic"}
  <2>1. ids = IF c.supplement = "policy" THEN <<"policy_official_registry">>
              ELSE <<"academic_semantic_scholar">>
    BY <1>5 DEF Plan!SupplementalStrongest
  <2> HIDE DEF ids
  <2>2. Len(ids) \in Nat /\ AllOf(ids) = IF c.supplement = "policy"
                                         THEN {"policy_official_registry"}
                                         ELSE {"academic_semantic_scholar"}
    BY <2>1, SourcesListed
  <2>3. SupplementalIds(AllOf(ids), c, q)
    BY <1>2, <1>3, <1>5, <2>2 DEF SupplementalIds
  <2> HIDE DEF steps
  <2>4. c.supplement # NoRoute
    BY <1>2, <1>5
  <2>5. StepsFor(steps, c.supplement) /\ Plan!IdsOf(steps) = AllOf(ids)
    BY <1>1, <2>2, <2>4, StepsMade
  <2>6. StepsFor(steps, c.supplement) /\ SupplementalIds(Plan!IdsOf(steps), c, q)
    BY <2>3, <2>5
  <2> QED BY <2>6 DEF steps
<1>6. CASE c.supplement = "industry"
  <2>1. ids = Plan!SupplementalIndustry(q)
    BY <1>6
  <2> HIDE DEF ids
  <2>2. \/ ids \in {<<"industry_web_discovery">>, <<"industry_news_rss">>}
        \/ ids = Plan!IndustryFirstWave(q) /\ ~ Plan!SwapsIndustry(c, q)
    BY <2>1 DEF Plan!SupplementalIndustry, Plan!SwapsIndustry
  <2>3. Len(ids) \in Nat /\ SupplementalIds(AllOf(ids), c, q)
    <3>1. CASE ids = <<"industry_web_discovery">>
      <4>1. Len(ids) \in Nat /\ AllOf(ids) = {"industry_web_discovery"}
        BY <3>1, SourcesListed
      <4> QED BY <4>1, <1>2, <1>6 DEF SupplementalIds
    <3>2. CASE ids = <<"industry_news_rss">>
      <4>1. Len(ids) \in Nat /\ AllOf(ids) = {"industry_news_rss"}
        BY <3>2, SourcesListed
      <4> QED BY <4>1, <1>2, <1>6 DEF SupplementalIds
    <3>3. CASE ids = Plan!IndustryFirstWave(q) /\ ~ Plan!SwapsIndustry(c, q)
      BY <3>3, <1>2, <1>6, IndustryIds DEF SupplementalIds
    <3> QED BY <2>2, <3>1, <3>2, <3>3
  <2> QED BY <1>1, <1>2, <1>6, <2>3, StepsMade
<1> QED BY <1>2, <1>4, <1>5, <1>6

\* The sources of a first wave: on which route they are, what a hand-written chain finds
\* there, and which routes have more than one.
WaveShape(ids, c, q) ==
    /\ \A s \in ids : HomeOf(s) \in Routes /\ HomeOf(s) \in {c.primary, c.supplement}
    /\ Plan!IsAcademicPlan(c) => ids = {Plan!MetadataOrder(q)[1]}
    /\ c.supplement = "academic" =>
         \A s \in ids : HomeOf(s) = "academic" => s = "academic_semantic_scholar"
    /\ Plan!SwapsIndustry(c, q) =>
         \/ \A s \in ids : HomeOf(s) = "industry" => s = "industry_web_discovery"
         \/ \A s \in ids : HomeOf(s) = "industry" => s = "industry_news_rss"
    /\ \A s, t \in ids : s # t /\ HomeOf(s) = HomeOf(t) =>
         \/ HomeOf(s) = "industry" /\ OfIndustry \subseteq ids
         \/ {s, t} = {"academic_semantic_scholar", "academic_arxiv"}

\* The first wave as planned: sources at home on the routes of their steps, in its shape.
LEMMA FirstWaveSources ==
    ASSUME NEW c \in Classifications, NEW q
    PROVE  /\ \A i \in 1..Len(Plan!FirstWaveOf(c, q)) : AtHome(Plan!FirstWaveOf(c, q)[i])
           /\ WaveShape(Plan!IdsOf(Plan!FirstWaveOf(c, q)), c, q)
<1> DEFINE p == Plan!PrimaryFirstWave(c, q)
           s == Plan!SupplementalFirstWave(c, q)
           P == Plan!IdsOf(p)
           S == Plan!IdsOf(s)
<1>1. StepsFor(p, c.primary) /\ PrimaryIds(P, c, q)
  BY PrimarySources
<1>2. StepsFor(s, c.supplement) /\ SupplementalIds(S, c, q)
  BY SupplementalSources
<1>3. Plan!FirstWaveOf(c, q) = p \o s
  BY DEF Plan!FirstWaveOf
<1> HIDE DEF p, s
<1>4. /\ Plan!IdsOf(p \o s) = P \cup S
      /\ \A i \in 1..Len(p \o s) : (p \o s)[i] \in PlacesOf(p) \cup PlacesOf(s)
  BY <1>1, <1>2, IdsJoined DEF StepsFor
<1> HIDE DEF P, S
<1>5. /\ c.primary \in {"policy", "academic", "industry"}
      /\ c.supplement \in {"policy", "academic", "industry", NoRoute}
      /\ c.supplement # c.primary /\ NoRoute = "none"
  BY SidesDiffer DEF Routes, NoRoute
<1>6. Plan!IsAcademicPlan(c) => c.primary = "academic" /\ c.supplement = NoRoute
  BY ConcreteAlone DEF Plan!IsAcademicPlan
<1>7. Plan!MetadataOrder(q)[1] \in {"academic_semantic_scholar", "academic_arxiv"}
  BY DEF Plan!MetadataOrder
<1>8. \A x \in P : HomeOf(x) = c.primary
  BY <1>1, <1>5, <1>6, <1>7 DEF PrimaryIds, HomeOf, OfIndustry
<1>9. \A x \in S : HomeOf(x) = c.supplement /\ c.supplement # NoRoute
  BY <1>2, <1>5 DEF SupplementalIds, HomeOf, OfIndustry
<1>10. \A i \in 1..Len(p \o s) : AtHome((p \o s)[i])
  <2>1. \A x \in PlacesOf(p) : AtHome(x)
    BY <1>1, <1>5, <1>8 DEF StepsFor, AtHome, Routes, P
  <2>2. \A x \in PlacesOf(s) : AtHome(x)
    BY <1>2, <1>5, <1>9 DEF StepsFor, AtHome, Routes, S
  <2> QED BY <1>4, <2>1, <2>2
<1>11. \A x \in P \cup S : HomeOf(x) \in Routes /\ HomeOf(x) \in {c.primary, c.supplement}
  BY <1>5, <1>8, <1>9 DEF Routes
<1>12. Plan!IsAcademicPlan(c) => P \cup S = {Plan!MetadataOrder(q)[1]}
  BY <1>1, <1>2, <1>6 DEF PrimaryIds, SupplementalIds
<1>13. c.supplement = "academic" =>
         \A x \in P \cup S : HomeOf(x) = "academic" => x = "academic_semantic_scholar"
  BY <1>2, <1>5, <1>8 DEF SupplementalIds
<1>14. Plan!SwapsIndustry(c, q) =>
         \/ \A x \in P \cup S : HomeOf(x) = "industry" => x = "industry_web_discovery"
         \/ \A x \in P \cup S : HomeOf(x) = "industry" => x = "industry_news_rss"
  BY <1>2, <1>5, <1>8 DEF SupplementalIds, Plan!SwapsIndustry
<1>15. ASSUME NEW x \in P \cup S, NEW y \in P \cup S, x # y, HomeOf(x) = HomeOf(y)
       PROVE  \/ HomeOf(x) = "industry" /\ OfIndustry \subseteq P \cup S
              \/ {x, y} = {"academic_semantic_scholar", "academic_arxiv"}
  <2>1. CASE x \in P /\ y \in P
    <3>1. \/ \E z : P = {z}
          \/ P = {"academic_semantic_scholar", "academic_arxiv"}
          \/ P = OfIndustry
      BY <1>1, <1>5 DEF PrimaryIds
    <3> QED BY <1>15, <2>1, <3>1 DEF HomeOf, OfIndustry
  <2>2. CASE x \in S /\ y \in S
    <3>1. (\E z : S = {z}) \/ S = OfIndustry
      BY <1>2, <1>5, <2>2 DEF SupplementalIds
    <3> QED BY <1>15, <2>2, <3>1 DEF HomeOf, OfIndustry
  <2>3. ~ (x \in P /\ y \in S) /\ ~ (x \in S /\ y \in P)
    BY <1>5, <1>8, <1>9, <1>15
  <2> QED BY <2>1, <2>2, <2>3
<1> QED BY <1>3, <1>4, <1>10, <1>11, <1>12, <1>13, <1>14, <1>15 DEF WaveShape

\* The sources of the first wave, those the walk has taken, and those that wait for it.
Planned == Plan!IdsOf(firstWave)
Seen == {h.step.source : h \in processed}
Waiting == {h.step.source : h \in pending}

\* A step is of the route its source is at home on, and so is what it is a backup for.
StepsAtHome ==
    /\ \A h \in pending \cup processed : AtHome(h.step)
    /\ \A f \in fallbacks : AtHome(f.step) /\ HomeOf(f.from) = f.step.route

\* The table offers it, and the first wave does not call it anyway.
IsEntry(f) ==
    /\ f.on \in Plan!ChainReasons
    /\ f.step.source = Plan!SourceBackupChain[f.from][f.on]
    /\ f.step.source \in Plan!SourceIds \ Planned

\* What the walk has made so far, in whatever order it took the steps: the entries are of
\* sources it has seen, all of them are there, and what two reasons of a source it has seen
\* lead to is seen or waits.
WalkInv ==
    /\ Planned \subseteq Seen \cup Waiting
    /\ \A f \in fallbacks : f.from \in Seen /\ IsEntry(f)
    /\ \A s \in Seen, r \in Plan!ChainReasons :
         Plan!SourceBackupChain[s][r] \in Plan!SourceIds \ Planned =>
            \E f \in fallbacks : f.from = s /\ f.on = r
    /\ \A s \in Seen, t \in Plan!SourceIds \ Planned :
         LedToTwice(s, t) => t \in Seen \cup Waiting

HasNoBackup(s) == \A f \in fallbacks : f.from # s

\* What the finished plan is, apart from its recursion.
BuiltInv ==
    /\ Plan!PlanMatchesTable
    /\ \A s \in Planned : \E S : ClosedFrom(s, S) /\ S \cap Planned = {}
    /\ \A s, t \in Planned :
         s # t /\ HomeOf(s) = HomeOf(t) => HasNoBackup(s) \/ HasNoBackup(t)

\* An academic plan is not walked; of the others the walk keeps its own promises.
PlanInv ==
    /\ class.result \in Classifications
    /\ firstWave = Plan!FirstWaveOf(class.result, class.markers)
    /\ StepsAtHome
    /\ ~ built => IF Plan!IsAcademicPlan(class.result)
                    THEN pending = {} /\ fallbacks = {}
                    ELSE WalkInv
    /\ built => BuiltInv

\* At the start nothing has been walked and all of the first wave waits.
LEMMA PlanInvStarts == PipelineInit => PlanInv
<1> SUFFICES ASSUME PipelineInit PROVE PlanInv
  OBVIOUS
<1>1. PICK c \in Classifications, q \in Plan!Markers :
        /\ class = [result |-> c, markers |-> q]
        /\ firstWave = Plan!FirstWaveOf(c, q)
        /\ pending = IF Plan!IsAcademicPlan(c) THEN {}
                     ELSE {Plan!Queued(Plan!NoRoute, firstWave[i]) : i \in 1..Len(firstWave)}
        /\ processed = {} /\ fallbacks = {} /\ built = FALSE
  BY SameClassifications DEF PipelineInit, Plan!Init
<1>2. class.result = c /\ class.markers = q
  BY <1>1
<1>3. \A i \in 1..Len(firstWave) : AtHome(firstWave[i])
  BY <1>1, FirstWaveSources
<1>4. \A h \in pending : AtHome(h.step)
  BY <1>1, <1>3 DEF Plan!Queued
<1>5. StepsAtHome
  BY <1>1, <1>4 DEF StepsAtHome
<1>6. Seen = {}
  BY <1>1 DEF Seen
<1>7. ASSUME ~ Plan!IsAcademicPlan(c), NEW s \in Planned PROVE s \in Waiting
  <2>1. PICK i \in 1..Len(firstWave) : s = firstWave[i].source
    BY DEF Planned, Plan!IdsOf
  <2>2. Plan!Queued(Plan!NoRoute, firstWave[i]) \in pending
    BY <1>1, <1>7
  <2>3. Plan!Queued(Plan!NoRoute, firstWave[i]).step.source = s
    BY <2>1 DEF Plan!Queued
  <2> QED BY <2>2, <2>3 DEF Waiting
<1>8. ~ Plan!IsAcademicPlan(c) => WalkInv
  BY <1>1, <1>6, <1>7 DEF WalkInv
<1> QED BY <1>1, <1>2, <1>5, <1>8 DEF PlanInv

\* What the walk adds for a head is the table's, on the head's route.
LEMMA EntryIsTables ==
    ASSUME StepsAtHome, NEW head \in pending, NEW f \in Plan!EntriesOf(head)
    PROVE  /\ f.from = head.step.source /\ IsEntry(f)
           /\ AtHome(f.step) /\ HomeOf(f.from) = f.step.route
<1> DEFINE s == head.step.source
<1>1. HomeOf(s) = head.step.route /\ HomeOf(s) \in Routes
  BY DEF StepsAtHome, AtHome
<1>2. PICK t \in Plan!Backups(s) : \E r \in Plan!Triggers(s, t) :
        f = Plan!Transition(s, r, Plan!EntryStep(head, t))
  BY DEF Plan!EntriesOf
<1> PICK r \in Plan!Triggers(s, t) : f = Plan!Transition(s, r, Plan!EntryStep(head, t))
  BY <1>2
<1>3. /\ t \in Plan!SourceIds \ Planned
      /\ r \in Plan!ChainReasons /\ Plan!SourceBackupChain[s][r] = t
  BY DEF Plan!Backups, Plan!Triggers, Planned
<1>4. HomeOf(t) = HomeOf(s)
  BY <1>1, <1>3, BackupAtHome
<1>5. f.from = s /\ f.on = r /\ f.step = Plan!EntryStep(head, t)
  BY DEF Plan!Transition
<1>6. f.step.source = t /\ AtHome(f.step)
  <2>1. CASE Plan!Known(s, t)
    <3>1. \E g \in fallbacks : g.from = s /\ g.step.source = t
      BY <2>1 DEF Plan!Known
    <3>2. PICK g \in fallbacks : g.step.source = t /\ Plan!EntryStep(head, t) = g.step
      BY <2>1, <3>1 DEF Plan!EntryStep
    <3> QED BY <1>5, <3>2 DEF StepsAtHome
  <2>2. CASE ~ Plan!Known(s, t)
    BY <2>2, <1>1, <1>4, <1>5 DEF Plan!EntryStep, Plan!Inherited, Plan!Step, AtHome
  <2> QED BY <2>1, <2>2
<1> QED BY <1>1, <1>3, <1>4, <1>5, <1>6 DEF IsEntry, AtHome

\* What an entry of the worklist leads to stays at home on the route of that entry.
LEMMA FollowedIsEntry ==
    ASSUME StepsAtHome, NEW head \in pending, NEW x \in Plan!FollowedBy(head)
    PROVE  AtHome(x.step)
<1>1. PICK t \in Plan!Backups(head.step.source) :
        x = Plan!Queued(head.step.source, Plan!EntryStep(head, t))
  BY DEF Plan!FollowedBy
<1>2. PICK r \in Plan!Triggers(head.step.source, t) : TRUE
  BY <1>1 DEF Plan!Backups
<1> DEFINE f == Plan!Transition(head.step.source, r, Plan!EntryStep(head, t))
<1>3. f \in Plan!EntriesOf(head)
  BY <1>1, <1>2 DEF Plan!EntriesOf
<1>4. f.step = x.step
  BY <1>1 DEF Plan!Transition, Plan!Queued
<1> HIDE DEF f
<1> QED BY <1>3, <1>4, EntryIsTables

\* An iteration of the worklist.
LEMMA WalkKeepsPlan ==
    ASSUME PlanInv, Plan!WalkHead
    PROVE  PlanInv'
<1>1. UNCHANGED <<class, firstWave, built>> /\ ~ built /\ ~ built'
  BY DEF Plan!WalkHead
<1>2. PICK head \in pending :
        /\ processed' = processed \cup {head}
        /\ fallbacks' = fallbacks \cup Plan!EntriesOf(head)
        /\ pending' = (pending \cup Plan!FollowedBy(head)) \ processed'
  BY DEF Plan!WalkHead, Plan!Remember
<1>3. StepsAtHome /\ ~ Plan!IsAcademicPlan(class.result) /\ WalkInv
  BY <1>1, <1>2 DEF PlanInv
<1> DEFINE s == head.step.source
<1>4. StepsAtHome'
  <2>1. ASSUME NEW h \in pending' \cup processed' PROVE AtHome(h.step)
    <3>1. h \in pending \/ h \in processed \/ h \in Plan!FollowedBy(head)
      BY <1>2
    <3> QED BY <1>3, <3>1, FollowedIsEntry DEF StepsAtHome
  <2>2. ASSUME NEW f \in fallbacks' PROVE AtHome(f.step) /\ HomeOf(f.from) = f.step.route
    BY <1>2, <1>3, <2>2, EntryIsTables DEF StepsAtHome
  <2> QED BY <2>1, <2>2 DEF StepsAtHome
<1>5. Planned' = Planned
  BY <1>1 DEF Planned, Plan!IdsOf
<1>6. Seen' = Seen \cup {s}
  BY <1>2 DEF Seen
<1>7. Seen \cup Waiting \subseteq Seen' \cup Waiting'
  <2>1. ASSUME NEW h \in pending PROVE h \in pending' \cup processed'
    BY <1>2
  <2>2. ASSUME NEW x \in Waiting PROVE x \in Seen' \cup Waiting'
    <3>1. PICK h \in pending : x = h.step.source
      BY DEF Waiting
    <3> QED BY <2>1, <3>1 DEF Seen, Waiting
  <2> QED BY <1>6, <2>2
<1>8. \A f : IsEntry(f)' <=> IsEntry(f)
  BY <1>5 DEF IsEntry
<1>9. ASSUME NEW f \in fallbacks' PROVE f.from \in Seen' /\ IsEntry(f)'
  <2>1. CASE f \in fallbacks
    BY <1>3, <1>6, <1>8, <2>1 DEF WalkInv
  <2>2. CASE f \in Plan!EntriesOf(head)
    BY <1>3, <1>6, <1>8, <2>2, EntryIsTables
  <2> QED BY <1>2, <2>1, <2>2
<1>10. ASSUME NEW t \in Seen', NEW r \in Plan!ChainReasons,
              Plan!SourceBackupChain[t][r] \in Plan!SourceIds \ Planned
       PROVE  \E f \in fallbacks' : f.from = t /\ f.on = r
  <2>1. CASE t \in Seen
    BY <1>2, <1>3, <1>10, <2>1 DEF WalkInv
  <2>2. CASE t = s
    <3> DEFINE u == Plan!SourceBackupChain[s][r]
               f == Plan!Transition(s, r, Plan!EntryStep(head, u))
    <3>1. r \in Plan!Triggers(s, u) /\ u \in Plan!Backups(s)
      BY <1>10, <2>2 DEF Plan!Triggers, Plan!Backups, Planned
    <3>2. f \in Plan!EntriesOf(head)
      BY <3>1 DEF Plan!EntriesOf
    <3>3. f.from = s /\ f.on = r
      BY DEF Plan!Transition
    <3> HIDE DEF f
    <3> QED BY <1>2, <2>2, <3>2, <3>3
  <2> QED BY <1>6, <2>1, <2>2
<1>11. ASSUME NEW t \in Seen', NEW u \in Plan!SourceIds \ Planned, LedToTwice(t, u)
       PROVE  u \in Seen' \cup Waiting'
  <2>1. CASE t \in Seen
    BY <1>3, <1>7, <1>11, <2>1 DEF WalkInv
  <2>2. CASE t = s
    <3> DEFINE x == Plan!Queued(s, Plan!EntryStep(head, u))
    <3>1. Plan!Follows(s, u, Plan!Known(s, u))
      BY <1>11, <2>2, TwiceIsFollowed DEF Plan!Known
    <3>2. PICK r \in Plan!ChainReasons : Plan!SourceBackupChain[s][r] = u
      BY <1>11, <2>2 DEF LedToTwice
    <3>3. r \in Plan!Triggers(s, u) /\ u \in Plan!Backups(s)
      BY <3>2, <1>11 DEF Plan!Triggers, Plan!Backups, Planned
    <3>4. x \in Plan!FollowedBy(head)
      BY <3>1, <3>3 DEF Plan!FollowedBy
    <3> DEFINE f == Plan!Transition(s, r, Plan!EntryStep(head, u))
    <3>5. f \in Plan!EntriesOf(head)
      BY <3>3 DEF Plan!EntriesOf
    <3>6. f.on = r /\ f.step = x.step
      BY DEF Plan!Transition, Plan!Queued
    <3> HIDE DEF f, x
    <3>7. x.step.source = u
      BY <1>3, <3>2, <3>5, <3>6, EntryIsTables DEF IsEntry
    <3>8. x \in pending' \/ x \in processed'
      BY <1>2, <3>4
    <3> QED BY <3>7, <3>8 DEF Seen, Waiting
  <2> QED BY <1>6, <2>1, <2>2
<1>12. (Planned \subseteq Seen \cup Waiting)'
  BY <1>3, <1>5, <1>7 DEF WalkInv
<1>13. WalkInv'
  BY <1>5, <1>9, <1>10, <1>11, <1>12 DEF WalkInv
<1> QED BY <1>1, <1>3, <1>4, <1>13 DEF PlanInv, Plan!FirstWaveOf, Plan!IsAcademicPlan

\* The links of a chain of three, written out by hand.
LEMMA ThreeLinks ==
    ASSUME NEW a, NEW b, NEW d, NEW route, NEW supplemental
    PROVE  Plan!LinksOf(<<a, b, d>>, route, supplemental) =
             {Plan!Transition(a, r, Plan!Step(b, route, supplemental)) : r \in Plan!ChainReasons}
             \cup
             {Plan!Transition(b, r, Plan!Step(d, route, supplemental)) : r \in Plan!ChainReasons}
<1> DEFINE chain == <<a, b, d>>
           link(i) == {Plan!Transition(chain[i], r, Plan!Step(chain[i + 1], route, supplemental)) :
                         r \in Plan!ChainReasons}
<1>1. 1..Len(chain) - 1 = {1, 2} /\ 1 + 1 = 2 /\ 2 + 1 = 3
  OBVIOUS
<1>2. chain[1] = a /\ chain[2] = b /\ chain[3] = d
  OBVIOUS
<1>3. Plan!LinksOf(chain, route, supplemental) = UNION {link(i) : i \in 1..Len(chain) - 1}
  BY DEF Plan!LinksOf
<1> HIDE DEF chain
<1>4. UNION {link(i) : i \in {1, 2}} = link(1) \cup link(2)
  <2> HIDE DEF link
  <2> QED OBVIOUS
<1>5. Plan!LinksOf(chain, route, supplemental) = link(1) \cup link(2)
  BY <1>1, <1>3, <1>4
<1> QED BY <1>1, <1>2, <1>5 DEF chain

\* The transitions in T give s for the failure r the backup it should have.
MatchesAt(T, c, q, s, r) ==
    {f.step.source : f \in {g \in T : g.from = s /\ g.on = r}} =
        {Plan!BackupOf(c, q, s, r)} \ {Plan!NoBackup}

\* Three sources with a chain of their own, and no entry but its links.
LEMMA HandMatches ==
    ASSUME NEW c, NEW q, NEW a, NEW b, NEW d, a # b, a # d, b # d,
           Plan!NoBackup \notin {a, b, d}, Plan!HandChain(c, q) = <<a, b, d>>,
           NEW K, \A f \in K : f.from \notin {a, b, d}, NEW route, NEW supplemental,
           NEW s \in {a, b, d}, NEW r \in Plan!ChainReasons
    PROVE  MatchesAt(K \cup Plan!LinksOf(<<a, b, d>>, route, supplemental), c, q, s, r)
<1> DEFINE T == K \cup Plan!LinksOf(<<a, b, d>>, route, supplemental)
           t == IF s = a THEN b ELSE IF s = b THEN d ELSE Plan!NoBackup
           chain == <<a, b, d>>
<1>1. /\ 1..Len(chain) = {1, 2, 3} /\ Len(chain) = 3
      /\ chain[1] = a /\ chain[2] = b /\ chain[3] = d /\ 1 + 1 = 2 /\ 2 + 1 = 3
  OBVIOUS
<1> HIDE DEF chain
<1>2. Plan!InChain(s, chain)
  BY <1>1 DEF Plan!InChain
<1>3. Plan!NextInChain(s, chain) = t
  <2> DEFINE i == CHOOSE k \in 1..Len(chain) : chain[k] = s
  <2>1. i \in {1, 2, 3} /\ chain[i] = s
    BY <1>1
  <2>2. Plan!NextInChain(s, chain) = IF i < Len(chain) THEN chain[i + 1] ELSE Plan!NoBackup
    BY DEF Plan!NextInChain
  <2> HIDE DEF i
  <2> QED BY <1>1, <2>1, <2>2
<1>4. Plan!BackupOf(c, q, s, r) = t
  BY <1>2, <1>3 DEF Plan!BackupOf, chain
<1>5. ASSUME NEW f \in T, f.from = s PROVE f.step.source = t /\ t # Plan!NoBackup
  <2>1. \E u : \/ f = Plan!Transition(a, u, Plan!Step(b, route, supplemental))
               \/ f = Plan!Transition(b, u, Plan!Step(d, route, supplemental))
    BY <1>5, ThreeLinks
  <2> QED BY <1>5, <2>1 DEF Plan!Transition, Plan!Step
<1>6. ASSUME t # Plan!NoBackup
      PROVE  \E f \in T : f.from = s /\ f.on = r /\ f.step.source = t
  <2> DEFINE f == Plan!Transition(s, r, Plan!Step(t, route, supplemental))
  <2>1. f \in T
    BY <1>6, ThreeLinks
  <2>2. f.from = s /\ f.on = r /\ f.step.source = t
    BY DEF Plan!Transition, Plan!Step
  <2> HIDE DEF f
  <2> QED BY <2>1, <2>2
<1> HIDE DEF T, t
<1>7. MatchesAt(T, c, q, s, r)
  BY <1>4, <1>5, <1>6 DEF MatchesAt
<1> QED BY <1>7 DEF T

\* A source without one, all its entries and no other.
LEMMA TableMatches ==
    ASSUME NEW c, NEW q, NEW s, NEW r \in Plan!ChainReasons, HomeOf(s) \in Routes,
           ~ Plan!InChain(s, Plan!HandChain(c, q)), NEW ids,
           ids = Plan!IdsOf(Plan!FirstWaveOf(c, q)), NEW T,
           \A f \in T : f.from = s => /\ f.step.source = Plan!SourceBackupChain[s][f.on]
                                      /\ f.step.source \in Plan!SourceIds \ ids,
           Plan!SourceBackupChain[s][r] \in Plan!SourceIds \ ids =>
              \E f \in T : f.from = s /\ f.on = r
    PROVE  MatchesAt(T, c, q, s, r)
<1> DEFINE t == Plan!SourceBackupChain[s][r]
<1>1. t \in Plan!SourceIds \/ t = Plan!NoBackup
  BY PlanTable DEF HomeOf, Routes
<1>2. Plan!NoBackup \notin Plan!SourceIds
  BY PlanTable
<1>3. Plan!BackupOf(c, q, s, r) = IF t \in ids THEN Plan!NoBackup ELSE t
  BY DEF Plan!BackupOf
<1> QED BY <1>1, <1>2, <1>3 DEF MatchesAt

\* _build_academic_fallback_steps, the academic supplement's chain and the industry
\* supplement's.
LEMMA HandChains ==
    ASSUME NEW c, NEW q
    PROVE  /\ Plan!IsAcademicPlan(c) =>
                \/ /\ Plan!MetadataOrder(q)[1] = "academic_semantic_scholar"
                   /\ Plan!HandChain(c, q) = <<"academic_semantic_scholar", "academic_arxiv",
                                               "academic_asta_mcp">>
                \/ /\ Plan!MetadataOrder(q)[1] = "academic_arxiv"
                   /\ Plan!HandChain(c, q) = <<"academic_arxiv", "academic_semantic_scholar",
                                               "academic_asta_mcp">>
           /\ ~ Plan!IsAcademicPlan(c) =>
                \/ /\ c.supplement = "academic"
                   /\ Plan!HandChain(c, q) = <<"academic_semantic_scholar", "academic_arxiv",
                                               "academic_asta_mcp">>
                \/ /\ Plan!SwapsIndustry(c, q) /\ c.supplement = "industry"
                   /\ Plan!HandChain(c, q) = <<"industry_news_rss", "industry_web_discovery",
                                               "industry_official_or_filings">>
                \/ Plan!HandChain(c, q) = << >>
<1>1. ASSUME Plan!IsAcademicPlan(c)
      PROVE  \/ /\ Plan!MetadataOrder(q)[1] = "academic_semantic_scholar"
                /\ Plan!HandChain(c, q) = <<"academic_semantic_scholar", "academic_arxiv",
                                            "academic_asta_mcp">>
             \/ /\ Plan!MetadataOrder(q)[1] = "academic_arxiv"
                /\ Plan!HandChain(c, q) = <<"academic_arxiv", "academic_semantic_scholar",
                                            "academic_asta_mcp">>
  <2>1. Plan!HandChain(c, q) = Plan!MetadataOrder(q) \o <<"academic_asta_mcp">>
    BY <1>1 DEF Plan!HandChain
  <2>2. \A a, b, d : <<a, b>> \o <<d>> = <<a, b, d>>
    <3> TAKE a, b, d
    <3> DEFINE X == {a, b, d}
               s == <<a, b>>
               t == <<d>>
               u == <<a, b, d>>
    <3>1. s \in Seq(X) /\ t \in Seq(X) /\ u \in Seq(X)
      OBVIOUS
    <3>2. /\ Len(s) = 2 /\ s[1] = a /\ s[2] = b
          /\ Len(t) = 1 /\ t[1] = d
          /\ Len(u) = 3 /\ u[1] = a /\ u[2] = b /\ u[3] = d
      OBVIOUS
    <3> HIDE DEF X, s, t, u
    <3>3. /\ s \o t \in Seq(X) /\ Len(s \o t) = Len(s) + Len(t)
          /\ \A i \in 1..Len(s) + Len(t) :
               (s \o t)[i] = IF i <= Len(s) THEN s[i] ELSE t[i - Len(s)]
      BY <3>1, ConcatProperties
    <3>4. Len(s \o t) = Len(u) /\ \A i \in 1..Len(s \o t) : (s \o t)[i] = u[i]
      BY <3>2, <3>3
    <3>5. s \o t = u
      BY <3>1, <3>3, <3>4, SeqEqual
    <3> QED BY <3>5 DEF s, t, u
  <2>3. CASE Plan!MetadataOrder(q) = <<"academic_arxiv", "academic_semantic_scholar">>
    BY <2>1, <2>2, <2>3
  <2>4. CASE Plan!MetadataOrder(q) = <<"academic_semantic_scholar", "academic_arxiv">>
    BY <2>1, <2>2, <2>4
  <2> QED BY <2>3, <2>4 DEF Plan!MetadataOrder
<1>2. ASSUME ~ Plan!IsAcademicPlan(c)
      PROVE  \/ /\ c.supplement = "academic"
                /\ Plan!HandChain(c, q) = <<"academic_semantic_scholar", "academic_arxiv",
                                            "academic_asta_mcp">>
             \/ /\ Plan!SwapsIndustry(c, q) /\ c.supplement = "industry"
                /\ Plan!HandChain(c, q) = <<"industry_news_rss", "industry_web_discovery",
                                            "industry_official_or_filings">>
             \/ Plan!HandChain(c, q) = << >>
  BY <1>2 DEF Plan!HandChain, Plan!SwapsIndustry
<1> QED BY <1>1, <1>2

\* The entries are all those the table has for the sources in D, and lead into D.
Settled(D) ==
    /\ \A f \in fallbacks : IsEntry(f) /\ f.step.source \in D
    /\ \A s \in D : HomeOf(s) \in Routes
    /\ \A s \in D, r \in Plan!ChainReasons :
         Plan!SourceBackupChain[s][r] \in Plan!SourceIds \ Planned =>
            \E f \in fallbacks : f.from = s /\ f.on = r

\* When nothing is pending, the walk has seen every source the engine can come to.
LEMMA WalkSettles ==
    ASSUME StepsAtHome, WalkInv, pending = {}
    PROVE  Settled(Seen) /\ Planned \subseteq Seen
<1>1. Waiting = {} /\ Planned \subseteq Seen
  BY DEF Waiting, WalkInv
<1>2. \A s \in Seen : HomeOf(s) \in Routes
  BY DEF StepsAtHome, AtHome, Seen
<1>3. \A s \in Seen, t \in Plan!SourceIds : LedToTwice(s, t) => t \in Seen
  BY <1>1 DEF WalkInv
<1>4. \A s \in Seen, r \in Plan!ChainReasons :
        Plan!SourceBackupChain[s][r] \in Plan!SourceIds => Plan!SourceBackupChain[s][r] \in Seen
  <2> HIDE DEF Seen
  <2> QED BY <1>2, <1>3, TwiceClosed
<1>5. ASSUME NEW f \in fallbacks PROVE IsEntry(f) /\ f.step.source \in Seen
  <2>1. f.from \in Seen /\ IsEntry(f)
    BY DEF WalkInv
  <2> QED BY <1>4, <2>1 DEF IsEntry
<1>6. \A s \in Seen, r \in Plan!ChainReasons :
         Plan!SourceBackupChain[s][r] \in Plan!SourceIds \ Planned =>
            \E f \in fallbacks : f.from = s /\ f.on = r
  BY DEF WalkInv
<1> QED BY <1>1, <1>2, <1>5, <1>6 DEF Settled

\* The source has no backup that is not in the first wave.
LEMMA NoBackupLeft ==
    ASSUME NEW ids, NEW s, NEW t, HomeOf(s) \in Routes,
           \/ HomeOf(s) = "industry" /\ OfIndustry \subseteq ids
           \/ {s, t} = {"academic_semantic_scholar", "academic_arxiv"}
    PROVE  \E x \in {s, t} : \A r \in Plan!ChainReasons :
              Plan!SourceBackupChain[x][r] \notin Plan!SourceIds \ ids
BY PlanTable DEF HomeOf, Routes, OfIndustry

\* A plan that is the walk's.
LEMMA WalkedPlan ==
    ASSUME class.result \in Classifications,
           firstWave = Plan!FirstWaveOf(class.result, class.markers), StepsAtHome,
           Plan!HandChain(class.result, class.markers) = << >>,
           NEW D, Settled(D), Planned \subseteq D,
           UNCHANGED <<class, firstWave, fallbacks>>
    PROVE  BuiltInv'
<1> DEFINE c == class.result
           q == class.markers
<1>1. WaveShape(Planned, c, q)
  BY FirstWaveSources DEF Planned
<1>2. /\ Planned' = Planned /\ fallbacks' = fallbacks /\ class' = class
      /\ Plan!IdsOf(firstWave)' = Planned
  BY DEF Planned, Plan!IdsOf
<1>3. ~ \E x : Plan!InChain(x, Plan!HandChain(c, q))
  BY DEF Plan!InChain
<1>4. ASSUME NEW s \in Planned \cup {f.step.source : f \in fallbacks},
             NEW r \in Plan!ChainReasons
      PROVE  MatchesAt(fallbacks, c, q, s, r)
  <2>1. s \in D
    BY <1>4 DEF Settled
  <2>2. HomeOf(s) \in Routes
    BY <2>1 DEF Settled
  <2>3. \A f \in fallbacks : f.from = s => /\ f.step.source = Plan!SourceBackupChain[s][f.on]
                                           /\ f.step.source \in Plan!SourceIds \ Planned
    BY DEF Settled, IsEntry
  <2>4. Plan!SourceBackupChain[s][r] \in Plan!SourceIds \ Planned =>
          \E f \in fallbacks : f.from = s /\ f.on = r
    BY <2>1 DEF Settled
  <2>5. Planned = Plan!IdsOf(Plan!FirstWaveOf(c, q))
    BY DEF Planned
  <2>6. ~ Plan!InChain(s, Plan!HandChain(c, q))
    BY <1>3
  <2> HIDE DEF c, q
  <2> QED BY <2>2, <2>3, <2>4, <2>5, <2>6, TableMatches
<1>5. Plan!PlanMatchesTable'
  BY <1>2, <1>4 DEF Plan!PlanMatchesTable, MatchesAt, Plan!Entries
<1>6. ASSUME NEW s \in Planned PROVE \E S : ClosedFrom(s, S)' /\ S \cap Planned = {}
  <2>1. PICK S : S = Plan!SourceIds \ Planned
    OBVIOUS
  <2>2. ClosedFrom(s, S)'
    BY <1>2, <2>1 DEF ClosedFrom, Settled, IsEntry
  <2>3. S \cap Planned = {}
    BY <2>1
  <2> QED BY <2>2, <2>3
<1>7. ASSUME NEW s \in Planned, NEW t \in Planned, s # t, HomeOf(s) = HomeOf(t)
      PROVE  HasNoBackup(s)' \/ HasNoBackup(t)'
  <2>1. /\ HomeOf(s) \in Routes
        /\ \/ HomeOf(s) = "industry" /\ OfIndustry \subseteq Planned
           \/ {s, t} = {"academic_semantic_scholar", "academic_arxiv"}
    BY <1>1, <1>7 DEF WaveShape
  <2>2. PICK x \in {s, t} : \A r \in Plan!ChainReasons :
              Plan!SourceBackupChain[x][r] \notin Plan!SourceIds \ Planned
    BY <2>1, NoBackupLeft
  <2>3. HasNoBackup(x)'
    BY <1>2, <2>2 DEF HasNoBackup, Settled, IsEntry
  <2> QED BY <2>2, <2>3
<1> QED BY <1>2, <1>5, <1>6, <1>7 DEF BuiltInv

\* A plan in which one route has a chain written out by hand.
LEMMA HandPlan ==
    ASSUME class.result \in Classifications,
           firstWave = Plan!FirstWaveOf(class.result, class.markers), StepsAtHome,
           NEW a, NEW b, NEW d, a # b, a # d, b # d,
           Plan!HandChain(class.result, class.markers) = <<a, b, d>>,
           NEW home \in Routes, HomeOf(a) = home, HomeOf(b) = home, HomeOf(d) = home,
           NEW D, Settled(D), \A s \in Planned : HomeOf(s) # home => s \in D,
           \/ \A s \in Planned : HomeOf(s) = home => s = a
           \/ \A s \in Planned : HomeOf(s) = home => s = b,
           NEW supplemental, UNCHANGED <<class, firstWave>>,
           fallbacks' = {f \in fallbacks : f.step.route # home}
                          \cup Plan!LinksOf(<<a, b, d>>, home, supplemental)
    PROVE  /\ BuiltInv'
           /\ \A f \in fallbacks' : AtHome(f.step) /\ HomeOf(f.from) = f.step.route
<1> DEFINE c == class.result
           q == class.markers
<1>1. WaveShape(Planned, c, q)
  BY FirstWaveSources DEF Planned
<1>2. /\ Planned' = Planned /\ class' = class
      /\ Plan!IdsOf(firstWave)' = Planned
  BY DEF Planned, Plan!IdsOf
<1>3. PICK K : K = {f \in fallbacks : f.step.route # home}
  OBVIOUS
<1>4. PICK L : L = Plan!LinksOf(<<a, b, d>>, home, supplemental)
  OBVIOUS
<1>5. PICK T : T = K \cup L /\ T = fallbacks'
  BY <1>3, <1>4
<1>6. ASSUME NEW f \in K
      PROVE  /\ f \in fallbacks /\ IsEntry(f) /\ AtHome(f.step)
             /\ f.from \notin {a, b, d} /\ HomeOf(f.from) = f.step.route
             /\ HomeOf(f.from) # home /\ HomeOf(f.step.source) = HomeOf(f.from)
  BY <1>3, <1>6 DEF StepsAtHome, Settled, AtHome
<1>7. ASSUME NEW f \in L
      PROVE  /\ AtHome(f.step) /\ f.step.route = home /\ HomeOf(f.from) = home
             /\ (f.from = a /\ f.step.source = b) \/ (f.from = b /\ f.step.source = d)
  <2>1. \E r : \/ f = Plan!Transition(a, r, Plan!Step(b, home, supplemental))
               \/ f = Plan!Transition(b, r, Plan!Step(d, home, supplemental))
    BY <1>4, <1>7, ThreeLinks
  <2> QED BY <2>1 DEF Plan!Transition, Plan!Step, AtHome
<1>8. ASSUME NEW s \in Planned \cup {f.step.source : f \in T}, NEW r \in Plan!ChainReasons
      PROVE  MatchesAt(T, c, q, s, r)
  <2>1. s \in Planned \/ (\E f \in K : s = f.step.source) \/ (\E f \in L : s = f.step.source)
    BY <1>5, <1>8
  <2>2. CASE HomeOf(s) = home
    <3>1. s \in {a, b, d}
      BY <1>6, <1>7, <2>1, <2>2
    <3>2. Plan!NoBackup \notin {a, b, d}
      BY PlanTable DEF HomeOf, Routes
    <3>3. \A f \in K : f.from \notin {a, b, d}
      BY <1>6
    <3>4. Plan!HandChain(c, q) = <<a, b, d>>
      OBVIOUS
    <3> HIDE DEF c, q
    <3>5. MatchesAt(K \cup Plan!LinksOf(<<a, b, d>>, home, supplemental), c, q, s, r)
      BY <3>1, <3>2, <3>3, <3>4, HandMatches
    <3> QED BY <1>4, <1>5, <3>5
  <2>3. CASE HomeOf(s) # home
    <3>1. s \in D
      BY <1>6, <1>7, <2>1, <2>3 DEF Settled, AtHome
    <3>2. HomeOf(s) \in Routes
      BY <3>1 DEF Settled
    <3>3. \A f \in T : f.from = s => /\ f.step.source = Plan!SourceBackupChain[s][f.on]
                                     /\ f.step.source \in Plan!SourceIds \ Planned
      BY <1>5, <1>6, <1>7, <2>3 DEF IsEntry
    <3>4. ASSUME Plan!SourceBackupChain[s][r] \in Plan!SourceIds \ Planned
          PROVE  \E f \in T : f.from = s /\ f.on = r
      <4>1. PICK f \in fallbacks : f.from = s /\ f.on = r
        BY <3>1, <3>4 DEF Settled
      <4>2. f.step.route # home
        BY <2>3, <4>1 DEF StepsAtHome
      <4> QED BY <1>3, <1>5, <4>1, <4>2
    <3>5. Planned = Plan!IdsOf(Plan!FirstWaveOf(c, q))
      BY DEF Planned
    <3>6. ~ Plan!InChain(s, Plan!HandChain(c, q))
      <4>1. \A i \in 1..Len(<<a, b, d>>) : <<a, b, d>>[i] \in {a, b, d}
        OBVIOUS
      <4> QED BY <2>3, <4>1 DEF Plan!InChain
    <3> HIDE DEF c, q
    <3> QED BY <3>2, <3>3, <3>4, <3>5, <3>6, TableMatches
  <2> QED BY <2>2, <2>3
<1>9. Plan!PlanMatchesTable'
  BY <1>2, <1>5, <1>8 DEF Plan!PlanMatchesTable, MatchesAt, Plan!Entries
<1>10. ASSUME NEW s \in Planned PROVE \E S : ClosedFrom(s, S)' /\ S \cap Planned = {}
  <2>1. CASE HomeOf(s) # home
    <3>1. PICK S : S = {x \in Plan!SourceIds \ Planned : HomeOf(x) # home}
      OBVIOUS
    <3>2. ASSUME NEW f \in T, f.from \in S \cup {s} PROVE f.step.source \in S
      <4>1. f \in K
        BY <1>5, <1>7, <2>1, <3>1, <3>2
      <4> QED BY <1>6, <3>1, <4>1 DEF IsEntry
    <3>3. ClosedFrom(s, S)'
      BY <1>5, <3>2 DEF ClosedFrom
    <3> QED BY <3>1, <3>3
  <2>2. CASE HomeOf(s) = home
    <3>1. PICK S : S = IF s = a THEN {b, d} ELSE {d}
      OBVIOUS
    <3>2. S \cap Planned = {}
      BY <2>2, <3>1
    <3>3. ASSUME NEW f \in T, f.from \in S \cup {s} PROVE f.step.source \in S
      <4>1. f \in L
        BY <1>5, <1>6, <2>2, <3>1, <3>3
      <4> QED BY <1>7, <2>2, <3>1, <3>3, <4>1
    <3>4. ClosedFrom(s, S)'
      BY <1>5, <3>3 DEF ClosedFrom
    <3> QED BY <3>2, <3>4
  <2> QED BY <2>1, <2>2
<1>11. ASSUME NEW s \in Planned, NEW t \in Planned, s # t, HomeOf(s) = HomeOf(t)
       PROVE  HasNoBackup(s)' \/ HasNoBackup(t)'
  <2>1. /\ HomeOf(s) \in Routes
        /\ \/ HomeOf(s) = "industry" /\ OfIndustry \subseteq Planned
           \/ {s, t} = {"academic_semantic_scholar", "academic_arxiv"}
    BY <1>1, <1>11 DEF WaveShape
  <2>2. PICK x \in {s, t} : \A r \in Plan!ChainReasons :
              Plan!SourceBackupChain[x][r] \notin Plan!SourceIds \ Planned
    BY <2>1, NoBackupLeft
  <2>3. HomeOf(x) # home
    BY <1>11
  <2>4. HasNoBackup(x)'
    BY <1>5, <1>6, <1>7, <2>2, <2>3 DEF HasNoBackup, IsEntry
  <2> QED BY <2>2, <2>4
<1>12. BuiltInv'
  BY <1>2, <1>9, <1>10, <1>11 DEF BuiltInv
<1> QED BY <1>5, <1>6, <1>7, <1>12

\* build_retrieval_plan returns: the walk is over, and chains by hand replace parts of it.
LEMMA FinishKeepsPlan ==
    ASSUME PlanInv, SidesInv, Plan!Finish
    PROVE  PlanInv'
<1> DEFINE c == class.result
           q == class.markers
           chain == Plan!HandChain(c, q)
<1>1. /\ UNCHANGED <<class, firstWave, pending, processed>> /\ ~ built /\ built' = TRUE
      /\ pending = {} /\ c \in Classifications /\ StepsAtHome
      /\ firstWave = Plan!FirstWaveOf(c, q)
  BY DEF Plan!Finish, PlanInv
<1>2. fallbacks' = IF Plan!IsAcademicPlan(c) THEN Plan!LinksOf(chain, "academic", FALSE)
                   ELSE IF chain = << >> THEN fallbacks
                   ELSE Plan!Replaced(c.supplement, chain)
  BY DEF Plan!Finish
<1>3. WaveShape(Planned, c, q)
  BY <1>1, FirstWaveSources DEF Planned
<1>4. {"policy", "academic", "industry"} = Routes
  BY DEF Routes
<1>5. ASSUME ~ Plan!IsAcademicPlan(c), c.supplement \in Routes
      PROVE  {f \in fallbacks : ~ (f.step.route = c.supplement /\ f.step.supplemental)} =
                {f \in fallbacks : f.step.route # c.supplement}
  <2>1. c.supplement # c.primary
    BY <1>1, SidesDiffer
  <2>2. \A f \in fallbacks : f.step.route = c.supplement => f.step.supplemental
    BY <2>1 DEF SidesInv, OnSide
  <2> QED BY <2>2
<1>6. BuiltInv' /\ \A f \in fallbacks' : AtHome(f.step) /\ HomeOf(f.from) = f.step.route
  <2>1. CASE Plan!IsAcademicPlan(c)
    <3>1. fallbacks = {}
      BY <1>1, <2>1 DEF PlanInv
    <3>2. Settled({})
      BY <3>1 DEF Settled
    <3>3. PICK a, b \in {"academic_semantic_scholar", "academic_arxiv"} :
             a # b /\ Plan!MetadataOrder(q)[1] = a /\ chain = <<a, b, "academic_asta_mcp">>
      BY <2>1, HandChains
    <3>4. /\ HomeOf(a) = "academic" /\ HomeOf(b) = "academic"
          /\ HomeOf("academic_asta_mcp") = "academic"
          /\ a # "academic_asta_mcp" /\ b # "academic_asta_mcp"
      BY <3>3 DEF HomeOf
    <3>5. \A s \in Planned : s = a
      BY <1>3, <2>1, <3>3 DEF WaveShape
    <3>6. fallbacks' = {f \in fallbacks : f.step.route # "academic"}
                         \cup Plan!LinksOf(<<a, b, "academic_asta_mcp">>, "academic", FALSE)
      BY <1>2, <2>1, <3>1, <3>3
    <3>7. UNCHANGED <<class, firstWave>> /\ "academic" \in Routes
      BY <1>1, <1>4
    <3>8. \A s \in Planned : HomeOf(s) # "academic" => s \in {}
      BY <3>4, <3>5
    <3> QED BY <1>1, <3>2, <3>3, <3>4, <3>5, <3>6, <3>7, <3>8, HandPlan
  <2>2. CASE ~ Plan!IsAcademicPlan(c)
    <3>1. Settled(Seen) /\ Planned \subseteq Seen
      BY <1>1, <2>2, WalkSettles DEF PlanInv
    <3>2. PICK D : D = Seen
      OBVIOUS
    <3>3. Settled(D) /\ \A s \in Planned : s \in D
      BY <3>1, <3>2
    <3>4. CASE chain = << >>
      <4>1. UNCHANGED <<class, firstWave, fallbacks>>
        BY <1>1, <1>2, <2>2, <3>4
      <4>2. BuiltInv'
        BY <1>1, <3>3, <3>4, <4>1, WalkedPlan
      <4> QED BY <1>1, <4>1, <4>2 DEF StepsAtHome
    <3>5. CASE c.supplement = "academic" /\ chain = <<"academic_semantic_scholar",
                                         "academic_arxiv", "academic_asta_mcp">>
      <4>1. /\ HomeOf("academic_semantic_scholar") = "academic"
            /\ HomeOf("academic_arxiv") = "academic"
            /\ HomeOf("academic_asta_mcp") = "academic" /\ "academic" \in Routes
        BY <1>4 DEF HomeOf
      <4>2. \A s \in Planned : HomeOf(s) = "academic" => s = "academic_semantic_scholar"
        BY <1>3, <3>5 DEF WaveShape
      <4>3. chain # << >>
        BY <3>5
      <4>4. fallbacks' = {f \in fallbacks : f.step.route # "academic"}
                           \cup Plan!LinksOf(<<"academic_semantic_scholar", "academic_arxiv",
                                               "academic_asta_mcp">>, "academic", TRUE)
        BY <1>2, <1>5, <2>2, <3>5, <4>1, <4>3 DEF Plan!Replaced
      <4>5. UNCHANGED <<class, firstWave>>
        BY <1>1
      <4> QED BY <1>1, <3>3, <3>5, <4>1, <4>2, <4>4, <4>5, HandPlan
    <3>6. CASE /\ Plan!SwapsIndustry(c, q) /\ c.supplement = "industry"
               /\ chain = <<"industry_news_rss", "industry_web_discovery",
                            "industry_official_or_filings">>
      <4>1. /\ HomeOf("industry_news_rss") = "industry"
            /\ HomeOf("industry_web_discovery") = "industry"
            /\ HomeOf("industry_official_or_filings") = "industry" /\ "industry" \in Routes
        BY <1>4 DEF HomeOf
      <4>2. \/ \A s \in Planned : HomeOf(s) = "industry" => s = "industry_news_rss"
            \/ \A s \in Planned : HomeOf(s) = "industry" => s = "industry_web_discovery"
        BY <1>3, <3>6 DEF WaveShape
      <4>3. chain # << >>
        BY <3>6
      <4>4. fallbacks' = {f \in fallbacks : f.step.route # "industry"}
                           \cup Plan!LinksOf(<<"industry_news_rss", "industry_web_discovery",
                                               "industry_official_or_filings">>,
                                             "industry", TRUE)
        BY <1>2, <1>5, <2>2, <3>6, <4>1, <4>3 DEF Plan!Replaced
      <4>5. UNCHANGED <<class, firstWave>>
        BY <1>1
      <4> QED BY <1>1, <3>3, <3>6, <4>1, <4>2, <4>4, <4>5, HandPlan
    <3> QED BY <2>2, <3>4, <3>5, <3>6, HandChains
  <2> QED BY <2>1, <2>2
<1>7. StepsAtHome'
  BY <1>1, <1>6 DEF StepsAtHome
<1> QED BY <1>1, <1>6, <1>7 DEF PlanInv, Plan!FirstWaveOf

\* A built plan keeps the planner's promises.
LEMMA BuiltIsSound ==
    ASSUME PlanInv, SidesInv
    PROVE  Plan!PlanSound
<1>1. CASE ~ built
  BY <1>1 DEF Plan!PlanSound, Plan!PlanMatchesTable, Plan!ChainsDisjoint, Plan!BackupsKeepSide
<1>2. CASE built
  <2>1. BuiltInv /\ StepsAtHome /\ class.result \in Classifications
    BY <1>2 DEF PlanInv
  <2>2. ASSUME NEW s PROVE \A x \in Plan!Reach(s) : HomeOf(x) = HomeOf(s)
    <3> DEFINE S == {x \in {f.step.source : f \in fallbacks} : HomeOf(x) = HomeOf(s)}
    <3>1. ClosedFrom(s, S)
      BY <2>1 DEF ClosedFrom, StepsAtHome, AtHome
    <3> HIDE DEF S
    <3>2. Plan!Reach(s) \subseteq S
      BY <3>1, ReachWithin
    <3> QED BY <3>2 DEF S
  <2>3. ASSUME NEW s, HasNoBackup(s) PROVE Plan!Reach(s) = {}
    <3>1. ClosedFrom(s, {})
      BY <2>3 DEF ClosedFrom, HasNoBackup
    <3> QED BY <3>1, ReachWithin
  <2>4. ASSUME NEW s \in Planned, NEW t \in Planned
        PROVE  t \notin Plan!Reach(s) /\ (s # t => Plan!Reach(s) \cap Plan!Reach(t) = {})
    <3>1. PICK S : ClosedFrom(s, S) /\ S \cap Planned = {}
      BY <2>1 DEF BuiltInv
    <3>2. t \notin Plan!Reach(s)
      BY <3>1, ReachWithin
    <3>3. CASE s # t /\ HomeOf(s) = HomeOf(t)
      <4>1. HasNoBackup(s) \/ HasNoBackup(t)
        BY <2>1, <3>3 DEF BuiltInv
      <4> QED BY <2>3, <3>2, <4>1
    <3>4. CASE HomeOf(s) # HomeOf(t)
      BY <2>2, <3>2, <3>4
    <3> QED BY <3>2, <3>3, <3>4
  <2>5. Plan!ChainsDisjoint
    BY <2>4 DEF Plan!ChainsDisjoint, Planned
  <2>6. ASSUME NEW i \in 1..Len(firstWave), NEW f \in fallbacks,
               f.from \in Plan!Reach(firstWave[i].source) \cup {firstWave[i].source}
        PROVE  /\ f.step.route = firstWave[i].route
               /\ f.step.supplemental = firstWave[i].supplemental
    <3>1. AtHome(firstWave[i])
      BY FirstWaveSources DEF PlanInv
    <3>2. f.step.route = HomeOf(f.from) /\ HomeOf(f.from) = HomeOf(firstWave[i].source)
      BY <2>1, <2>2, <2>6 DEF StepsAtHome
    <3>3. f.step.route = firstWave[i].route
      BY <3>1, <3>2 DEF AtHome
    <3>4. i \in DOMAIN firstWave
      BY SameFirstWave, FirstWaveOnSide DEF PlanInv
    <3>5. OnSide(firstWave[i], class.result) /\ OnSide(f.step, class.result)
      BY <3>4 DEF SidesInv
    <3>6. class.result.supplement # class.result.primary
      BY <2>1, SidesDiffer
    <3> QED BY <3>3, <3>5, <3>6 DEF OnSide
  <2>7. Plan!BackupsKeepSide
    BY <2>6 DEF Plan!BackupsKeepSide
  <2> QED BY <2>1, <2>5, <2>7 DEF BuiltInv, Plan!PlanSound
<1> QED BY <1>1, <1>2

\* PlanInv is an invariant: only the planner's steps touch a plan.
LEMMA PlanHolds == PipelineSpec => [](SidesInv /\ PlanInv)
<1>1. SidesInv /\ PlanInv /\ [PipelineNext]_allVars => PlanInv'
  <2> SUFFICES ASSUME SidesInv, PlanInv, [PipelineNext]_allVars PROVE PlanInv'
    OBVIOUS
  <2>1. CASE BuildPlan
    BY <2>1, WalkKeepsPlan, FinishKeepsPlan DEF BuildPlan, Plan!Next
  <2>2. CASE UNCHANGED planVars
    <3>1. /\ class' = class /\ firstWave' = firstWave /\ pending' = pending
          /\ processed' = processed /\ fallbacks' = fallbacks /\ built' = built
      BY <2>2 DEF planVars
    <3>2. StepsAtHome'
      BY <3>1 DEF PlanInv, StepsAtHome
    <3>3. Planned' = Planned /\ Seen' = Seen /\ Waiting' = Waiting
      BY <3>1 DEF Planned, Seen, Waiting, Plan!IdsOf
    <3>4. WalkInv => WalkInv'
      BY <3>1, <3>3 DEF WalkInv, IsEntry
    <3>5. Plan!PlanMatchesTable => Plan!PlanMatchesTable'
      <4> DEFINE sources == Planned \cup {f.step.source : f \in fallbacks}
      <4>1. sources' = sources
        BY <3>1, <3>3
      <4>2. Plan!PlanMatchesTable = (built => \A s \in sources, r \in Plan!ChainReasons :
                               MatchesAt(fallbacks, class.result, class.markers, s, r))
        BY DEF Plan!PlanMatchesTable, Plan!Entries, MatchesAt, Planned
      <4>3. Plan!PlanMatchesTable' = (built' => \A s \in sources', r \in Plan!ChainReasons :
                               MatchesAt(fallbacks', class'.result, class'.markers, s, r))
        BY DEF Plan!PlanMatchesTable, Plan!Entries, MatchesAt, Planned
      <4> HIDE DEF sources
      <4> QED BY <3>1, <4>1, <4>2, <4>3
    <3>6. BuiltInv => BuiltInv'
      BY <3>1, <3>3, <3>5 DEF BuiltInv, ClosedFrom, HasNoBackup
    <3>7. firstWave' = Plan!FirstWaveOf(class.result, class.markers)'
      BY <3>1 DEF PlanInv
    <3> QED BY <3>1, <3>2, <3>4, <3>6, <3>7 DEF PlanInv
  <2> QED
    BY <2>1, <2>2 DEF PipelineNext, Retrieve, Collapse, Rank, PackStep, Shape, Stop, allVars
<1> QED BY <1>1, SidesHold, PlanInvStarts, PTL DEF PipelineSpec

\* For every classification, every query and every order of the worklist, the plan is the
\* table's, no source can be called twice in one retrieval, and a backup answers for the
\* side of the step it stands in for.
THEOREM EveryPlanIsSound == PipelineSpec => []PlanSound
BY PlanHolds, BuiltIsSound, PTL DEF PlanSound

-----------------------------------------------------------------------------
(* What the engine takes a plan to be *)

Engine == INSTANCE EnginePlans

\* The tables are the same ones, and home is where the engine's chains stay.
LEMMA SameTables ==
    /\ Engine!SourceIds = Plan!SourceIds /\ Engine!ChainReasons = Plan!ChainReasons
    /\ Engine!NoBackup = Plan!NoBackup /\ Engine!Routes = Routes
BY DEF Engine!SourceIds, Plan!SourceIds, Engine!SourceBackupChain, Plan!SourceBackupChain,
       Engine!Backup, Plan!Backup, Engine!ChainReasons, Plan!ChainReasons,
       Engine!NoBackup, Plan!NoBackup, Engine!Routes, Routes

\* A budget in ticks is a number, and a larger one is not fewer ticks.
LEMMA TicksGrow ==
    ASSUME NEW a \in Nat, NEW b \in Nat, a <= b, NEW tick \in Nat \ {0}
    PROVE  /\ Plan!Ticks(a, tick) \in Nat /\ Plan!Ticks(b, tick) \in Nat
           /\ Plan!Ticks(a, tick) <= Plan!Ticks(b, tick)
<1> DEFINE x == a + tick - 1
           y == b + tick - 1
           m == x \div tick
           n == y \div tick
<1>1. x \in Nat /\ y \in Nat /\ x <= y
  OBVIOUS
<1> HIDE DEF x, y
<1>2. /\ m \in Nat /\ m * tick <= x
      /\ n \in Nat /\ y < (n + 1) * tick
  BY <1>1
<1> HIDE DEF m, n
<1>3. m <= n
  <2>1. SUFFICES ASSUME n + 1 <= m PROVE FALSE
    BY <1>2
  <2>2. (n + 1) * tick <= m * tick
    BY <1>2, <2>1
  <2> QED BY <1>1, <1>2, <2>2
<1> QED BY <1>2, <1>3 DEF m, n, x, y, Plan!Ticks

\* A backup the plan gives is of the route of its source.
LEMMA BackupStays ==
    ASSUME NEW c \in Classifications, NEW q, NEW s, HomeOf(s) \in Routes,
           NEW r \in Plan!ChainReasons
    PROVE  \/ Plan!BackupOf(c, q, s, r) = Plan!NoBackup
           \/ /\ Plan!BackupOf(c, q, s, r) \in Plan!SourceIds
              /\ HomeOf(Plan!BackupOf(c, q, s, r)) = HomeOf(s)
<1> DEFINE hand == Plan!HandChain(c, q)
           t == Plan!SourceBackupChain[s][r]
<1>1. CASE Plan!InChain(s, hand)
  <2>1. PICK a, b, d :
          /\ hand = <<a, b, d>>
          /\ {a, b, d} \subseteq Plan!SourceIds /\ HomeOf(a) = HomeOf(b) /\ HomeOf(b) = HomeOf(d)
    <3>1. hand # << >>
      BY <1>1 DEF Plan!InChain
    <3>2. hand \in {<<"academic_semantic_scholar", "academic_arxiv", "academic_asta_mcp">>,
                    <<"academic_arxiv", "academic_semantic_scholar", "academic_asta_mcp">>,
                    <<"industry_news_rss", "industry_web_discovery",
                      "industry_official_or_filings">>}
      BY <3>1, HandChains
    <3> HIDE DEF hand
    <3> QED BY <3>2, PlanTable DEF HomeOf
  <2>2. /\ 1..Len(hand) = {1, 2, 3} /\ Len(hand) = 3
        /\ hand[1] = a /\ hand[2] = b /\ hand[3] = d /\ 1 + 1 = 2 /\ 2 + 1 = 3
    BY <2>1
  <2> HIDE DEF hand
  <2>3. s \in {a, b, d}
    BY <1>1, <2>2 DEF Plan!InChain
  <2>4. Plan!NextInChain(s, hand) \in {b, d, Plan!NoBackup}
    <3> DEFINE i == CHOOSE k \in 1..Len(hand) : hand[k] = s
    <3>1. i \in {1, 2, 3}
      BY <2>2, <2>3
    <3>2. Plan!NextInChain(s, hand) = IF i < Len(hand) THEN hand[i + 1] ELSE Plan!NoBackup
      BY DEF Plan!NextInChain
    <3> HIDE DEF i
    <3> QED BY <2>2, <3>1, <3>2
  <2>5. Plan!BackupOf(c, q, s, r) = Plan!NextInChain(s, hand)
    BY <1>1 DEF Plan!BackupOf, hand
  <2> QED BY <2>1, <2>3, <2>4, <2>5
<1>2. CASE ~ Plan!InChain(s, hand)
  <2>1. Plan!BackupOf(c, q, s, r) \in {t, Plan!NoBackup}
    BY <1>2 DEF Plan!BackupOf
  <2>2. t \in Plan!SourceIds \/ t = Plan!NoBackup
    BY PlanTable DEF HomeOf, Routes
  <2> QED BY <2>1, <2>2, BackupAtHome
<1> QED BY <1>1, <1>2

\* No chain of the plan leaves S.
StaysIn(c, q, S) ==
    \A x \in S, r \in Plan!ChainReasons : Plan!BackupOf(c, q, x, r) \in S \cup {Plan!NoBackup}

\* Two sources of a first wave have sets of sources of their own that the chains do not leave.
LEMMA ChainsKeepApart ==
    ASSUME NEW c \in Classifications, NEW q, NEW ids,
           ids = Plan!IdsOf(Plan!FirstWaveOf(c, q)),
           NEW s \in ids, NEW t \in ids, s # t
    PROVE  \E S, T \in SUBSET Plan!SourceIds :
              /\ s \in S /\ t \in T /\ S \cap T = {}
              /\ StaysIn(c, q, S) /\ StaysIn(c, q, T)
<1> DEFINE Home(x) == {y \in Plan!SourceIds : HomeOf(y) = HomeOf(x)}
<1>1. WaveShape(ids, c, q)
  BY FirstWaveSources
<1>2. /\ HomeOf(s) \in Routes /\ HomeOf(t) \in Routes
      /\ s \in Plan!SourceIds /\ t \in Plan!SourceIds
  BY <1>1, PlanTable DEF WaveShape, HomeOf, Routes
<1>3. CASE HomeOf(s) # HomeOf(t)
  <2>1. StaysIn(c, q, Home(s)) /\ StaysIn(c, q, Home(t))
    BY <1>2, BackupStays DEF StaysIn
  <2>2. s \in Home(s) /\ t \in Home(t) /\ Home(s) \cap Home(t) = {}
    BY <1>2, <1>3
  <2>3. Home(s) \in SUBSET Plan!SourceIds /\ Home(t) \in SUBSET Plan!SourceIds
    OBVIOUS
  <2> HIDE DEF Home
  <2> QED BY <2>1, <2>2, <2>3
<1>4. CASE HomeOf(s) = HomeOf(t)
  <2>1. \/ HomeOf(s) = "industry" /\ OfIndustry \subseteq ids
        \/ {s, t} = {"academic_semantic_scholar", "academic_arxiv"}
    BY <1>1, <1>4 DEF WaveShape
  <2>2. \A x : HomeOf(x) = HomeOf(s) => ~ Plan!InChain(x, Plan!HandChain(c, q))
    <3>1. ~ Plan!IsAcademicPlan(c)
      BY <1>1 DEF WaveShape
    <3>2. ~ (c.supplement = "academic" /\ HomeOf(s) = "academic")
      BY <1>1, <1>4 DEF WaveShape
    <3>3. ~ (Plan!SwapsIndustry(c, q) /\ HomeOf(s) = "industry")
      BY <1>1, <1>4 DEF WaveShape
    <3>4. \/ HomeOf(s) # "academic" /\ Plan!HandChain(c, q) =
                <<"academic_semantic_scholar", "academic_arxiv", "academic_asta_mcp">>
          \/ HomeOf(s) # "industry" /\ Plan!HandChain(c, q) =
                <<"industry_news_rss", "industry_web_discovery", "industry_official_or_filings">>
          \/ Plan!HandChain(c, q) = << >>
      BY <3>1, <3>2, <3>3, HandChains
    <3> QED BY <3>4 DEF Plan!InChain, HomeOf
  <2>3. \A x, r : HomeOf(x) = HomeOf(s) /\ r \in Plan!ChainReasons =>
           Plan!BackupOf(c, q, x, r) = IF Plan!SourceBackupChain[x][r] \in ids
                                       THEN Plan!NoBackup ELSE Plan!SourceBackupChain[x][r]
    BY <2>2 DEF Plan!BackupOf
  <2>4. CASE HomeOf(s) = "industry" /\ OfIndustry \subseteq ids
    <3>1. \A x \in {s, t}, r \in Plan!ChainReasons : Plan!BackupOf(c, q, x, r) = Plan!NoBackup
      BY <1>4, <2>3, <2>4, PlanTable DEF HomeOf, OfIndustry
    <3> DEFINE A == {s}
               B == {t}
    <3>2. StaysIn(c, q, A) /\ StaysIn(c, q, B) /\ A \cap B = {} /\ s \in A /\ t \in B
      BY <3>1 DEF StaysIn
    <3>3. A \in SUBSET Plan!SourceIds /\ B \in SUBSET Plan!SourceIds
      BY <1>2
    <3> HIDE DEF A, B
    <3> QED BY <3>2, <3>3
  <2>5. CASE {s, t} = {"academic_semantic_scholar", "academic_arxiv"}
    <3> DEFINE A == {"academic_semantic_scholar", "academic_asta_mcp"}
               B == {"academic_arxiv"}
    <3>1. \A x \in A \cup B : HomeOf(x) = HomeOf(s)
      BY <2>5 DEF HomeOf
    <3>2. StaysIn(c, q, A) /\ StaysIn(c, q, B)
      BY <2>3, <3>1, PlanTable DEF StaysIn
    <3>3. A \in SUBSET Plan!SourceIds /\ B \in SUBSET Plan!SourceIds /\ A \cap B = {}
      BY PlanTable
    <3>4. (s \in A /\ t \in B) \/ (s \in B /\ t \in A)
      BY <2>5
    <3> HIDE DEF A, B
    <3> QED BY <3>2, <3>3, <3>4
  <2> QED BY <2>1, <2>4, <2>5
<1> QED BY <1>3, <1>4

\* The lists of sources a first wave is put together from.
WaveLists ==
    {<<"policy_official_registry">>, <<"academic_semantic_scholar">>, <<"academic_arxiv">>,
     <<"academic_semantic_scholar", "academic_arxiv">>,
     <<"industry_official_or_filings">>, <<"industry_web_discovery">>, <<"industry_news_rss">>,
     <<"industry_official_or_filings", "industry_web_discovery", "industry_news_rss">>,
     <<"industry_web_discovery", "industry_news_rss", "industry_official_or_filings">>}

\* Each names sources, asta not among them, and none twice.
GoodList(ids) ==
    /\ Len(ids) \in Nat \ {0}
    /\ \A i \in 1..Len(ids) : ids[i] \in Plan!SourceIds /\ ids[i] # "academic_asta_mcp"
    /\ \A i, j \in 1..Len(ids) : i # j => ids[i] # ids[j]

\* All of those lists do.
LEMMA WaveListsAreGood == \A ids \in WaveLists : GoodList(ids)
<1>1. \A a \in Plan!SourceIds \ {"academic_asta_mcp"} : GoodList(<<a>>)
  BY DEF GoodList
<1>2. \A a, b \in Plan!SourceIds \ {"academic_asta_mcp"} : a # b => GoodList(<<a, b>>)
  <2> SUFFICES ASSUME NEW a \in Plan!SourceIds \ {"academic_asta_mcp"},
                      NEW b \in Plan!SourceIds \ {"academic_asta_mcp"}, a # b
               PROVE  GoodList(<<a, b>>)
    OBVIOUS
  <2>1. Len(<<a, b>>) = 2 /\ 1..2 = {1, 2} /\ <<a, b>>[1] = a /\ <<a, b>>[2] = b
    OBVIOUS
  <2> QED BY <2>1 DEF GoodList
<1>3. \A a, b, d \in Plan!SourceIds \ {"academic_asta_mcp"} :
         a # b /\ a # d /\ b # d => GoodList(<<a, b, d>>)
  <2> SUFFICES ASSUME NEW a \in Plan!SourceIds \ {"academic_asta_mcp"},
                      NEW b \in Plan!SourceIds \ {"academic_asta_mcp"},
                      NEW d \in Plan!SourceIds \ {"academic_asta_mcp"}, a # b, a # d, b # d
               PROVE  GoodList(<<a, b, d>>)
    OBVIOUS
  <2>1. /\ Len(<<a, b, d>>) = 3 /\ 1..3 = {1, 2, 3}
        /\ <<a, b, d>>[1] = a /\ <<a, b, d>>[2] = b /\ <<a, b, d>>[3] = d
    OBVIOUS
  <2> QED BY <2>1 DEF GoodList
<1>4. {"policy_official_registry", "academic_semantic_scholar", "academic_arxiv",
       "industry_official_or_filings", "industry_web_discovery", "industry_news_rss"}
        \subseteq Plan!SourceIds \ {"academic_asta_mcp"}
  BY PlanTable
<1> QED BY <1>1, <1>2, <1>3, <1>4 DEF WaveLists

\* A first wave is a list of the primary route and, in a mix, one of the supplement after it.
LEMMA WaveListsMade ==
    ASSUME NEW c \in Classifications, NEW q
    PROVE  /\ \E ids \in WaveLists :
                Plan!PrimaryFirstWave(c, q) = Plan!AsSteps(ids, c.primary, FALSE)
           /\ \/ Plan!SupplementalFirstWave(c, q) = << >>
              \/ /\ c.supplement \in Routes
                 /\ \E ids \in WaveLists :
                      Plan!SupplementalFirstWave(c, q) = Plan!AsSteps(ids, c.supplement, TRUE)
<1>1. /\ c.primary \in {"policy", "academic", "industry"}
      /\ c.supplement \in {"policy", "academic", "industry", NoRoute}
  BY SidesDiffer DEF Routes
<1>2. Plan!IndustryFirstWave(q) \in WaveLists
  BY DEF Plan!IndustryFirstWave, Plan!DomainFirstWave, WaveLists
<1>3. \E ids \in WaveLists : Plan!PrimaryFirstWave(c, q) = Plan!AsSteps(ids, c.primary, FALSE)
  <2> DEFINE ids == CASE Plan!IsAcademicPlan(c) -> <<Plan!MetadataOrder(q)[1]>>
                      [] c.primary = "industry" -> Plan!IndustryFirstWave(q)
                      [] OTHER -> Plan!DomainFirstWave[c.primary]
  <2>1. ids \in WaveLists
    <3>1. CASE Plan!IsAcademicPlan(c)
      <4>1. Plan!MetadataOrder(q)[1] \in {"academic_semantic_scholar", "academic_arxiv"}
        BY DEF Plan!MetadataOrder
      <4>2. ids = <<Plan!MetadataOrder(q)[1]>>
        BY <3>1 DEF Plan!IsAcademicPlan
      <4> QED BY <4>1, <4>2 DEF WaveLists
    <3>2. CASE ~ Plan!IsAcademicPlan(c) /\ c.primary = "industry"
      BY <3>2, <1>2
    <3>3. CASE ~ Plan!IsAcademicPlan(c) /\ c.primary # "industry"
      BY <3>3, <1>1 DEF Plan!DomainFirstWave, WaveLists
    <3> QED BY <3>1, <3>2, <3>3
  <2>2. Plan!PrimaryFirstWave(c, q) = Plan!AsSteps(ids, c.primary, FALSE)
    BY DEF Plan!PrimaryFirstWave
  <2> HIDE DEF ids
  <2> QED BY <2>1, <2>2
<1>4. ASSUME Plan!SupplementalFirstWave(c, q) # << >>
      PROVE  /\ c.supplement \in Routes
             /\ \E ids \in WaveLists :
                  Plan!SupplementalFirstWave(c, q) = Plan!AsSteps(ids, c.supplement, TRUE)
  <2> DEFINE ids == IF c.supplement = "industry" THEN Plan!SupplementalIndustry(q)
                    ELSE <<Plan!SupplementalStrongest[c.supplement]>>
  <2>1. c.supplement # NoRoute
    BY <1>4 DEF Plan!SupplementalFirstWave, Plan!NoRoute, NoRoute
  <2>2. Plan!SupplementalFirstWave(c, q) = Plan!AsSteps(ids, c.supplement, TRUE)
    BY <2>1 DEF Plan!SupplementalFirstWave, Plan!NoRoute, NoRoute
  <2>3. ids \in WaveLists
    <3>1. CASE c.supplement = "industry"
      BY <3>1, <1>2 DEF Plan!SupplementalIndustry, WaveLists
    <3>2. CASE c.supplement \in {"policy", "academic"}
      BY <3>2 DEF Plan!SupplementalStrongest, WaveLists
    <3> QED BY <1>1, <2>1, <3>1, <3>2
  <2> HIDE DEF ids
  <2> QED BY <1>1, <2>1, <2>2, <2>3 DEF Routes
<1> QED BY <1>3, <1>4

\* Steps of sources, asta not among them, and no source twice.
PlanStep == [source : Plan!SourceIds, route : Routes, supplemental : BOOLEAN]

GoodSteps(f) ==
    /\ f \in Seq(PlanStep)
    /\ \A i \in 1..Len(f) : f[i].source # "academic_asta_mcp"
    /\ \A i, j \in 1..Len(f) : i # j => f[i].source # f[j].source

\* Steps made of such a list are.
LEMMA StepsOfList ==
    ASSUME NEW ids, GoodList(ids), NEW route \in Routes, NEW supplemental \in BOOLEAN
    PROVE  /\ GoodSteps(Plan!AsSteps(ids, route, supplemental))
           /\ Len(Plan!AsSteps(ids, route, supplemental)) \in Nat \ {0}
           /\ \A i \in 1..Len(Plan!AsSteps(ids, route, supplemental)) :
                 Plan!AsSteps(ids, route, supplemental)[i].route = route
<1> DEFINE f == Plan!AsSteps(ids, route, supplemental)
           n == Len(ids)
<1>1. n \in Nat \ {0}
  BY DEF GoodList
<1>2. f = [i \in 1..n |-> Plan!Step(ids[i], route, supplemental)]
  BY DEF Plan!AsSteps
<1> HIDE DEF f, n
<1>3. \A i \in 1..n : Plan!Step(ids[i], route, supplemental) \in PlanStep
  BY DEF Plan!Step, PlanStep, GoodList, n
<1>4. f \in Seq(PlanStep) /\ Len(f) = n
  <2> HIDE DEF PlanStep
  <2>1. \A i \in 1..n : f[i] \in PlanStep
    BY <1>2, <1>3
  <2>2. f \in [1..n -> PlanStep]
    BY <1>2, <2>1
  <2> QED BY <1>1, <2>2
<1>5. \A i \in 1..n : f[i].source = ids[i] /\ f[i].route = route
  BY <1>2 DEF Plan!Step
<1>6. GoodSteps(f)
  BY <1>4, <1>5 DEF GoodSteps, GoodList, n
<1> QED BY <1>1, <1>4, <1>5, <1>6 DEF f

\* And so is every first wave; it is not empty, and one step in an academic plan.
LEMMA WaveIsGood ==
    ASSUME NEW c \in Classifications, NEW q
    PROVE  /\ GoodSteps(Plan!FirstWaveOf(c, q)) /\ Plan!FirstWaveOf(c, q) # << >>
           /\ Plan!IsAcademicPlan(c) =>
                /\ Len(Plan!FirstWaveOf(c, q)) = 1
                /\ Plan!FirstWaveOf(c, q)[1].source = Plan!MetadataOrder(q)[1]
<1> DEFINE p == Plan!PrimaryFirstWave(c, q)
           s == Plan!SupplementalFirstWave(c, q)
           w == Plan!FirstWaveOf(c, q)
<1>1. /\ c.primary \in Routes /\ c.supplement # c.primary
  BY SidesDiffer
<1>2. /\ GoodSteps(p) /\ Len(p) \in Nat \ {0}
      /\ \A i \in 1..Len(p) : p[i].route = c.primary
  <2>1. PICK ids \in WaveLists : p = Plan!AsSteps(ids, c.primary, FALSE)
    BY WaveListsMade
  <2> HIDE DEF p
  <2> QED BY <1>1, <2>1, WaveListsAreGood, StepsOfList
<1>3. /\ GoodSteps(s) /\ Len(s) \in Nat
      /\ \A i \in 1..Len(s) : s[i].route = c.supplement
  <2>1. CASE s = << >>
    <3> HIDE DEF s
    <3>1. Len(s) = 0 /\ s \in Seq(PlanStep)
      BY <2>1
    <3> QED BY <3>1 DEF GoodSteps
  <2>2. CASE s # << >>
    <3>1. PICK ids \in WaveLists : s = Plan!AsSteps(ids, c.supplement, TRUE)
      BY <2>2, WaveListsMade
    <3>2. c.supplement \in Routes
      BY <2>2, WaveListsMade
    <3> HIDE DEF s
    <3> QED BY <3>1, <3>2, WaveListsAreGood, StepsOfList
  <2> QED BY <2>1, <2>2
<1>4. w = p \o s
  BY DEF Plan!FirstWaveOf
<1>5. \A i \in 1..Len(w) : HomeOf(w[i].source) = w[i].route
  BY FirstWaveSources DEF AtHome
<1>6. WaveShape(Plan!IdsOf(w), c, q)
  BY FirstWaveSources
<1> HIDE DEF p, s, w
<1>7. /\ Len(w) = Len(p) + Len(s) /\ w \in Seq(PlanStep)
      /\ \A i \in 1..Len(w) : w[i] = IF i <= Len(p) THEN p[i] ELSE s[i - Len(p)]
  <2> HIDE DEF PlanStep
  <2> QED BY <1>2, <1>3, <1>4, ConcatProperties DEF GoodSteps
<1>8. ASSUME NEW i \in 1..Len(w)
      PROVE  \/ i \in 1..Len(p) /\ w[i] = p[i] /\ w[i].route = c.primary
             \/ /\ i - Len(p) \in 1..Len(s) /\ w[i] = s[i - Len(p)]
                /\ w[i].route = c.supplement
  <2>1. CASE i <= Len(p)
    BY <1>2, <1>7, <2>1
  <2>2. CASE ~ (i <= Len(p))
    <3>1. i - Len(p) \in 1..Len(s)
      BY <1>2, <1>3, <1>7, <2>2
    <3> QED BY <1>3, <1>7, <2>2, <3>1
  <2> QED BY <2>1, <2>2
<1>9. ASSUME NEW i \in 1..Len(w), NEW j \in 1..Len(w), i # j
      PROVE  w[i].source # w[j].source
  <2>1. CASE w[i].route # w[j].route
    BY <1>5, <2>1
  <2>2. CASE w[i].route = w[j].route
    <3>1. \/ /\ i \in 1..Len(p) /\ w[i] = p[i]
             /\ j \in 1..Len(p) /\ w[j] = p[j]
          \/ /\ i - Len(p) \in 1..Len(s) /\ w[i] = s[i - Len(p)]
             /\ j - Len(p) \in 1..Len(s) /\ w[j] = s[j - Len(p)]
      BY <1>1, <1>8, <2>2
    <3>2. i - Len(p) # j - Len(p)
      BY <1>2, <1>7, <1>9, <1>3
    <3> QED BY <1>2, <1>3, <1>9, <3>1, <3>2 DEF GoodSteps
  <2> QED BY <2>1, <2>2
<1>10. \A i \in 1..Len(w) : w[i].source # "academic_asta_mcp"
  <2> SUFFICES ASSUME NEW i \in 1..Len(w) PROVE w[i].source # "academic_asta_mcp"
    OBVIOUS
  <2> QED BY <1>2, <1>3, <1>8 DEF GoodSteps
<1>11. Len(w) \in Nat \ {0}
  BY <1>2, <1>3, <1>7
<1>12. GoodSteps(w) /\ w # << >>
  <2>1. Len(<< >>) = 0
    OBVIOUS
  <2> QED BY <1>7, <1>9, <1>10, <1>11, <2>1 DEF GoodSteps
<1>13. ASSUME Plan!IsAcademicPlan(c)
       PROVE  Len(w) = 1 /\ w[1].source = Plan!MetadataOrder(q)[1]
  <2>1. \A i \in 1..Len(w) : w[i].source = Plan!MetadataOrder(q)[1]
    BY <1>6, <1>13 DEF WaveShape, Plan!IdsOf
  <2>2. 1 \in 1..Len(w) /\ (Len(w) # 1 => 2 \in 1..Len(w))
    BY <1>11
  <2>3. Len(w) = 1
    BY <1>9, <2>1, <2>2
  <2> QED BY <2>1, <2>2, <2>3
<1> QED BY <1>12, <1>13 DEF w

\* The plans build_retrieval_plan makes are what the proofs of FallbackPath and
\* RetrievalRun assume of a plan, whatever the query and the length of a tick: sources of
\* their types, a wave within its deadline, chains of two steps that never meet.
THEOREM PlansAreShaped ==
    \A c \in Classifications, q \in Plan!Markers, tick \in Nat \ {0} :
        Engine!PlanShape(Plan!PlanOf(c, q, tick))
<1> SUFFICES ASSUME NEW c \in Classifications, NEW q \in Plan!Markers, NEW tick \in Nat \ {0}
             PROVE  Engine!PlanShape(Plan!PlanOf(c, q, tick))
  OBVIOUS
<1> DEFINE w == Plan!FirstWaveOf(c, q)
           plan == Plan!PlanOf(c, q, tick)
           ids == Plan!IdsOf(w)
<1>1. /\ plan.academic = Plan!IsAcademicPlan(c) /\ plan.mixed = (c.label = "mixed")
      /\ plan.pooled = (c.label = "mixed" /\ c.supplement # Plan!NoRoute)
      /\ plan.steps = w
      /\ plan.backup = [s \in Plan!SourceIds |->
                          [r \in Plan!ChainReasons |-> Plan!BackupOf(c, q, s, r)]]
      /\ plan.perSource = Plan!Ticks(Plan!PerSourceTimeout(c, q), tick)
      /\ plan.overall = Plan!Ticks(Plan!OverallDeadline(c), tick)
      /\ plan.waveTimeout = Plan!Ticks(Plan!FirstWaveTimeout(c), tick)
  BY DEF Plan!PlanOf
<1> HIDE DEF plan
<1>2. GoodSteps(w) /\ w # << >>
  BY WaveIsGood
<1>3. \A s \in Plan!SourceIds, r \in Plan!ChainReasons :
        /\ plan.backup[s][r] = Plan!BackupOf(c, q, s, r)
        /\ Plan!BackupOf(c, q, s, r) \in Plan!SourceIds \cup {Plan!NoBackup}
  <2>1. \A s \in Plan!SourceIds, r \in Plan!ChainReasons :
          plan.backup[s][r] = Plan!BackupOf(c, q, s, r)
    BY <1>1
  <2>2. ASSUME NEW s \in Plan!SourceIds, NEW r \in Plan!ChainReasons
        PROVE  Plan!BackupOf(c, q, s, r) \in Plan!SourceIds \cup {Plan!NoBackup}
    <3>1. CASE HomeOf(s) \in Routes
      BY <3>1, BackupStays
    <3>2. CASE HomeOf(s) \notin Routes
      <4>1. s = "industry_ddgs"
        BY <3>2, PlanTable DEF HomeOf, Routes
      <4>2. ~ Plan!InChain(s, Plan!HandChain(c, q))
        <5>1. Plan!HandChain(c, q) \in
                {<<"academic_semantic_scholar", "academic_arxiv", "academic_asta_mcp">>,
                 <<"academic_arxiv", "academic_semantic_scholar", "academic_asta_mcp">>,
                 <<"industry_news_rss", "industry_web_discovery",
                   "industry_official_or_filings">>, << >>}
          BY HandChains
        <5> QED BY <4>1, <5>1 DEF Plan!InChain
      <4>3. Plan!SourceBackupChain["industry_ddgs"][r] \in Plan!SourceIds
        BY PlanTable DEF Plan!SourceBackupChain, Plan!Backup, Plan!ChainReasons
      <4> QED BY <4>1, <4>2, <4>3 DEF Plan!BackupOf
    <3> QED BY <3>1, <3>2
  <2> QED BY <2>1, <2>2
<1>4. plan.backup \in
        [Engine!SourceIds -> [Engine!ChainReasons -> Engine!SourceIds \cup {Engine!NoBackup}]]
  BY <1>1, <1>3, SameTables
<1>5. plan.steps \in
        Seq([source : Engine!SourceIds, route : Engine!Routes, supplemental : BOOLEAN]) \ {<< >>}
  <2>1. PlanStep = [source : Engine!SourceIds, route : Engine!Routes, supplemental : BOOLEAN]
    BY SameTables DEF PlanStep
  <2> HIDE DEF w
  <2> QED BY <1>1, <1>2, <2>1 DEF GoodSteps
<1>6. plan.academic \in BOOLEAN /\ plan.mixed \in BOOLEAN /\ plan.pooled \in BOOLEAN
  BY <1>1 DEF Plan!IsAcademicPlan
<1>7. plan.perSource \in Nat /\ plan.overall \in Nat /\ plan.waveTimeout \in 0..plan.overall
  <2>1. Plan!PerSourceTimeout(c, q) \in Nat
    BY DEF Plan!PerSourceTimeout
  <2>2. /\ Plan!OverallDeadline(c) \in Nat /\ Plan!FirstWaveTimeout(c) \in Nat
        /\ Plan!FirstWaveTimeout(c) <= Plan!OverallDeadline(c)
    BY DEF Plan!OverallDeadline, Plan!FirstWaveTimeout
  <2> QED BY <1>1, <2>1, <2>2, TicksGrow
<1>8. ASSUME NEW i \in 1..Len(w), NEW j \in 1..Len(w), i # j
      PROVE  Engine!ChainFrom(plan, w[i].source) \cap Engine!ChainFrom(plan, w[j].source) = {}
  <2>1. w[i].source \in ids /\ w[j].source \in ids /\ w[i].source # w[j].source
    BY <1>2, <1>8 DEF GoodSteps, Plan!IdsOf
  <2>2. \E S, T \in SUBSET Plan!SourceIds :
          /\ w[i].source \in S /\ w[j].source \in T /\ S \cap T = {}
          /\ StaysIn(c, q, S) /\ StaysIn(c, q, T)
    <3>1. PICK s : s = w[i].source
      OBVIOUS
    <3>2. PICK t : t = w[j].source
      OBVIOUS
    <3>3. s \in Plan!IdsOf(Plan!FirstWaveOf(c, q)) /\ t \in Plan!IdsOf(Plan!FirstWaveOf(c, q))
      BY <2>1, <3>1, <3>2
    <3>4. s # t
      BY <2>1, <3>1, <3>2
    <3> HIDE DEF w, ids
    <3> QED BY <3>1, <3>2, <3>3, <3>4, ChainsKeepApart
  <2>3. PICK S, T \in SUBSET Plan!SourceIds :
          /\ w[i].source \in S /\ w[j].source \in T /\ S \cap T = {}
          /\ StaysIn(c, q, S) /\ StaysIn(c, q, T)
    <3> HIDE DEF w
    <3> QED BY <2>2
  <2> HIDE DEF w, ids
  <2>4. Engine!ClosedUnder(plan, S) /\ Engine!ClosedUnder(plan, T)
    BY <1>3, <2>3, SameTables DEF Engine!ClosedUnder, StaysIn
  <2>5. /\ Engine!ChainFrom(plan, w[i].source) \subseteq S
        /\ Engine!ChainFrom(plan, w[j].source) \subseteq T
    BY <2>3, <2>4, SameTables DEF Engine!ChainFrom
  <2> QED BY <2>3, <2>5
<1>9. ASSUME plan.academic
      PROVE  /\ ~ plan.mixed /\ Len(w) = 1 /\ w[1].source \in Engine!Metadata
             /\ \A r \in Engine!ChainReasons : plan.backup[w[1].source][r] # "academic_asta_mcp"
  <2>1. /\ Plan!IsAcademicPlan(c) /\ ~ plan.mixed
    BY <1>1, <1>9 DEF Plan!IsAcademicPlan
  <2>2. Len(w) = 1 /\ w[1].source = Plan!MetadataOrder(q)[1]
    BY <2>1, WaveIsGood
  <2>3. PICK a, b :
          /\ w[1].source = a /\ a # b
          /\ {a, b} = {"academic_semantic_scholar", "academic_arxiv"}
          /\ Plan!HandChain(c, q) = <<a, b, "academic_asta_mcp">>
    BY <2>1, <2>2, HandChains
  <2> HIDE DEF w
  <2>4. \A r \in Plan!ChainReasons : Plan!BackupOf(c, q, a, r) = b
    <3> DEFINE hand == <<a, b, "academic_asta_mcp">>
               k == CHOOSE k \in 1..Len(hand) : hand[k] = a
    <3>1. /\ 1..Len(hand) = {1, 2, 3} /\ Len(hand) = 3
          /\ hand[1] = a /\ hand[2] = b /\ hand[3] = "academic_asta_mcp" /\ 1 + 1 = 2
      OBVIOUS
    <3> HIDE DEF hand
    <3>2. k = 1
      BY <2>3, <3>1
    <3>3. Plan!NextInChain(a, hand) = IF k < Len(hand) THEN hand[k + 1] ELSE Plan!NoBackup
      BY DEF Plan!NextInChain
    <3>4. Plan!NextInChain(a, hand) = b
      <4> HIDE DEF k
      <4> QED BY <3>1, <3>2, <3>3
    <3>5. Plan!InChain(a, hand)
      BY <3>1 DEF Plan!InChain
    <3> QED BY <2>3, <3>4, <3>5 DEF Plan!BackupOf, hand
  <2>5. a \in Plan!SourceIds /\ b # "academic_asta_mcp"
    BY <2>3, PlanTable
  <2> QED BY <1>3, <2>1, <2>2, <2>3, <2>4, <2>5, SameTables DEF Engine!Metadata
<1>10. Engine!ChainsApart(plan)
  <2> HIDE DEF w
  <2> QED BY <1>1, <1>2, <1>8, <1>9 DEF Engine!ChainsApart, GoodSteps
<1> QED BY <1>4, <1>5, <1>6, <1>7, <1>10 DEF Engine!PlanShape, plan

-----------------------------------------------------------------------------
(* The end of the walk *)

\* The step_keys there can be: a step, and the source it backs up if any.
StepKeys ==
    {Plan!Queued(from, step) :
        from \in Plan!SourceIds \cup {Plan!NoRoute}, step \in PlanStep}

\* The worklist and what it processed are of them, and apart.
KeysInv ==
    /\ pending \cup processed \subseteq StepKeys /\ pending \cap processed = {}
    /\ \A f \in fallbacks : ~ built => f.step \in PlanStep

\* The table names finitely many sources.
LEMMA SourcesAreFinite == IsFiniteSet(Plan!SourceIds)
<1> DEFINE S1 == {} \cup {"policy_official_registry"}
           S2 == S1 \cup {"policy_official_web_allowlist_fallback"}
           S3 == S2 \cup {"academic_asta_mcp"}
           S4 == S3 \cup {"academic_semantic_scholar"}
           S5 == S4 \cup {"academic_arxiv"}
           S6 == S5 \cup {"industry_ddgs"}
           S7 == S6 \cup {"industry_official_or_filings"}
           S8 == S7 \cup {"industry_web_discovery"}
           S9 == S8 \cup {"industry_news_rss"}
<1>1. S9 = Plan!SourceIds
  BY PlanTable
<1>2. \A S, x : IsFiniteSet(S) => IsFiniteSet(S \cup {x})
  BY FS_AddElement
<1>3. IsFiniteSet(S3)
  <2>1. IsFiniteSet(S1)
    BY FS_EmptySet, <1>2
  <2>2. IsFiniteSet(S2)
    <3> HIDE DEF S1
    <3> QED BY <2>1, <1>2
  <2> HIDE DEF S2
  <2> QED BY <2>2, <1>2
<1>4. IsFiniteSet(S6)
  <2> HIDE DEF S3
  <2>1. IsFiniteSet(S4)
    BY <1>3, <1>2
  <2>2. IsFiniteSet(S5)
    <3> HIDE DEF S4
    <3> QED BY <2>1, <1>2
  <2> HIDE DEF S5
  <2> QED BY <2>2, <1>2
<1>5. IsFiniteSet(S9)
  <2> HIDE DEF S6
  <2>1. IsFiniteSet(S7)
    BY <1>4, <1>2
  <2>2. IsFiniteSet(S8)
    <3> HIDE DEF S7
    <3> QED BY <2>1, <1>2
  <2> HIDE DEF S8
  <2> QED BY <2>2, <1>2
<1> HIDE DEF S9
<1> QED BY <1>1, <1>5

\* There are finitely many.
LEMMA KeysAreFinite == IsFiniteSet(StepKeys)
<1> DEFINE F == Plan!SourceIds \cup {Plan!NoRoute}
           D == F \X (Plan!SourceIds \X (Routes \X BOOLEAN))
           f == [x \in D |-> [from |-> x[1],
                   step |-> [source |-> x[2][1], route |-> x[2][2][1],
                             supplemental |-> x[2][2][2]]]]
<1>1. IsFiniteSet(D)
  <2>1. IsFiniteSet(F)
    BY SourcesAreFinite, FS_AddElement
  <2>2. IsFiniteSet(Routes)
    <3>1. IsFiniteSet({} \cup {"policy"})
      BY FS_EmptySet, FS_AddElement
    <3>2. IsFiniteSet(({} \cup {"policy"}) \cup {"academic"})
      BY <3>1, FS_AddElement
    <3>3. IsFiniteSet((({} \cup {"policy"}) \cup {"academic"}) \cup {"industry"})
      BY <3>2, FS_AddElement
    <3>4. (({} \cup {"policy"}) \cup {"academic"}) \cup {"industry"} = Routes
      BY DEF Routes
    <3> QED BY <3>3, <3>4
  <2>3. IsFiniteSet(BOOLEAN)
    <3>1. IsFiniteSet({} \cup {TRUE})
      BY FS_EmptySet, FS_AddElement
    <3>2. IsFiniteSet(({} \cup {TRUE}) \cup {FALSE})
      BY <3>1, FS_AddElement
    <3>3. ({} \cup {TRUE}) \cup {FALSE} = BOOLEAN
      OBVIOUS
    <3> QED BY <3>2, <3>3
  <2> HIDE DEF F
  <2>4. IsFiniteSet(Routes \X BOOLEAN)
    BY <2>2, <2>3, FS_Product
  <2>5. IsFiniteSet(Plan!SourceIds \X (Routes \X BOOLEAN))
    BY <2>4, SourcesAreFinite, FS_Product
  <2> QED BY <2>1, <2>5, FS_Product
<1>2. \A x \in D : f[x] \in StepKeys
  <2> SUFFICES ASSUME NEW a \in F, NEW s \in Plan!SourceIds, NEW r \in Routes, NEW b \in BOOLEAN
               PROVE  [from |-> a, step |-> [source |-> s, route |-> r, supplemental |-> b]]
                        \in StepKeys
    OBVIOUS
  <2> QED BY DEF StepKeys, Plan!Queued, PlanStep
<1>3. \A k \in StepKeys : \E x \in D : f[x] = k
  <2> SUFFICES ASSUME NEW k \in StepKeys PROVE \E x \in D : f[x] = k
    OBVIOUS
  <2>1. PICK a \in F, step \in PlanStep : k = Plan!Queued(a, step)
    BY DEF StepKeys
  <2> DEFINE x == <<a, <<step.source, <<step.route, step.supplemental>>>>>>
  <2>2. x \in D
    BY DEF PlanStep
  <2>3. f[x] = [from |-> a, step |-> [source |-> step.source, route |-> step.route,
                                      supplemental |-> step.supplemental]]
    BY <2>2
  <2>4. step = [source |-> step.source, route |-> step.route,
                supplemental |-> step.supplemental]
    BY DEF PlanStep
  <2> HIDE DEF f
  <2> QED BY <2>1, <2>2, <2>3, <2>4 DEF Plan!Queued
<1>4. f \in [D -> StepKeys]
  BY <1>2
<1> HIDE DEF D, f
<1>5. f \in Surjection(D, StepKeys)
  BY <1>3, <1>4, Fun_IsSurj
<1> QED BY <1>1, <1>5, FS_Surjection

\* A step the walk adds is a step, and its key a key.
LEMMA EntryIsStep ==
    ASSUME KeysInv, ~ built, NEW head \in pending, NEW t \in Plan!SourceIds
    PROVE  /\ Plan!EntryStep(head, t) \in PlanStep
           /\ Plan!Queued(head.step.source, Plan!EntryStep(head, t)) \in StepKeys
<1>1. PICK a \in Plan!SourceIds \cup {Plan!NoRoute}, step \in PlanStep : head = Plan!Queued(a, step)
  BY DEF KeysInv, StepKeys
<1>2. head.step \in PlanStep
  BY <1>1 DEF Plan!Queued
<1>3. Plan!EntryStep(head, t) \in PlanStep
  <2>1. CASE Plan!Known(head.step.source, t)
    <3>1. \E f \in fallbacks : f.from = head.step.source /\ f.step.source = t
      BY <2>1 DEF Plan!Known
    <3>2. PICK f \in fallbacks : Plan!EntryStep(head, t) = f.step
      BY <2>1, <3>1 DEF Plan!EntryStep
    <3> QED BY <3>2 DEF KeysInv
  <2>2. CASE ~ Plan!Known(head.step.source, t)
    BY <2>2, <1>2 DEF Plan!EntryStep, Plan!Inherited, Plan!Step, PlanStep
  <2> QED BY <2>1, <2>2
<1>4. head.step.source \in Plan!SourceIds
  BY <1>2 DEF PlanStep
<1> HIDE DEF PlanStep
<1> QED BY <1>3, <1>4 DEF StepKeys

\* An iteration of the worklist takes a key it has not taken before.
LEMMA WalkKeepsKeys ==
    ASSUME KeysInv, Plan!WalkHead
    PROVE  /\ KeysInv'
           /\ \E head \in StepKeys \ processed : processed' = processed \cup {head}
<1>1. ~ built /\ ~ built'
  BY DEF Plan!WalkHead
<1>2. PICK head \in pending :
        /\ processed' = processed \cup {head}
        /\ fallbacks' = fallbacks \cup Plan!EntriesOf(head)
        /\ pending' = (pending \cup Plan!FollowedBy(head)) \ processed'
  BY DEF Plan!WalkHead, Plan!Remember
<1>3. head \in StepKeys \ processed
  BY DEF KeysInv
<1>4. Plan!FollowedBy(head) \subseteq StepKeys
  <2> SUFFICES ASSUME NEW x \in Plan!FollowedBy(head) PROVE x \in StepKeys
    OBVIOUS
  <2>1. PICK t \in Plan!SourceIds : x = Plan!Queued(head.step.source, Plan!EntryStep(head, t))
    BY DEF Plan!FollowedBy, Plan!Backups
  <2> QED BY <1>1, <2>1, EntryIsStep
<1>5. \A f \in Plan!EntriesOf(head) : f.step \in PlanStep
  <2> SUFFICES ASSUME NEW f \in Plan!EntriesOf(head) PROVE f.step \in PlanStep
    OBVIOUS
  <2>1. PICK t \in Plan!Backups(head.step.source) : \E r \in Plan!Triggers(head.step.source, t) :
          f = Plan!Transition(head.step.source, r, Plan!EntryStep(head, t))
    BY DEF Plan!EntriesOf
  <2>2. t \in Plan!SourceIds /\ f.step = Plan!EntryStep(head, t)
    BY <2>1 DEF Plan!Backups, Plan!Transition
  <2> QED BY <1>1, <2>2, EntryIsStep
<1>6. pending' \cup processed' \subseteq StepKeys /\ pending' \cap processed' = {}
  BY <1>2, <1>3, <1>4 DEF KeysInv
<1>7. \A f \in fallbacks' : f.step \in PlanStep
  BY <1>1, <1>2, <1>5 DEF KeysInv
<1> QED BY <1>2, <1>3, <1>6, <1>7 DEF KeysInv

\* The invariant of the worklist's keys.
LEMMA KeysHold == PipelineSpec => []KeysInv
<1>1. PipelineInit => KeysInv
  <2> SUFFICES ASSUME PipelineInit PROVE KeysInv
    OBVIOUS
  <2>1. PICK c \in Classifications, q \in Plan!Markers :
          /\ firstWave = Plan!FirstWaveOf(c, q)
          /\ pending = IF Plan!IsAcademicPlan(c) THEN {}
                       ELSE {Plan!Queued(Plan!NoRoute, firstWave[i]) : i \in 1..Len(firstWave)}
          /\ processed = {} /\ fallbacks = {}
    BY SameClassifications DEF PipelineInit, Plan!Init
  <2>2. \A i \in 1..Len(firstWave) : firstWave[i] \in PlanStep
    <3>1. firstWave \in Seq(PlanStep)
      BY <2>1, WaveIsGood DEF GoodSteps
    <3> HIDE DEF PlanStep
    <3> QED BY <3>1
  <2>3. \A x \in pending : x \in StepKeys
    BY <2>1, <2>2 DEF StepKeys
  <2> QED BY <2>1, <2>3 DEF KeysInv
<1>2. KeysInv /\ [PipelineNext]_allVars => KeysInv'
  <2> SUFFICES ASSUME KeysInv, [PipelineNext]_allVars PROVE KeysInv'
    OBVIOUS
  <2>1. CASE BuildPlan /\ Plan!WalkHead
    BY <2>1, WalkKeepsKeys
  <2>2. CASE BuildPlan /\ Plan!Finish
    BY <2>2 DEF Plan!Finish, KeysInv
  <2>3. CASE UNCHANGED planVars
    BY <2>3 DEF planVars, KeysInv
  <2> QED
    BY <2>1, <2>2, <2>3 DEF PipelineNext, BuildPlan, Plan!Next, Retrieve, Collapse, Rank,
                            PackStep, Shape, Stop, allVars
<1> QED BY <1>1, <1>2, PTL DEF PipelineSpec

\* Each step of the planner that does not finish the plan takes one of the step_keys it has
\* not taken yet, of which there is a fixed number.
WalkAdvances ==
    BuildPlan /\ ~ built' =>
        /\ Cardinality(processed') = Cardinality(processed) + 1
        /\ Cardinality(processed') <= Cardinality(StepKeys)

\* _build_fallback_steps cannot go round the cycle of the industry sources for ever: in
\* whatever order it takes the pending steps, its iterations are at most as many as there
\* are step_keys.
THEOREM WalkIsBounded == IsFiniteSet(StepKeys) /\ (PipelineSpec => [][WalkAdvances]_allVars)
<1>1. KeysInv /\ [PipelineNext]_allVars => [WalkAdvances]_allVars
  <2> SUFFICES ASSUME KeysInv, BuildPlan, ~ built'
               PROVE  /\ Cardinality(processed') = Cardinality(processed) + 1
                      /\ Cardinality(processed') <= Cardinality(StepKeys)
    BY DEF WalkAdvances
  <2>1. Plan!WalkHead
    BY DEF BuildPlan, Plan!Next, Plan!Finish
  <2>2. PICK head \in StepKeys \ processed : processed' = processed \cup {head}
    BY <2>1, WalkKeepsKeys
  <2>3. IsFiniteSet(processed) /\ processed' \in SUBSET StepKeys
    BY <2>2, KeysAreFinite, FS_Subset DEF KeysInv
  <2> QED BY <2>2, <2>3, KeysAreFinite, FS_AddElement, FS_Subset
<1>2. PipelineSpec => [][WalkAdvances]_allVars
  BY <1>1, KeysHold, PTL DEF PipelineSpec
<1> QED BY <1>2, KeysAreFinite

-----------------------------------------------------------------------------
(* Scores *)

\* The order of numbers, on S.
LessIn(S) == {o \in S \X S : o[1] < o[2]}

\* Max finds the greatest member.
LEMMA LastPlace ==
    ASSUME NEW S, IsFiniteSet(S), S # {}, NEW R, Orders(R, S)
    PROVE  \E x \in S : PlaceIn(S, R, x) = Cardinality(S)
<1>1. /\ Cardinality(S) \in Nat
      /\ \A i \in 1..Cardinality(S) : \E x \in S : PlaceIn(S, R, x) = i
  BY EveryPlaceIsTaken
<1>2. Cardinality(S) # 0
  BY FS_EmptySet
<1> QED BY <1>1, <1>2

\* Max finds the greatest member of finitely many numbers.
LEMMA MaxOfNats ==
    ASSUME NEW S, S \subseteq Nat, S # {}, IsFiniteSet(S)
    PROVE  Max(S) \in S
<1> DEFINE n == Cardinality(S)
<1>1. Orders(LessIn(S), S)
  BY DEF Orders, LessIn
<1>2. n \in Nat \ {0}
  BY FS_EmptySet, FS_CardinalityType
<1>3. PICK x \in S : PlaceIn(S, LessIn(S), x) = n
  BY <1>1, LastPlace
<1> DEFINE below == {y \in S : <<y, x>> \in LessIn(S)}
<1>4. Cardinality(below) = n - 1
  <2>1. IsFiniteSet(below) /\ Cardinality(below) \in Nat
    BY FS_Subset, FS_CardinalityType
  <2>2. n = 1 + Cardinality(below)
    BY <1>3 DEF PlaceIn
  <2> HIDE DEF below, n
  <2> QED BY <1>2, <2>1, <2>2
<1>5. Cardinality(S \ {x}) = n - 1 /\ IsFiniteSet(S \ {x})
  BY FS_RemoveElement
<1>6. below = S \ {x}
  <2>1. below \subseteq S \ {x}
    BY DEF LessIn
  <2> HIDE DEF below
  <2> QED BY <1>4, <1>5, <2>1, FS_Subset
<1>7. ASSUME NEW y \in S PROVE x >= y
  <2>1. x \in Nat /\ y \in Nat
    OBVIOUS
  <2>2. y = x \/ y < x
    BY <1>6 DEF LessIn
  <2> QED BY <2>1, <2>2
<1> QED BY <1>7 DEF Max

\* Min finds the least member of any numbers.
LEMMA MinOfNats ==
    ASSUME NEW S, S \subseteq Nat, S # {}
    PROVE  Min(S) \in S /\ \A k \in S : Min(S) =< k
<1>1. PICK m \in S : \A k \in S : ~ (<<k, m>> \in OpToRel(<, Nat))
  BY NatLessThanWellFounded, WFMin
<1>2. ASSUME NEW k \in S PROVE m =< k
  <2>1. k \in Nat /\ m \in Nat
    OBVIOUS
  <2>2. ~ (k < m)
    BY <1>1, <2>1 DEF OpToRel
  <2> QED BY <2>1, <2>2
<1> QED BY <1>2 DEF Min

\* The recursion SliceScores is defined by, on a set of sets.
Sums(f, D) ==
    f = [T \in D |-> IF T = {} THEN 0
                     ELSE 4 * (CHOOSE x \in T : TRUE).score + f[T \ {CHOOSE x \in T : TRUE}]]

\* A sum takes one member off at a time.
LEMMA OneLess ==
    ASSUME NEW T, IsFiniteSet(T), T # {}
    PROVE  /\ (CHOOSE x \in T : TRUE) \in T
           /\ Cardinality(T) \in Nat
           /\ Cardinality(T \ {CHOOSE x \in T : TRUE}) = Cardinality(T) - 1
BY FS_RemoveElement, FS_CardinalityType

\* The recursion has a solution: the sets of fewer than k members first, k by k.
LEMMA SumsExist ==
    ASSUME NEW S, IsFiniteSet(S)
    PROVE  \E f : Sums(f, SUBSET S)
<1> DEFINE U(k) == {T \in SUBSET S : Cardinality(T) < k}
           n == Cardinality(S) + 1
           K == {k \in Nat : \E f : Sums(f, U(k))}
<1>1. /\ Cardinality(S) \in Nat
      /\ \A T \in SUBSET S : /\ IsFiniteSet(T) /\ Cardinality(T) \in Nat
                             /\ Cardinality(T) <= Cardinality(S)
  BY FS_Subset, FS_CardinalityType
<1>2. 1 \in K
  <2> DEFINE f == [T \in U(1) |-> 0]
  <2>1. \A T \in U(1) : T = {}
    BY <1>1, FS_EmptySet
  <2>2. Sums(f, U(1))
    BY <2>1 DEF Sums
  <2> QED BY <2>2
<1>3. ASSUME NEW k \in 1..n - 1, k \in K PROVE k + 1 \in K
  <2>1. PICK f : Sums(f, U(k))
    BY <1>3
  <2> DEFINE pick(T) == CHOOSE x \in T : TRUE
             g == [T \in U(k + 1) |-> IF T = {} THEN 0 ELSE 4 * pick(T).score + f[T \ {pick(T)}]]
  <2>2. ASSUME NEW T \in U(k + 1), T # {} PROVE g[T \ {pick(T)}] = f[T \ {pick(T)}]
    <3> DEFINE t == T \ {pick(T)}
    <3>1. t \in U(k) /\ t \in U(k + 1)
      <4>1. t \in SUBSET S /\ IsFiniteSet(T) /\ Cardinality(T) < k + 1
        BY <1>1
      <4>2. Cardinality(t) = Cardinality(T) - 1 /\ Cardinality(T) \in Nat
        BY <2>2, <4>1, OneLess
      <4> QED BY <1>1, <1>3, <4>1, <4>2
    <3> HIDE DEF t
    <3>2. f[t] = IF t = {} THEN 0 ELSE 4 * pick(t).score + f[t \ {pick(t)}]
      BY <2>1, <3>1 DEF Sums
    <3>3. g[t] = IF t = {} THEN 0 ELSE 4 * pick(t).score + f[t \ {pick(t)}]
      BY <3>1
    <3> QED BY <3>2, <3>3 DEF t
  <2> DEFINE h == [T \in U(k + 1) |-> IF T = {} THEN 0 ELSE 4 * pick(T).score + g[T \ {pick(T)}]]
  <2>3. DOMAIN g = U(k + 1) /\ DOMAIN h = U(k + 1)
    OBVIOUS
  <2>4. ASSUME NEW T \in U(k + 1) PROVE g[T] = h[T]
    <3>1. CASE T = {}
      BY <3>1
    <3>2. CASE T # {}
      <4>1. g[T] = 4 * pick(T).score + f[T \ {pick(T)}]
        BY <3>2
      <4>2. h[T] = 4 * pick(T).score + g[T \ {pick(T)}]
        BY <3>2
      <4> HIDE DEF g, h
      <4> QED BY <2>2, <3>2, <4>1, <4>2
    <3> QED BY <3>1, <3>2
  <2>5. g = h
    <3> HIDE DEF h, U
    <3>1. g = [T \in U(k + 1) |-> g[T]] /\ h = [T \in U(k + 1) |-> h[T]]
      BY DEF g, h
    <3> HIDE DEF g
    <3> QED BY <2>4, <3>1
  <2>6. Sums(g, U(k + 1))
    <3> HIDE DEF g, U
    <3> QED BY <2>5 DEF Sums
  <2>7. k + 1 \in Nat
    BY <1>1, <1>3
  <2> HIDE DEF g, U
  <2> QED BY <2>6, <2>7
<1> HIDE DEF K
<1>4. n \in K
  BY <1>1, <1>2, <1>3, CountingUp
<1>5. U(n) = SUBSET S
  BY <1>1
<1> QED BY <1>4, <1>5 DEF K

\* A sum of slice scores is a number.
LEMMA SliceScoresNumber ==
    ASSUME NEW S, IsFiniteSet(S), \A s \in S : s.score \in Nat
    PROVE  SliceScores(S) \in Nat
<1>1. PICK f : Sums(f, SUBSET S) /\ SliceScores(S) = f[S]
  <2>1. SliceScores(S) = (CHOOSE f : Sums(f, SUBSET S))[S]
    BY DEF SliceScores, MapThenSumSet, MapThenFoldSet, Sums
  <2>2. Sums(CHOOSE f : Sums(f, SUBSET S), SUBSET S)
    BY SumsExist
  <2> QED BY <2>1, <2>2
<1> DEFINE n == Cardinality(S) + 1
           K == {k \in Nat : \A T \in SUBSET S : Cardinality(T) < k => f[T] \in Nat}
<1>2. /\ Cardinality(S) \in Nat
      /\ \A T \in SUBSET S : IsFiniteSet(T) /\ Cardinality(T) \in Nat
  BY FS_Subset, FS_CardinalityType
<1>3. \A T \in SUBSET S : f[T] = IF T = {} THEN 0
        ELSE 4 * (CHOOSE x \in T : TRUE).score + f[T \ {CHOOSE x \in T : TRUE}]
  BY <1>1 DEF Sums
<1>4. 1 \in K
  <2>1. \A T \in SUBSET S : Cardinality(T) < 1 => T = {}
    BY <1>2, FS_EmptySet
  <2> QED BY <1>3, <2>1
<1>5. ASSUME NEW k \in 1..n - 1, k \in K PROVE k + 1 \in K
  <2>1. SUFFICES ASSUME NEW T \in SUBSET S, Cardinality(T) < k + 1 PROVE f[T] \in Nat
    BY <1>5
  <2>2. CASE T = {}
    <3>1. f[T] = IF T = {} THEN 0
            ELSE 4 * (CHOOSE x \in T : TRUE).score + f[T \ {CHOOSE x \in T : TRUE}]
      BY <1>3, <2>1
    <3> QED BY <2>2, <3>1
  <2>3. CASE T # {}
    <3> DEFINE x == CHOOSE x \in T : TRUE
    <3>1. x \in T /\ Cardinality(T \ {x}) = Cardinality(T) - 1 /\ Cardinality(T) \in Nat
      BY <1>2, <2>3, OneLess
    <3>2. f[T] = 4 * x.score + f[T \ {x}]
      BY <1>3, <2>3
    <3> HIDE DEF x
    <3>3. T \ {x} \in SUBSET S /\ Cardinality(T \ {x}) < k
      BY <1>5, <2>1, <3>1
    <3>4. f[T \ {x}] \in Nat /\ x.score \in Nat
      BY <1>5, <3>1, <3>3
    <3> QED BY <3>2, <3>4
  <2> QED BY <2>2, <2>3
<1> HIDE DEF K
<1>6. n \in K
  BY <1>2, <1>4, <1>5, CountingUp
<1>7. f[S] \in Nat
  BY <1>2, <1>6 DEF K
<1> QED BY <1>1, <1>7

-----------------------------------------------------------------------------
(* Canonical records *)

\* The canonical records of found hits, with what their order compares.
ARecord(r) ==
    /\ r \in Records
    /\ Len(r.id) = 3
    /\ IsFiniteSet(r.slices)
    /\ r.raws[1] \in DOMAIN hits

\* _policy_priority and _academic_priority put a group's hits in order.
LEMMA PreferredHits ==
    ASSUME hits \in Seq(Hits), NEW g, IsGroup(g, Len(hits))
    PROVE  /\ Preferred(hits, g) \in Seq(Hits) /\ Len(Preferred(hits, g)) = Len(g)
           /\ \A i \in DOMAIN g :
                 \E k \in DOMAIN Preferred(hits, g) : Preferred(hits, g)[k] = hits[g[i]]
           /\ \A k \in DOMAIN Preferred(hits, g) :
                 \E i \in DOMAIN g : Preferred(hits, g)[k] = hits[g[i]]
<1> DEFINE n == Len(g)
           D == DOMAIN g
           key == [i \in D |->
                     CASE DomainOf(hits[g[1]]) = "policy" ->
                            <<-Has(hits[g[i]], "version"), -Has(hits[g[i]], "effective"),
                              -hits[g[i]].quality, i>>
                       [] DomainOf(hits[g[1]]) = "academic" ->
                            <<-hits[g[i]].quality, -Has(hits[g[i]], "doi"),
                              -Has(hits[g[i]], "arxiv"), i>>
                       [] OTHER -> <<i>>]
           order == Placed(D, PlaceByKey(D, key))
<1>1. D = 1..n /\ n \in Nat /\ \A i \in D : i \in Int /\ hits[g[i]] \in Hits
  BY GroupFacts, LenProperties, ElementOfSeq
<1>2. IsFiniteSet(D)
  <2>1. IsFiniteSet(1..n)
    BY <1>1, FS_Interval
  <2> QED BY <1>1, <2>1
<1>3. \A i \in D : /\ -hits[g[i]].quality \in Int
                   /\ \A kind : -Has(hits[g[i]], kind) \in Int
  BY <1>1 DEF Hits, Has
<1> DEFINE width == IF DomainOf(hits[g[1]]) \in {"policy", "academic"} THEN 4 ELSE 1
<1>4. Keyed(D, key, width)
  <2>1. CASE DomainOf(hits[g[1]]) = "policy"
    <3>1. \A i \in D : key[i] = <<-Has(hits[g[i]], "version"), -Has(hits[g[i]], "effective"),
                                  -hits[g[i]].quality, i>>
      BY <2>1
    <3> HIDE DEF key
    <3>2. \A i \in D : \E a, b, c \in Int : key[i] = <<a, b, c, i>>
      BY <1>3, <3>1
    <3>3. D \subseteq Int
      BY <1>1
    <3> HIDE DEF D
    <3>4. Keyed(D, key, 4)
      BY <3>2, <3>3, KeyedFour
    <3> QED BY <2>1, <3>4
  <2>2. CASE DomainOf(hits[g[1]]) = "academic"
    <3>1. \A i \in D : key[i] = <<-hits[g[i]].quality, -Has(hits[g[i]], "doi"),
                                  -Has(hits[g[i]], "arxiv"), i>>
      BY <2>2
    <3> HIDE DEF key
    <3>2. \A i \in D : \E a, b, c \in Int : key[i] = <<a, b, c, i>>
      BY <1>3, <3>1
    <3>3. D \subseteq Int
      BY <1>1
    <3> HIDE DEF D
    <3>4. Keyed(D, key, 4)
      BY <3>2, <3>3, KeyedFour
    <3> QED BY <2>2, <3>4
  <2>3. CASE DomainOf(hits[g[1]]) \notin {"policy", "academic"}
    <3>1. \A i \in D : key[i] = <<i>>
      BY <2>3
    <3>2. D \subseteq Int
      BY <1>1
    <3> HIDE DEF key, D
    <3>3. Keyed(D, key, 1)
      BY <3>1, <3>2, KeyedOne
    <3> QED BY <2>3, <3>3
  <2> QED BY <2>1, <2>2, <2>3
<1>5. Preferred(hits, g) = [i \in DOMAIN order |-> hits[g[order[i]]]]
  BY DEF Preferred, SortedBy, Placed, PlaceByKey
<1> HIDE DEF key
<1>6. Lists(order, D) /\ Len(order) = Cardinality(D)
  <2>1. width \in Nat
    OBVIOUS
  <2> HIDE DEF width
  <2> QED BY <1>2, <1>4, <2>1, SortedByKeys
<1> HIDE DEF order
<1>10. Cardinality(D) = n
  <2>1. n \in Nat /\ D = 1..n
    BY <1>1
  <2> HIDE DEF n, D
  <2>2. Cardinality(1..n) = n
    BY <2>1, FS_Interval
  <2> QED BY <2>1, <2>2
<1> HIDE DEF D
<1>7. /\ DOMAIN order = 1..n
      /\ \A i \in 1..n : order[i] \in D
      /\ \A x \in D : \E i \in 1..n : order[i] = x
  BY <1>6, <1>10, LenProperties, ElementOfSeq DEF Lists, PlacesOf
<1>8. Preferred(hits, g) = [i \in 1..n |-> hits[g[order[i]]]]
  BY <1>5, <1>7
<1> DEFINE best == Preferred(hits, g)
<1>9. best \in Seq(Hits) /\ Len(best) = n /\ DOMAIN best = 1..n
  <2>1. best = [i \in 1..n |-> best[i]] /\ \A i \in 1..n : best[i] \in Hits
    BY <1>1, <1>7, <1>8
  <2> HIDE DEF best, n
  <2> QED BY <1>1, <2>1, MadeOf
<1>11. \A k \in 1..n : best[k] = hits[g[order[k]]]
  BY <1>8
<1> HIDE DEF best
<1>12. \A i \in D : \E k \in 1..n : best[k] = hits[g[i]]
  BY <1>7, <1>11
<1>13. \A k \in 1..n : \E i \in D : best[k] = hits[g[i]]
  BY <1>7, <1>11
<1> QED BY <1>9, <1>12, <1>13 DEF best, D

\* retained_slices
LEMMA RetainedAreSlices ==
    ASSUME hits \in Seq(Hits), NEW g, IsGroup(g, Len(hits))
    PROVE  RetainedSlices(hits, g) \in SUBSET Slices /\ IsFiniteSet(RetainedSlices(hits, g))
<1> DEFINE best == Preferred(hits, g)
           new == {i \in DOMAIN best : /\ best[i].text # 0
                                       /\ \A j \in 1..i - 1 : best[j].text # best[i].text}
           place(i) == Cardinality({j \in new : j <= i})
           T == {j \in new : place(j) <= MaxSlices}
           slice(i) == [text |-> best[i].text, score |-> IF place(i) = 1 THEN 3 ELSE 1,
                        bonus |-> best[i].bonus, tokens |-> best[i].tokens,
                        match |-> best[i].match]
           f == [i \in T |-> slice(i)]
<1>1. RetainedSlices(hits, g) = {slice(i) : i \in T}
  BY DEF RetainedSlices
<1>2. \A i \in T : best[i] \in Hits
  BY PreferredHits, LenProperties, ElementOfSeq
<1>3. IsFiniteSet(T)
  <2>1. IsFiniteSet(DOMAIN best)
    <3>1. best \in Seq(Hits)
      BY PreferredHits
    <3> HIDE DEF best
    <3>2. DOMAIN best = 1..Len(best) /\ Len(best) \in Nat
      BY <3>1, LenProperties
    <3>3. IsFiniteSet(1..Len(best))
      BY <3>2, FS_Interval
    <3> QED BY <3>2, <3>3
  <2> QED BY <2>1, FS_Subset
<1>4. \A i \in T : slice(i) \in Slices
  <2> TAKE i \in T
  <2>1. best[i] \in Hits
    BY <1>2
  <2> HIDE DEF best, place
  <2> QED BY <2>1 DEF Hits, Slices
<1> HIDE DEF slice, T
<1>5. f \in [T -> RetainedSlices(hits, g)] /\ f \in Surjection(T, RetainedSlices(hits, g))
  BY <1>1 DEF Surjection
<1>6. IsFiniteSet(RetainedSlices(hits, g))
  <2> HIDE DEF f
  <2> QED BY <1>3, <1>5, FS_Surjection
<1> QED BY <1>1, <1>4, <1>6

\* The first of some places.
LEMMA MinOfPlaces ==
    ASSUME NEW n, NEW P, P \subseteq 1..n, P # {}
    PROVE  Min(P) \in P
<1>1. P \subseteq Nat
  OBVIOUS
<1> QED BY <1>1, MinOfNats

\* The first kind of identifier that one of the marks has.
LEMMA KindFound ==
    ASSUME NEW domain, NEW marks,
           domain = "policy" => \E m \in marks : m.kind \in {"version", "published", "effective"},
           domain # "policy" => \E m \in marks : m.kind \in {"doi", "arxiv", "heuristic", "source"}
    PROVE  /\ \E m \in marks : m.kind = IdKind(domain, marks)
           /\ domain = "policy" => IdKind(domain, marks) \in {"version", "published", "effective"}
           /\ domain # "policy" => IdKind(domain, marks) \in {"doi", "arxiv", "heuristic", "source"}
<1> DEFINE kinds == IF domain = "policy" THEN <<"version", "published", "effective">>
                    ELSE <<"doi", "arxiv", "heuristic", "source">>
           found == {i \in DOMAIN kinds : \E m \in marks : m.kind = kinds[i]}
<1>1. IdKind(domain, marks) = kinds[Min(found)]
  BY DEF IdKind
<1>2. CASE domain = "policy"
  <2>1. /\ DOMAIN kinds = 1..3
        /\ kinds[1] = "version" /\ kinds[2] = "published" /\ kinds[3] = "effective"
    BY <1>2
  <2> HIDE DEF kinds
  <2>2. found \subseteq 1..3 /\ found # {}
    BY <1>2, <2>1
  <2> HIDE DEF found
  <2>3. Min(found) \in found
    BY <2>2, MinOfPlaces
  <2> QED BY <1>1, <1>2, <2>1, <2>2, <2>3 DEF found
<1>3. CASE domain # "policy"
  <2>1. /\ DOMAIN kinds = 1..4
        /\ kinds[1] = "doi" /\ kinds[2] = "arxiv" /\ kinds[3] = "heuristic" /\ kinds[4] = "source"
    BY <1>3
  <2> HIDE DEF kinds
  <2>2. found \subseteq 1..4 /\ found # {}
    BY <1>3, <2>1
  <2> HIDE DEF found
  <2>3. Min(found) \in found
    BY <2>2, MinOfPlaces
  <2> QED BY <1>1, <1>3, <2>1, <2>2, <2>3 DEF found
<1> QED BY <1>2, <1>3

\* The hits of a group that is kept are of one domain, and accepted.
LEMMA PreferredDomain ==
    ASSUME hits \in Seq(Hits), NEW g, IsGroup(g, Len(hits)),
           \A p \in PlacesOf(g) : Accepted(hits[p])
    PROVE  \A k \in DOMAIN Preferred(hits, g) :
              /\ Preferred(hits, g)[k] \in Hits
              /\ Accepted(Preferred(hits, g)[k])
              /\ DomainOf(Preferred(hits, g)[k]) = DomainOf(hits[g[1]])
<1> TAKE k \in DOMAIN Preferred(hits, g)
<1>1. PICK i \in DOMAIN g : Preferred(hits, g)[k] = hits[g[i]]
  BY PreferredHits
<1>2. g[i] \in PlacesOf(g) /\ g[i] \in 1..Len(hits)
  BY LenProperties, GroupFacts
<1>3. hits[g[i]] \in Hits
  BY <1>2, ElementOfSeq
<1> QED BY <1>1, <1>2, <1>3 DEF IsGroup

\* evidence_id: three numbers.
LEMMA IdOfGroup ==
    ASSUME hits \in Seq(Hits), NEW g, IsGroup(g, Len(hits)),
           \A p \in PlacesOf(g) : Accepted(hits[p])
    PROVE  EvidenceId(hits, g) \in Seq(Nat) /\ Len(EvidenceId(hits, g)) = 3
<1> DEFINE best == Preferred(hits, g)
           domain == DomainOf(best[1])
           marks == IF domain = "academic" THEN GroupAliases(hits, g)
                    ELSE UNION {best[i].marks : i \in DOMAIN best}
           kind == IdKind(domain, marks)
           first == best[Min({i \in DOMAIN best : Of(best[i], {kind}) # {}})]
           id == EvidenceId(hits, g)
<1>1. id = CASE domain = "academic" ->
                  <<0, CHOOSE i \in 1..4 : <<"arxiv", "doi", "heuristic", "source">>[i] = kind,
                    Min({m.value : m \in {n \in marks : n.kind = kind}})>>
             [] domain = "industry" -> <<1, hits[g[1]].name, hits[g[1]].url>>
             [] OTHER -> <<2, best[1].name, (CHOOSE m \in Of(first, {kind}) : TRUE).value>>
  BY DEF EvidenceId
<1>2. /\ DOMAIN best = 1..Len(g) /\ Len(g) \in Nat \ {0} /\ 1 \in DOMAIN best
      /\ \A k \in DOMAIN best : /\ best[k] \in Hits /\ Accepted(best[k])
                                /\ DomainOf(best[k]) = DomainOf(hits[g[1]])
  <2>1. best \in Seq(Hits) /\ Len(best) = Len(g)
    BY PreferredHits
  <2>2. Len(g) \in Nat \ {0}
    BY LenProperties, GroupFacts
  <2>3. DOMAIN best = 1..Len(best)
    BY <2>1, LenProperties
  <2> QED BY <2>1, <2>2, <2>3, PreferredDomain
<1>3. hits[g[1]] \in Hits
  BY LenProperties, GroupFacts, ElementOfSeq
<1>4. domain = DomainOf(hits[g[1]]) /\ domain \in {"policy", "academic", "industry"}
  BY <1>2 DEF DomainOf
<1>5. ASSUME NEW a \in Nat, NEW b \in Nat, NEW c \in Nat, id = <<a, b, c>>
      PROVE  id \in Seq(Nat) /\ Len(id) = 3
  BY <1>5
<1>6. CASE domain = "academic"
  <2>1. \A m \in marks : m.kind \in {"doi", "arxiv", "heuristic", "source"} /\ m.value \in Nat
    <3>1. \A m \in marks : \E i \in DOMAIN g : m \in Aliases(hits[g[i]])
      BY <1>6 DEF GroupAliases
    <3>2. \A i \in DOMAIN g : hits[g[i]] \in Hits
      BY LenProperties, GroupFacts, ElementOfSeq
    <3>3. \A h \in Hits : \A m \in Aliases(h) : m.kind \in {"doi", "arxiv", "heuristic", "source"}
                                                /\ m.value \in Nat
      BY DEF Aliases, Of, Hits
    <3> QED BY <3>1, <3>2, <3>3
  <2>2. marks # {}
    <3>1. \A h : Aliases(h) # {}
      BY DEF Aliases
    <3>2. 1 \in DOMAIN g
      BY LenProperties, GroupFacts
    <3> QED BY <1>6, <3>1, <3>2 DEF GroupAliases
  <2> HIDE DEF marks
  <2>3. (\E m \in marks : m.kind = kind) /\ kind \in {"doi", "arxiv", "heuristic", "source"}
    BY <1>6, <2>1, <2>2, KindFound
  <2> HIDE DEF kind, domain
  <2> DEFINE values == {m.value : m \in {n \in marks : n.kind = kind}}
             word == CHOOSE i \in 1..4 : <<"arxiv", "doi", "heuristic", "source">>[i] = kind
  <2>4. values \subseteq Nat /\ values # {}
    BY <2>1, <2>3
  <2>5. word \in 1..4
    <3>1. \E i \in 1..4 : <<"arxiv", "doi", "heuristic", "source">>[i] = kind
      <4>1. /\ <<"arxiv", "doi", "heuristic", "source">>[1] = "arxiv"
            /\ <<"arxiv", "doi", "heuristic", "source">>[2] = "doi"
            /\ <<"arxiv", "doi", "heuristic", "source">>[3] = "heuristic"
            /\ <<"arxiv", "doi", "heuristic", "source">>[4] = "source"
        OBVIOUS
      <4>2. 1 \in 1..4 /\ 2 \in 1..4 /\ 3 \in 1..4 /\ 4 \in 1..4
        OBVIOUS
      <4> QED BY <2>3, <4>1, <4>2
    <3> QED BY <3>1
  <2>6. id = <<0, word, Min(values)>>
    BY <1>1, <1>6
  <2> HIDE DEF values, word
  <2>7. Min(values) \in Nat
    BY <2>4, MinOfNats
  <2> QED BY <1>5, <2>5, <2>6, <2>7
<1>7. CASE domain = "industry"
  <2>1. id = <<1, hits[g[1]].name, hits[g[1]].url>>
    BY <1>1, <1>7
  <2>2. hits[g[1]].name \in Nat /\ hits[g[1]].url \in Nat
    BY <1>3 DEF Hits
  <2> QED BY <1>5, <2>1, <2>2
<1>8. CASE domain = "policy"
  <2>1. \A k \in DOMAIN best : Of(best[k], {"published", "effective"}) # {}
    BY <1>2, <1>4, <1>8 DEF Accepted, Dated
  <2>2. marks = UNION {best[i].marks : i \in DOMAIN best}
    BY <1>8
  <2> HIDE DEF best, marks
  <2>3. \E m \in marks : m.kind \in {"version", "published", "effective"}
    BY <1>2, <2>1, <2>2 DEF Of
  <2>4. \E m \in marks : m.kind = kind
    BY <1>8, <2>3, KindFound
  <2> HIDE DEF kind, domain
  <2> DEFINE P == {i \in DOMAIN best : Of(best[i], {kind}) # {}}
  <2>5. P \subseteq 1..Len(g) /\ P # {}
    BY <1>2, <2>2, <2>4 DEF Of
  <2> HIDE DEF P
  <2>6. Min(P) \in P
    BY <2>5, MinOfPlaces
  <2>7. first \in Hits /\ Of(first, {kind}) # {}
    BY <1>2, <2>6 DEF P
  <2> HIDE DEF first
  <2>8. (CHOOSE m \in Of(first, {kind}) : TRUE).value \in Nat
    <3>1. \A m \in Of(first, {kind}) : m.value \in Nat
      BY <2>7 DEF Of, Hits
    <3> QED BY <2>7, <3>1
  <2>9. best[1].name \in Nat
    BY <1>2 DEF Hits
  <2>10. id = <<2, best[1].name, (CHOOSE m \in Of(first, {kind}) : TRUE).value>>
    BY <1>1, <1>8
  <2> QED BY <1>5, <2>8, <2>9, <2>10
<1> QED BY <1>4, <1>6, <1>7, <1>8

\* score_evidence_records and what it scores.
LEMMA CanonicalIsRecord ==
    ASSUME hits \in Seq(Hits), NEW role, NEW g, IsGroup(g, Len(hits)),
           \A p \in PlacesOf(g) : Accepted(hits[p])
    PROVE  ARecord(CanonicalRecord(hits, role, g))
<1> DEFINE r == CanonicalRecord(hits, role, g)
           worths == {hits[g[i]].worth : i \in DOMAIN g}
<1>1. r = [id |-> EvidenceId(hits, g),
           role |-> IF \E i \in DOMAIN g : role[g[i]] = "primary" THEN "primary"
                    ELSE "supplemental",
           worth |-> Max(worths), slices |-> RetainedSlices(hits, g), raws |-> g]
  BY DEF CanonicalRecord
<1>2. Len(hits) \in Nat /\ DOMAIN hits = 1..Len(hits)
  BY LenProperties
<1>3. /\ DOMAIN g = 1..Len(g) /\ Len(g) \in Nat \ {0} /\ 1 \in DOMAIN g
      /\ \A i \in DOMAIN g : g[i] \in 1..Len(hits) /\ hits[g[i]] \in Hits
  BY <1>2, GroupFacts, ElementOfSeq
<1>4. Max(worths) \in Nat
  <2>1. worths \subseteq Nat /\ worths # {}
    <3>1. \A h \in Hits : h.worth \in Nat
      BY DEF Hits
    <3> QED BY <1>3, <3>1
  <2>2. IsFiniteSet(worths)
    <3> DEFINE f == [i \in DOMAIN g |-> hits[g[i]].worth]
    <3>1. f \in Surjection(DOMAIN g, worths)
      BY DEF Surjection
    <3>2. IsFiniteSet(1..Len(g))
      BY <1>3, FS_Interval
    <3>3. IsFiniteSet(DOMAIN g)
      BY <1>3, <3>2
    <3> HIDE DEF f, worths
    <3> QED BY <3>1, <3>3, FS_Surjection
  <2> HIDE DEF worths
  <2> QED BY <2>1, <2>2, MaxOfNats
<1>5. g \in Seq(Nat)
  <2>1. g \in Seq(PlacesOf(g)) /\ PlacesOf(g) \subseteq Nat
    BY <1>2 DEF IsGroup, Lists
  <2> QED BY <2>1, SeqMonotonic
<1> HIDE DEF worths, r
<1>6. r \in Records
  BY <1>1, <1>4, <1>5, IdOfGroup, RetainedAreSlices DEF Records
<1>7. Len(r.id) = 3 /\ IsFiniteSet(r.slices) /\ r.raws[1] \in DOMAIN hits
  BY <1>1, <1>2, <1>3, IdOfGroup, RetainedAreSlices
<1> QED BY <1>6, <1>7 DEF ARecord, r

-----------------------------------------------------------------------------
(* The order of records *)

\* No two records have their first hit in common.
Apart(S) == \A r, q \in S : r # q => r.raws[1] # q.raws[1]

\* The key of a record: two numbers, its evidence_id, its first hit.
IsKey(k, a, b, id, c) ==
    /\ a \in Int /\ b \in Int /\ c \in Int /\ id \in Seq(Nat) /\ Len(id) = 3
    /\ k = <<a, b>> \o id \o <<c>>

\* Such a key is six numbers, the last of them the first hit of the record.
LEMMA KeyOfSix ==
    ASSUME NEW a, NEW b, NEW id, NEW c, NEW k, IsKey(k, a, b, id, c)
    PROVE  DOMAIN k = 1..6 /\ (\A i \in 1..6 : k[i] \in Int) /\ k[6] = c
<1> USE DEF IsKey
<1> DEFINE p == <<a, b>>
           t == <<c>>
           s == p \o id
<1>1. p \in Seq(Int) /\ Len(p) = 2
  OBVIOUS
<1>2. t \in Seq(Int) /\ Len(t) = 1 /\ t[1] = c
  OBVIOUS
<1>13. k = s \o t
  OBVIOUS
<1> HIDE DEF p, t
<1>3. s \in Seq(Int) /\ Len(s) = 5
  <2>1. id \in Seq(Int)
    OBVIOUS
  <2>2. p \o id \in Seq(Int) /\ Len(p \o id) = Len(p) + Len(id)
    BY <1>1, <2>1, ConcatProperties
  <2> QED BY <1>1, <2>2
<1> HIDE DEF s
<1>4. k = s \o t
  BY <1>13
<1>5. /\ s \o t \in Seq(Int) /\ Len(s \o t) = Len(s) + Len(t)
      /\ \A i \in 1..Len(s) + Len(t) :
            (s \o t)[i] = IF i <= Len(s) THEN s[i] ELSE t[i - Len(s)]
  BY <1>2, <1>3, ConcatProperties
<1>6. k \in Seq(Int) /\ Len(k) = 6
  BY <1>2, <1>3, <1>4, <1>5
<1>7. k[6] = t[6 - Len(s)]
  <2>1. 6 \in 1..Len(s) + Len(t) /\ ~ (6 <= Len(s))
    BY <1>2, <1>3
  <2> QED BY <1>4, <1>5, <2>1
<1>8. 6 - Len(s) = 1
  BY <1>3
<1>9. k[6] = c
  BY <1>2, <1>7, <1>8
<1>10. DOMAIN k = 1..6
  BY <1>6, LenProperties
<1>11. \A i \in 1..6 : k[i] \in Int
  BY <1>6, ElementOfSeq
<1> QED BY <1>9, <1>10, <1>11

\* What a record is compared by are numbers.
LEMMA KeyParts ==
    ASSUME hits \in Seq(Hits), NEW r, ARecord(r)
    PROVE  /\ -MatchOf(r) \in Int /\ Tier(r) \in Int /\ -Score(r, r.slices) \in Int
           /\ r.id \in Seq(Nat) /\ Len(r.id) = 3 /\ r.raws[1] \in Int
<1>1. /\ r.id \in Seq(Nat) /\ r.role \in {"primary", "supplemental"} /\ r.worth \in Nat
      /\ r.slices \in SUBSET Slices
  BY DEF ARecord, Records
<1>2. r.raws[1] \in Int /\ hits[r.raws[1]] \in Hits
  BY LenProperties, ElementOfSeq DEF ARecord
<1>3. MatchOf(r) \in Nat
  <2> DEFINE S == {s.match : s \in r.slices}
             f == [s \in r.slices |-> s.match]
  <2>1. f \in Surjection(r.slices, S)
    BY DEF Surjection
  <2>2. S \subseteq Nat
    BY <1>1 DEF Slices
  <2>3. IsFiniteSet(r.slices)
    BY DEF ARecord
  <2> HIDE DEF S, f
  <2>4. IsFiniteSet(S)
    BY <2>1, <2>3, FS_Surjection
  <2>5. IsFiniteSet({0} \cup S) /\ {0} \cup S \subseteq Nat /\ {0} \cup S # {}
    BY <2>2, <2>4, FS_AddElement
  <2>6. Max({0} \cup S) \in Nat
    BY <2>5, MaxOfNats
  <2> QED BY <2>6 DEF MatchOf, S
<1>4. Score(r, r.slices) \in Nat
  <2>1. SliceScores(r.slices) \in Nat
    BY <1>1, SliceScoresNumber DEF ARecord, Slices
  <2> QED BY <1>1, <2>1 DEF Score, RoleScore
<1>5. Tier(r) \in Nat
  BY <1>2 DEF Tier, Hits
<1> QED BY <1>1, <1>2, <1>3, <1>4, <1>5 DEF ARecord

\* So the keys of records apart are different tuples of numbers.
LEMMA RecordsKeyed ==
    ASSUME hits \in Seq(Hits), NEW S, \A r \in S : ARecord(r), Apart(S),
           NEW key, key = [r \in S |-> ResponseKey(r)]
    PROVE  Keyed(S, key, 6)
<1>1. ASSUME NEW r \in S
      PROVE  /\ DOMAIN key[r] = 1..6 /\ key[r][6] = r.raws[1]
             /\ \A i \in 1..6 : key[r][i] \in Int
  <2>1. ARecord(r)
    OBVIOUS
  <2>2. PICK a \in Int, b \in Int : key[r] = <<a, b>> \o r.id \o <<r.raws[1]>>
    BY <2>1, KeyParts DEF ResponseKey
  <2>3. r.id \in Seq(Nat) /\ Len(r.id) = 3 /\ r.raws[1] \in Int
    BY <2>1, KeyParts
  <2>4. IsKey(key[r], a, b, r.id, r.raws[1])
    BY <2>2, <2>3 DEF IsKey
  <2> QED BY <2>4, KeyOfSix
<1> QED BY <1>1 DEF Keyed, Apart

\* sorted() of records, by their keys.
LEMMA SortedRecords ==
    ASSUME hits \in Seq(Hits), NEW S, IsFiniteSet(S), \A r \in S : ARecord(r), Apart(S)
    PROVE  Lists(SortedBy(S, ResponseKey), S)
<1> DEFINE key == [r \in S |-> ResponseKey(r)]
<1>1. SortedBy(S, ResponseKey) = Placed(S, PlaceByKey(S, key))
  BY DEF SortedBy, Placed, PlaceByKey
<1>2. Keyed(S, key, 6)
  BY RecordsKeyed
<1> HIDE DEF key
<1> QED BY <1>1, <1>2, SortedByKeys

\* Without its first member a list has the others.
LEMMA TailLists ==
    ASSUME NEW S, NEW s, Lists(s, S), s # << >>
    PROVE  s[1] \in S /\ Lists(Tail(s), S \ {s[1]})
<1>1. s \in Seq(S) /\ Len(s) \in Nat \ {0} /\ DOMAIN s = 1..Len(s)
  BY EmptySeq, LenProperties DEF Lists
<1> DEFINE t == Tail(s)
<1>2. t \in Seq(S) /\ Len(t) = Len(s) - 1 /\ (\A i \in 1..Len(t) : t[i] = s[i + 1])
      /\ DOMAIN t = 1..Len(t)
  BY <1>1, HeadTailProperties, LenProperties
<1> HIDE DEF t
<1>3. s[1] \in S
  BY <1>1, ElementOfSeq
<1>4. \A i \in 1..Len(t) : t[i] \in S \ {s[1]}
  <2> TAKE i \in 1..Len(t)
  <2>1. i + 1 \in 1..Len(s) /\ 1 \in 1..Len(s) /\ i + 1 # 1 /\ t[i] = s[i + 1]
    BY <1>1, <1>2
  <2>2. s[i + 1] \in S
    BY <1>1, <2>1, ElementOfSeq
  <2> QED BY <1>1, <2>1, <2>2 DEF Lists
<1>5. t \in Seq(S \ {s[1]})
  BY <1>1, <1>2, <1>4
<1>6. S \ {s[1]} \subseteq PlacesOf(t)
  <2> SUFFICES ASSUME NEW x \in S, x # s[1] PROVE x \in PlacesOf(t)
    OBVIOUS
  <2>1. PICK i \in 1..Len(s) : s[i] = x
    BY <1>1 DEF Lists, PlacesOf
  <2>2. PICK j \in 1..Len(t) : j + 1 = i
    <3>1. i - 1 \in 1..Len(t) /\ (i - 1) + 1 = i
      BY <1>1, <1>2, <2>1
    <3> QED BY <3>1
  <2> QED BY <1>2, <2>1, <2>2 DEF PlacesOf
<1>7. \A i, j \in DOMAIN t : t[i] = t[j] => i = j
  <2> TAKE i, j \in DOMAIN t
  <2>1. i + 1 \in DOMAIN s /\ j + 1 \in DOMAIN s /\ t[i] = s[i + 1] /\ t[j] = s[j + 1]
        /\ i \in Nat /\ j \in Nat
    BY <1>1, <1>2
  <2>2. t[i] = t[j] => i + 1 = j + 1
    BY <2>1 DEF Lists
  <2> QED BY <2>1, <2>2
<1>8. PlacesOf(t) = S \ {s[1]}
  BY <1>2, <1>4, <1>6 DEF PlacesOf
<1> QED BY <1>3, <1>5, <1>7, <1>8 DEF Lists, t

\* _order_records_for_response, and _interleave_mixed_records for a mix.
LEMMA OrderedRecords ==
    ASSUME hits \in Seq(Hits), NEW S, IsFiniteSet(S), \A r \in S : ARecord(r), Apart(S)
    PROVE  Lists(Ordered(S), S)
<1> DEFINE A(role) == {r \in S : r.role = role}
           p == SortedBy(A("primary"), ResponseKey)
           s == SortedBy(A("supplemental"), ResponseKey)
<1>1. CASE ~ IsMix
  BY <1>1, SortedRecords DEF Ordered
<1>2. CASE IsMix
  <2>1. Ordered(S) = InterleaveMixed(p, s)
    BY <1>2 DEF Ordered
  <2>2. \A role : Lists(SortedBy(A(role), ResponseKey), A(role))
    <3> TAKE role
    <3>1. IsFiniteSet(A(role)) /\ (\A r \in A(role) : ARecord(r)) /\ Apart(A(role))
      BY FS_Subset DEF Apart
    <3> HIDE DEF A
    <3> QED BY <3>1, SortedRecords
  <2> DEFINE P == A("primary")
             Q == A("supplemental")
  <2>3. P \cap Q = {} /\ P \cup Q = S
    <3>1. \A r \in S : r.role \in {"primary", "supplemental"}
      BY DEF ARecord, Records
    <3> QED BY <3>1
  <2>4. Lists(p, P) /\ Lists(s, Q)
    BY <2>2
  <2> HIDE DEF p, s, P, Q, A
  <2>5. CASE p = << >> \/ s = << >>
    <3>1. Lists(p \o s, P \cup Q)
      BY <2>3, <2>4, ConcatLists
    <3> QED BY <2>1, <2>3, <2>5, <3>1 DEF InterleaveMixed
  <2>6. CASE p # << >> /\ s # << >>
    <3>1. p[1] \in P /\ Lists(Tail(p), P \ {p[1]}) /\ s[1] \in Q /\ Lists(Tail(s), Q \ {s[1]})
      BY <2>4, <2>6, TailLists
    <3>2. Lists(<<p[1], s[1]>>, {p[1], s[1]})
      <4>1. p[1] # s[1]
        BY <2>3, <3>1
      <4> QED BY <4>1 DEF Lists, PlacesOf
    <3>3. Lists(<<p[1], s[1]>> \o Tail(p), {p[1], s[1]} \cup (P \ {p[1]}))
      <4>1. {p[1], s[1]} \cap (P \ {p[1]}) = {}
        BY <2>3, <3>1
      <4> QED BY <3>1, <3>2, <4>1, ConcatLists
    <3>4. Lists((<<p[1], s[1]>> \o Tail(p)) \o Tail(s),
                ({p[1], s[1]} \cup (P \ {p[1]})) \cup (Q \ {s[1]}))
      <4>1. ({p[1], s[1]} \cup (P \ {p[1]})) \cap (Q \ {s[1]}) = {}
        BY <2>3, <3>1
      <4> QED BY <3>1, <3>3, <4>1, ConcatLists
    <3>5. ({p[1], s[1]} \cup (P \ {p[1]})) \cup (Q \ {s[1]}) = S
      BY <2>3, <3>1
    <3> QED BY <2>1, <2>6, <3>4, <3>5 DEF InterleaveMixed
  <2> QED BY <2>5, <2>6
<1> QED BY <1>1, <1>2

-----------------------------------------------------------------------------
(* Ranked records *)

\* Some members of S, each once.
ListsSome(s, S) == \E T \in SUBSET S : Lists(s, T)

\* Such a list has no member twice.
LEMMA ListsSomeFacts ==
    ASSUME NEW S, NEW s, ListsSome(s, S)
    PROVE  /\ s \in Seq(S) /\ Len(s) \in Nat /\ DOMAIN s = 1..Len(s)
           /\ \A i, j \in DOMAIN s : s[i] = s[j] => i = j
<1>1. PICK T \in SUBSET S : Lists(s, T)
  BY DEF ListsSome
<1>2. s \in Seq(S)
  BY <1>1, SeqMonotonic DEF Lists
<1> QED BY <1>1, <1>2, LenProperties DEF Lists

\* A list without repetition, made place by place.
LEMMA SomeListed ==
    ASSUME NEW S, NEW n \in Nat, NEW s, s = [i \in 1..n |-> s[i]], \A i \in 1..n : s[i] \in S,
           \A i, j \in 1..n : s[i] = s[j] => i = j
    PROVE  ListsSome(s, S)
<1>1. s \in Seq(PlacesOf(s)) /\ DOMAIN s = 1..n
  BY ListMade
<1>2. PlacesOf(s) \in SUBSET S
  BY <1>1 DEF PlacesOf
<1> QED BY <1>1, <1>2 DEF ListsSome, Lists

\* Keeping the first record of each evidence_id makes no record up and repeats none.
LEMMA DistinctLists ==
    ASSUME NEW S, NEW list, Lists(list, S)
    PROVE  ListsSome(Distinct(list), S)
<1> DEFINE new == {i \in DOMAIN list : \A j \in 1..i - 1 : list[j].id # list[i].id}
           key == [i \in new |-> <<i>>]
           place == Placed(new, PlaceByKey(new, key))
           d == Distinct(list)
<1>1. list \in Seq(S) /\ Len(list) \in Nat /\ DOMAIN list = 1..Len(list)
  BY LenProperties DEF Lists
<1>2. new \subseteq 1..Len(list) /\ new \subseteq Int /\ IsFiniteSet(new)
  <2>1. new \subseteq 1..Len(list) /\ new \subseteq Int
    BY <1>1
  <2>2. IsFiniteSet(1..Len(list))
    BY <1>1, FS_Interval
  <2> HIDE DEF new
  <2> QED BY <2>1, <2>2, FS_Subset
<1>3. d = [i \in DOMAIN place |-> list[place[i]]]
  BY DEF Distinct, SortedBy, Placed, PlaceByKey
<1> HIDE DEF new, d
<1>4. Keyed(new, key, 1)
  BY <1>2, KeyedOne
<1> HIDE DEF key
<1>5. Lists(place, new) /\ Len(place) = Cardinality(new)
  BY <1>2, <1>4, SortedByKeys
<1> HIDE DEF place
<1>6. Len(place) \in Nat /\ DOMAIN place = 1..Len(place)
      /\ (\A i \in 1..Len(place) : place[i] \in 1..Len(list))
      /\ \A i, j \in 1..Len(place) : place[i] = place[j] => i = j
  <2>1. place \in Seq(new) /\ \A i, j \in DOMAIN place : place[i] = place[j] => i = j
    BY <1>5 DEF Lists
  <2>2. Len(place) \in Nat /\ DOMAIN place = 1..Len(place)
    BY <2>1, LenProperties
  <2>3. \A i \in 1..Len(place) : place[i] \in new
    BY <2>1, ElementOfSeq
  <2> QED BY <1>2, <2>1, <2>2, <2>3
<1>7. d = [i \in 1..Len(place) |-> list[place[i]]]
  BY <1>3, <1>6
<1>8. d = [i \in 1..Len(place) |-> d[i]] /\ \A i \in 1..Len(place) : d[i] = list[place[i]]
  BY <1>7
<1>9. \A i \in 1..Len(place) : d[i] \in S
  BY <1>1, <1>6, <1>8, ElementOfSeq
<1>10. \A i, j \in 1..Len(place) : d[i] = d[j] => i = j
  BY <1>1, <1>6, <1>8 DEF Lists
<1>11. ListsSome(d, S)
  BY <1>6, <1>8, <1>9, <1>10, SomeListed
<1> QED BY <1>11 DEF d

\* _seed_mixed_coverage_records ranks no record twice and none that is not there.
LEMMA SeededLists ==
    ASSUME NEW S, NEW list, Lists(list, S)
    PROVE  ListsSome(SeedMixedCoverage(list), S)
<1> DEFINE d == Distinct(list)
           m == AtMost(TopK, Len(d))
           cut == SubSeq(d, 1, m)
<1>1. ListsSome(d, S)
  BY DistinctLists
<1> HIDE DEF d
<1>2. /\ d \in Seq(S) /\ Len(d) \in Nat /\ DOMAIN d = 1..Len(d)
      /\ \A i, j \in DOMAIN d : d[i] = d[j] => i = j
  BY <1>1, ListsSomeFacts
<1>3. m \in Nat /\ m <= Len(d)
  BY <1>2, PackConstants DEF AtMost
<1> HIDE DEF m
<1>4. cut = [i \in 1..m |-> d[i]]
  BY <1>2, <1>3
<1> HIDE DEF cut
<1>5. cut = [i \in 1..m |-> cut[i]] /\ \A i \in 1..m : cut[i] = d[i] /\ i \in 1..Len(d)
  BY <1>3, <1>4
<1>6. ListsSome(cut, S)
  <2>1. \A i \in 1..m : cut[i] \in S
    BY <1>2, <1>5, ElementOfSeq
  <2>2. \A i, j \in 1..m : cut[i] = cut[j] => i = j
    BY <1>2, <1>5
  <2> QED BY <1>3, <1>5, <2>1, <2>2, SomeListed
<1>7. ListsSome(list, S)
  BY DEF ListsSome
<1> QED BY <1>6, <1>7 DEF SeedMixedCoverage, cut, m, d

-----------------------------------------------------------------------------
(* What is ranked *)

\* The hits are found hits, of planned sources.
FoundInv ==
    /\ hits \in Seq(Hits)
    /\ stage = "planning" => hits = << >>
    /\ \A p \in DOMAIN hits : \E s \in PlannedSteps : s.source = hits[p].source

\* The engine returns hits of planned sources and the order of hits keeps them.
LEMMA FoundHolds == PipelineSpec => []FoundInv
<1>1. PipelineInit => FoundInv
  <2> SUFFICES ASSUME PipelineInit PROVE FoundInv
    OBVIOUS
  <2>1. hits = << >>
    BY DEF PipelineInit
  <2> QED BY <2>1 DEF FoundInv
<1>2. FoundInv /\ [PipelineNext]_allVars => FoundInv'
  <2> SUFFICES ASSUME FoundInv, [PipelineNext]_allVars PROVE FoundInv'
    OBVIOUS
  <2>1. CASE BuildPlan
    <3>1. hits' = << >> /\ UNCHANGED <<hits, stage>>
      BY <2>1 DEF BuildPlan, ownVars, FoundInv
    <3> QED BY <3>1 DEF FoundInv
  <2>2. CASE Retrieve
    <3>1. PICK found \in Outcomes :
            /\ \A i \in DOMAIN found : \E s \in PlannedSteps : s.source = found[i].source
            /\ hits' = PrioritizeHits(class.result, found)
      BY <2>2 DEF Retrieve
    <3>2. /\ hits' \in Seq(Hits)
          /\ \A i \in DOMAIN hits' : \E p \in DOMAIN found : hits'[i] = found[p]
      BY <3>1, OutcomesAreHits, PrioritizedHits
    <3>3. UNCHANGED planVars /\ stage' = "grouping"
      BY <2>2 DEF Retrieve
    <3>4. \A p \in DOMAIN hits' : \E s \in PlannedSteps : s.source = hits'[p].source
      BY <3>1, <3>2
    <3> QED BY <3>2, <3>3, <3>4 DEF FoundInv, PlannedSteps, planVars
  <2>3. CASE UNCHANGED <<planVars, hits>> /\ (stage' = "planning" => stage = "planning")
    BY <2>3 DEF FoundInv, PlannedSteps, planVars
  <2> QED
    BY <2>1, <2>2, <2>3
    DEF PipelineNext, Collapse, Rank, PackStep, Shape, Stop, allVars, ownVars
<1> QED BY <1>1, <1>2, PTL DEF PipelineSpec

\* The canonical records, once every hit is grouped.
LEMMA RecordsMade ==
    ASSUME FoundInv, MergeInv, at = Len(hits) + 1
    PROVE  /\ IsFiniteSet(CanonicalRecords)
           /\ \A r \in CanonicalRecords : ARecord(r) /\ r.raws \in groups
           /\ Apart(CanonicalRecords)
<1> DEFINE role == [p \in DOMAIN hits |-> RouteRole(hits[p])]
           f == [g \in groups |-> CanonicalRecord(hits, role, g)]
<1>1. Len(hits) \in Nat /\ Grouped(groups, Len(hits))
  BY DEF MergeInv
<1>2. CanonicalRecords = {f[g] : g \in groups}
  BY DEF CanonicalRecords
<1>3. \A g \in groups : f[g] = CanonicalRecord(hits, role, g) /\ f[g].raws = g
  BY DEF CanonicalRecord
<1>4. f \in Surjection(groups, CanonicalRecords)
  BY <1>2 DEF Surjection
<1> HIDE DEF f, role
<1>5. IsFiniteSet(CanonicalRecords)
  BY <1>1, <1>4, FS_Surjection DEF Grouped
<1>6. ASSUME NEW g \in groups PROVE ARecord(f[g])
  <2>1. IsGroup(g, Len(hits)) /\ PlacesOf(g) \subseteq 1..Len(hits)
    BY <1>1 DEF Grouped, IsGroup
  <2>2. \A p \in PlacesOf(g) : Accepted(hits[p])
    BY <1>1, <2>1 DEF Grouped
  <2>3. hits \in Seq(Hits)
    BY DEF FoundInv
  <2> QED BY <1>3, <2>1, <2>2, <2>3, CanonicalIsRecord
<1>7. Apart(CanonicalRecords)
  <2>1. ASSUME NEW g \in groups, NEW h \in groups, g # h PROVE g[1] # h[1]
    <3>1. g[1] \in PlacesOf(g) /\ h[1] \in PlacesOf(h)
      BY <1>1, GroupFacts DEF Grouped
    <3>2. PlacesOf(g) \cap PlacesOf(h) = {}
      BY <1>1, <2>1 DEF Grouped
    <3> QED BY <3>1, <3>2
  <2>2. \A r \in CanonicalRecords : r.raws \in groups /\ r = f[r.raws]
    BY <1>2, <1>3
  <2> QED BY <2>1, <2>2 DEF Apart
<1> QED BY <1>2, <1>3, <1>5, <1>6, <1>7

\* What the ranking hands to the pack.
LEMMA RankedLists ==
    ASSUME FoundInv, MergeInv, Rank
    PROVE  ListsSome(records', CanonicalRecords) /\ Len(records') \in Nat
<1> DEFINE S == CanonicalRecords
<1>1. hits \in Seq(Hits) /\ at = Len(hits) + 1
  <2>1. hits \in Seq(Hits) /\ Len(hits) \in Nat
    BY LenProperties DEF FoundInv
  <2> QED BY <2>1 DEF Rank, MergeInv
<1>2. IsFiniteSet(S) /\ Apart(S) /\ \A r \in S : ARecord(r)
  BY <1>1, RecordsMade
<1>3. Lists(Ordered(S), S)
  BY <1>1, <1>2, OrderedRecords
<1> HIDE DEF S
<1>4. ListsSome(records', S)
  BY <1>3, SeededLists DEF Rank, S
<1> QED BY <1>4, ListsSomeFacts DEF S

\* The pack starts from the ranked records, and nothing else touches it.
PackedInv == PackInv /\ (stage \in {"planning", "grouping"} => packing = "ready")

\* So what EvidencePack promises holds of the pack of every retrieval.
LEMMA PackedHolds == PipelineSpec => [](FoundInv /\ MergeInv /\ PackedInv)
<1>1. PipelineInit => PackedInv
  <2> SUFFICES ASSUME PipelineInit PROVE PackedInv
    OBVIOUS
  <2>1. DOMAIN kept = {} /\ Len(records) = 0 /\ packing = "ready"
    BY DEF PipelineInit
  <2> QED BY <2>1 DEF PackedInv, PackInv, SupplementKept, UnclippedIsWhole
<1>2. FoundInv /\ MergeInv /\ PackedInv /\ [PipelineNext]_allVars => PackedInv'
  <2> SUFFICES ASSUME FoundInv, MergeInv, PackedInv, [PipelineNext]_allVars PROVE PackedInv'
    OBVIOUS
  <2>1. ASSUME UNCHANGED packVars PROVE PackInv'
    <3>1. [Next]_vars
      BY <2>1 DEF packVars, vars
    <3> QED BY <3>1, PackKeepsInv DEF PackedInv
  <2>2. CASE BuildPlan \/ Retrieve \/ Collapse
    <3>1. UNCHANGED packVars /\ stage \in {"planning", "grouping"}
      BY <2>2 DEF BuildPlan, Retrieve, Collapse
    <3> QED BY <2>1, <3>1 DEF PackedInv, packVars
  <2>3. CASE Rank
    <3>1. packing = "ready" /\ UNCHANGED <<kept, packing>> /\ stage' = "packing"
      BY <2>3 DEF Rank, PackedInv
    <3>2. DOMAIN kept' = {} /\ packing' = "ready" /\ Len(records') \in Nat
      BY <2>3, <3>1, RankedLists DEF PackedInv, PackInv
    <3> QED BY <3>1, <3>2 DEF PackedInv, PackInv, SupplementKept, UnclippedIsWhole
  <2>4. CASE PackStep
    <3>1. [Next]_vars /\ stage' = "packing"
      BY <2>4 DEF PackStep, ownVars
    <3> QED BY <3>1, PackKeepsInv DEF PackedInv
  <2>5. CASE Shape
    BY <2>1, <2>5 DEF Shape, PackedInv
  <2>6. CASE Stop \/ UNCHANGED allVars
    BY <2>1, <2>6 DEF Stop, allVars, ownVars, packVars, PackedInv
  <2> QED BY <2>2, <2>3, <2>4, <2>5, <2>6 DEF PipelineNext
<1>3. PipelineSpec => []PackedInv
  BY <1>1, <1>2, FoundHolds, MergeHolds, PTL DEF PipelineSpec
<1> QED BY <1>3, FoundHolds, MergeHolds, PTL

\* What the pipeline hands to build_evidence_pack is packed as EvidencePack says.
THEOREM ReserveSurvivesRetrieval == PipelineSpec => []SupplementKept
BY PackedHolds, PTL DEF PackedInv, PackInv

\* A response whose pack is not marked as clipped has lost no slice in it.
THEOREM ClippingIsToldOfRetrieval == PipelineSpec => []UnclippedIsWhole
BY PackedHolds, PTL DEF PackedInv, PackInv

-----------------------------------------------------------------------------
(* Roles *)

\* What is ranked, packed and shaped are the canonical records.
RolesInv ==
    /\ stage \in {"planning", "grouping"} => records = << >> /\ packing = "ready"
    /\ stage \notin {"planning", "grouping"} => ListsSome(records, CanonicalRecords)
    /\ TypeOK
    /\ stage # "shaped" => response = << >>
    /\ \A i \in DOMAIN response :
          \E r \in CanonicalRecords : response[i].role = r.role /\ response[i].raws = r.raws

\* The canonical records are made of the plan, the hits and the groups.
LEMMA RecordsSteady ==
    ASSUME UNCHANGED <<planVars, hits, groups>>
    PROVE  CanonicalRecords' = CanonicalRecords
BY DEF planVars, CanonicalRecords, RouteRole, StepOf, PlannedSteps, CanonicalRecord

\* _order_records_for_response and _seed_mixed_coverage_records.
LEMMA RankKeepsRoles ==
    ASSUME FoundInv, MergeInv, PackedInv, RolesInv, Rank
    PROVE  RolesInv'
<1> DEFINE S == CanonicalRecords
<1>1. hits \in Seq(Hits) /\ at = Len(hits) + 1
  <2>1. hits \in Seq(Hits) /\ Len(hits) \in Nat
    BY LenProperties DEF FoundInv
  <2> QED BY <2>1 DEF Rank, MergeInv
<1>2. \A r \in S : ARecord(r)
  BY <1>1, RecordsMade
<1>4. ListsSome(records', S)
  BY RankedLists
<1>5. records' \in Seq(Records)
  <2>1. S \subseteq Records
    BY <1>2 DEF ARecord
  <2> HIDE DEF S
  <2> QED BY <1>4, <2>1, ListsSomeFacts, SeqMonotonic
<1>6. packing = "ready" /\ DOMAIN kept = {} /\ clipped \in BOOLEAN /\ pruned \in BOOLEAN
  BY DEF Rank, RolesInv, PackedInv, PackInv, TypeOK
<1>7. TypeOK'
  BY <1>5, <1>6 DEF Rank, TypeOK
<1>8. S' = S
  BY RecordsSteady DEF Rank
<1>9. response' = << >> /\ stage' = "packing"
  BY DEF Rank, RolesInv
<1>10. ListsSome(records, S)'
  <2> HIDE DEF S
  <2> QED BY <1>4, <1>8 DEF ListsSome, Lists, PlacesOf
<1> QED BY <1>7, <1>9, <1>10 DEF RolesInv

\* _shape_response orders what is left of the records and makes none up.
LEMMA ShapeKeepsRoles ==
    ASSUME FoundInv, MergeInv, RolesInv, Shape
    PROVE  RolesInv'
<1> DEFINE C == CanonicalRecords
           cut(i) == [records[i] EXCEPT !.slices = kept[i]]
           S == {cut(i) : i \in DOMAIN kept}
           f == [i \in DOMAIN kept |-> cut(i)]
<1>1. hits \in Seq(Hits) /\ at = Len(hits) + 1 /\ stage = "packing"
  BY DEF FoundInv, MergeInv, Shape
<1>2. Apart(C) /\ \A r \in C : ARecord(r)
  BY <1>1, RecordsMade
<1>3. /\ records \in Seq(C) /\ Len(records) \in Nat /\ DOMAIN records = 1..Len(records)
      /\ \A i, j \in DOMAIN records : records[i] = records[j] => i = j
  <2>1. ListsSome(records, C)
    BY <1>1 DEF RolesInv
  <2> HIDE DEF C
  <2> QED BY <2>1, ListsSomeFacts
<1> HIDE DEF C
<1>4. /\ DOMAIN kept \subseteq 1..Len(records)
      /\ \A i \in DOMAIN kept : kept[i] \subseteq records[i].slices
  BY DEF RolesInv, TypeOK, Places
<1>5. ASSUME NEW i \in DOMAIN kept
      PROVE  /\ records[i] \in C /\ ARecord(cut(i))
             /\ cut(i).raws = records[i].raws /\ cut(i).role = records[i].role
  <2>1. records[i] \in C
    BY <1>3, <1>4, ElementOfSeq
  <2>2. records[i] \in Records /\ Len(records[i].id) = 3 /\ IsFiniteSet(records[i].slices)
        /\ records[i].raws[1] \in DOMAIN hits
    BY <1>2, <2>1 DEF ARecord
  <2>3. cut(i) \in Records /\ cut(i).raws = records[i].raws /\ cut(i).role = records[i].role
        /\ cut(i).id = records[i].id /\ cut(i).slices = kept[i]
    BY <1>4, <2>2 DEF Records
  <2>4. IsFiniteSet(kept[i])
    BY <1>4, <2>2, FS_Subset
  <2> HIDE DEF cut
  <2> QED BY <2>1, <2>2, <2>3, <2>4 DEF ARecord
<1>6. f \in Surjection(DOMAIN kept, S)
  BY DEF Surjection
<1>7. IsFiniteSet(DOMAIN kept)
  <2>1. IsFiniteSet(1..Len(records))
    BY <1>3, FS_Interval
  <2> QED BY <1>4, <2>1, FS_Subset
<1>8. response' = Ordered(S) /\ UNCHANGED <<planVars, packVars, hits, groups>> /\ stage' = "shaped"
  BY DEF Shape
<1> HIDE DEF f, cut
<1>9. IsFiniteSet(S)
  <2> HIDE DEF S
  <2> QED BY <1>6, <1>7, FS_Surjection
<1>10. \A r \in S : ARecord(r) /\ \E q \in C : r.role = q.role /\ r.raws = q.raws
  BY <1>5
<1>11. Apart(S)
  <2>1. ASSUME NEW i \in DOMAIN kept, NEW j \in DOMAIN kept, cut(i) # cut(j)
        PROVE  cut(i).raws[1] # cut(j).raws[1]
    <3>1. i \in DOMAIN records /\ j \in DOMAIN records /\ i # j
      BY <1>3, <1>4, <2>1
    <3>2. records[i] # records[j] /\ records[i] \in C /\ records[j] \in C
      BY <1>3, <1>5, <3>1
    <3> QED BY <1>2, <1>5, <3>2 DEF Apart
  <2> QED BY <2>1 DEF Apart
<1> HIDE DEF S
<1>12. Lists(Ordered(S), S)
  BY <1>1, <1>9, <1>10, <1>11, OrderedRecords
<1>13. \A i \in DOMAIN response' : response'[i] \in S
  BY <1>8, <1>12, LenProperties, ElementOfSeq DEF Lists
<1>14. CanonicalRecords' = C
  BY <1>8, RecordsSteady DEF C
<1>15. \A i \in DOMAIN response' :
          \E r \in CanonicalRecords' : response'[i].role = r.role /\ response'[i].raws = r.raws
  BY <1>10, <1>13, <1>14
<1>16. TypeOK'
  BY <1>8 DEF RolesInv, TypeOK, Places, packVars
<1>17. ListsSome(records, CanonicalRecords)'
  <2>1. ListsSome(records, C)
    BY <1>1 DEF RolesInv, C
  <2> QED BY <1>8, <1>14, <2>1 DEF ListsSome, Lists, PlacesOf, packVars
<1> QED BY <1>8, <1>15, <1>16, <1>17 DEF RolesInv

\* So a response is made of canonical records.
LEMMA RolesHold == PipelineSpec => [](FoundInv /\ MergeInv /\ RolesInv)
<1>1. PipelineInit => RolesInv
  <2> SUFFICES ASSUME PipelineInit PROVE RolesInv
    OBVIOUS
  <2>1. records = << >> /\ response = << >> /\ stage = "planning" /\ packing = "ready"
    BY DEF PipelineInit
  <2>2. DOMAIN kept = {} /\ clipped \in BOOLEAN /\ pruned \in BOOLEAN
    <3>1. kept = << >> /\ clipped = FALSE /\ pruned = FALSE
      BY DEF PipelineInit
    <3>2. DOMAIN kept = {}
      BY <3>1
    <3> QED BY <3>1, <3>2
  <2>3. records \in Seq(Records)
    BY <2>1, EmptySeq
  <2>4. TypeOK
    BY <2>1, <2>2, <2>3 DEF TypeOK
  <2>5. DOMAIN response = {}
    BY <2>1
  <2> QED BY <2>1, <2>4, <2>5 DEF RolesInv
<1>2. FoundInv /\ MergeInv /\ PackedInv /\ RolesInv /\ [PipelineNext]_allVars => RolesInv'
  <2> SUFFICES ASSUME FoundInv, MergeInv, PackedInv, RolesInv, [PipelineNext]_allVars
               PROVE  RolesInv'
    OBVIOUS
  <2>1. ASSUME UNCHANGED packVars PROVE TypeOK'
    <3>1. [Next]_vars
      BY <2>1 DEF packVars, vars
    <3> QED BY <3>1, PackKeepsTypes DEF RolesInv
  <2>2. CASE BuildPlan \/ Retrieve \/ Collapse
    <3>1. UNCHANGED <<packVars, response>> /\ stage \in {"planning", "grouping"}
          /\ stage' \in {"planning", "grouping"}
      BY <2>2 DEF BuildPlan, Retrieve, Collapse, ownVars
    <3>2. TypeOK'
      BY <2>1, <3>1
    <3>3. response' = << >>
      BY <3>1 DEF RolesInv
    <3> QED BY <3>1, <3>2, <3>3 DEF RolesInv, packVars
  <2>3. CASE Rank
    BY <2>3, RankKeepsRoles
  <2>4. CASE PackStep
    <3>1. [Next]_vars /\ UNCHANGED <<planVars, ownVars>> /\ stage = "packing"
      BY <2>4 DEF PackStep
    <3>2. TypeOK' /\ records' = records
      <4>1. records' = records
        BY <3>1 DEF Next, Select, Trim, Drop, Finish, vars
      <4> QED BY <3>1, <4>1, PackKeepsTypes DEF RolesInv
    <3>3. CanonicalRecords' = CanonicalRecords
      BY <3>1, RecordsSteady DEF ownVars
    <3>4. stage' = "packing" /\ response' = response
      BY <3>1 DEF ownVars
    <3>5. response' = << >>
      BY <3>1, <3>4 DEF RolesInv
    <3>6. ListsSome(records, CanonicalRecords)'
      BY <3>1, <3>2, <3>3 DEF RolesInv, ListsSome, Lists, PlacesOf
    <3> QED BY <3>2, <3>4, <3>5, <3>6 DEF RolesInv
  <2>5. CASE Shape
    BY <2>5, ShapeKeepsRoles
  <2>6. CASE UNCHANGED allVars
    <3>1. UNCHANGED <<planVars, packVars, ownVars>>
      BY <2>6 DEF allVars
    <3>2. CanonicalRecords' = CanonicalRecords
      BY <3>1, RecordsSteady DEF ownVars
    <3>3. TypeOK'
      BY <2>1, <3>1
    <3> QED BY <3>1, <3>2, <3>3 DEF RolesInv, ListsSome, Lists, PlacesOf, packVars, ownVars
  <2>7. CASE Stop
    BY <2>6, <2>7 DEF Stop
  <2> QED BY <2>2, <2>3, <2>4, <2>5, <2>6, <2>7 DEF PipelineNext
<1> QED BY <1>1, <1>2, FoundHolds, PackedHolds, PTL DEF PipelineSpec

\* And a canonical record has the role of the steps that found its hits.
LEMMA RolesOfRecords ==
    ASSUME FoundInv, MergeInv, RolesInv, SidesInv
    PROVE  RolesFollowPlan
<1> SUFFICES ASSUME NEW i \in DOMAIN response
             PROVE  response[i].role = "primary" <=>
                       \E p \in PlacesOf(response[i].raws) : ~StepOf(hits[p].source).supplemental
  BY DEF RolesFollowPlan
<1>1. at = Len(hits) + 1 /\ Len(hits) \in Nat /\ Grouped(groups, Len(hits))
      /\ DOMAIN hits = 1..Len(hits)
  <2>1. stage = "shaped"
    BY DEF RolesInv
  <2> QED BY <2>1 DEF MergeInv
<1> DEFINE role == [p \in DOMAIN hits |-> RouteRole(hits[p])]
<1>2. PICK g \in groups : /\ response[i].role = CanonicalRecord(hits, role, g).role
                          /\ response[i].raws = g
  <2>1. PICK r \in CanonicalRecords : response[i].role = r.role /\ response[i].raws = r.raws
    BY DEF RolesInv
  <2>2. PICK g \in groups : r = CanonicalRecord(hits, role, g)
    BY DEF CanonicalRecords
  <2>3. r.raws = g
    BY <2>2 DEF CanonicalRecord
  <2> QED BY <2>1, <2>2, <2>3
<1>3. response[i].role = "primary" <=> \E k \in DOMAIN g : role[g[k]] = "primary"
  BY <1>2 DEF CanonicalRecord
<1>4. IsGroup(g, Len(hits)) /\ \A k \in DOMAIN g : g[k] \in DOMAIN hits
  BY <1>1, GroupFacts DEF Grouped
<1>5. \A p \in DOMAIN hits : role[p] = "primary" <=> ~StepOf(hits[p].source).supplemental
  <2> TAKE p \in DOMAIN hits
  <2>1. \E s \in PlannedSteps : s.source = hits[p].source
    BY DEF FoundInv
  <2> QED BY <2>1, RoleIsSide
<1> HIDE DEF role
<1>6. PlacesOf(response[i].raws) = {g[k] : k \in DOMAIN g}
  BY <1>2 DEF PlacesOf
<1> QED BY <1>3, <1>4, <1>5, <1>6

\* A record of a response is primary exactly if a step planned for the primary
\* route found one of its hits.
THEOREM RolesAreSides == PipelineSpec => []RolesFollowPlan
BY RolesHold, SidesHold, RolesOfRecords, PTL

\* What the pipeline ranks and packs are records with the slices they had.
THEOREM PackTypesOfRetrieval == PipelineSpec => []TypeOK
BY RolesHold, PTL DEF RolesInv

-----------------------------------------------------------------------------
(* The end of the pruning *)

\* The slices left, each at the place of its record, and what pruning has to take away:
\* they and the records.
Held == UNION {{i} \X kept[i] : i \in DOMAIN kept}
Weight == Cardinality(Held) + Cardinality(DOMAIN kept)

\* A record has finitely many slices, so the weight is a number.
LEMMA HeldIsFinite ==
    ASSUME FoundInv, MergeInv, RolesInv, stage = "packing"
    PROVE  IsFiniteSet(DOMAIN kept) /\ IsFiniteSet(Held)
<1> DEFINE C == CanonicalRecords
           at_(i) == {i} \X kept[i]
           F == {at_(i) : i \in DOMAIN kept}
           f == [i \in DOMAIN kept |-> at_(i)]
<1>1. \A r \in C : ARecord(r)
  <2>1. hits \in Seq(Hits) /\ at = Len(hits) + 1
    BY DEF FoundInv, MergeInv
  <2> QED BY <2>1, RecordsMade
<1>2. records \in Seq(C) /\ Len(records) \in Nat
  <2>1. ListsSome(records, C)
    BY DEF RolesInv
  <2> HIDE DEF C
  <2> QED BY <2>1, ListsSomeFacts
<1> HIDE DEF C
<1>3. /\ DOMAIN kept \subseteq 1..Len(records)
      /\ \A i \in DOMAIN kept : kept[i] \subseteq records[i].slices
  BY DEF RolesInv, TypeOK, Places
<1>4. IsFiniteSet(DOMAIN kept)
  <2>1. IsFiniteSet(1..Len(records))
    BY <1>2, FS_Interval
  <2> QED BY <1>3, <2>1, FS_Subset
<1>5. \A i \in DOMAIN kept : IsFiniteSet(at_(i))
  <2> SUFFICES ASSUME NEW i \in DOMAIN kept PROVE IsFiniteSet({i} \X kept[i])
    OBVIOUS
  <2>1. records[i] \in C
    BY <1>2, <1>3, ElementOfSeq
  <2>2. IsFiniteSet(kept[i])
    BY <1>1, <1>3, <2>1, FS_Subset DEF ARecord
  <2>3. IsFiniteSet({i})
    BY FS_Singleton
  <2> QED BY <2>2, <2>3, FS_Product
<1> HIDE DEF at_
<1>6. f \in Surjection(DOMAIN kept, F)
  BY DEF Surjection
<1>7. IsFiniteSet(F) /\ \A T \in F : IsFiniteSet(T)
  <2>1. \A T \in F : IsFiniteSet(T)
    BY <1>5
  <2> HIDE DEF f, F
  <2> QED BY <1>4, <1>6, <2>1, FS_Surjection
<1>8. Held = UNION F
  BY DEF Held, at_
<1> HIDE DEF F
<1> QED BY <1>4, <1>7, <1>8, FS_UNION

\* A trim takes one slice and no record, a drop one record and its slice.
LEMMA PruningTakes ==
    ASSUME IsFiniteSet(DOMAIN kept), IsFiniteSet(Held), Trim \/ Drop
    PROVE  Weight \in Nat /\ Weight' \in Nat /\ Weight' < Weight
<1>1. Cardinality(Held) \in Nat /\ Cardinality(DOMAIN kept) \in Nat
  BY FS_CardinalityType
<1>2. ASSUME NEW i \in Trimmable, NEW s \in kept[i], kept' = [kept EXCEPT ![i] = @ \ {s}]
      PROVE  DOMAIN kept' = DOMAIN kept /\ <<i, s>> \in Held /\ Held' = Held \ {<<i, s>>}
  <2>1. i \in DOMAIN kept /\ DOMAIN kept' = DOMAIN kept
    BY <1>2 DEF Trimmable
  <2>2. <<i, s>> \in Held
    BY <2>1 DEF Held
  <2>3. \A j \in DOMAIN kept : kept'[j] = IF j = i THEN kept[i] \ {s} ELSE kept[j]
    BY <1>2, <2>1
  <2>4. \A x \in Held' : x \in Held \ {<<i, s>>}
    BY <2>1, <2>3 DEF Held
  <2>5. \A x \in Held \ {<<i, s>>} : x \in Held'
    BY <2>1, <2>3 DEF Held
  <2> QED BY <2>1, <2>2, <2>4, <2>5
<1>3. ASSUME NEW i \in DOMAIN kept, kept' = [j \in DOMAIN kept \ {i} |-> kept[j]]
      PROVE  DOMAIN kept' = DOMAIN kept \ {i} /\ Held' \in SUBSET Held
  BY <1>3 DEF Held
<1>4. CASE Trim
  <2>1. PICK i \in Trimmable : \E s \in kept[i] : kept' = [kept EXCEPT ![i] = @ \ {s}]
    BY <1>4 DEF Trim
  <2>2. PICK s \in kept[i] : kept' = [kept EXCEPT ![i] = @ \ {s}]
    BY <2>1
  <2>3. DOMAIN kept' = DOMAIN kept /\ <<i, s>> \in Held /\ Held' = Held \ {<<i, s>>}
    BY <1>2, <2>2
  <2>4. Cardinality(Held \ {<<i, s>>}) = Cardinality(Held) - 1
    BY <2>3, FS_RemoveElement
  <2>5. Cardinality(Held \ {<<i, s>>}) \in Nat
    BY FS_RemoveElement, FS_CardinalityType
  <2>6. Cardinality(Held') = Cardinality(Held) - 1 /\ Cardinality(Held') \in Nat
    BY <2>3, <2>4, <2>5
  <2>7. Cardinality(DOMAIN kept') = Cardinality(DOMAIN kept)
    BY <2>3
  <2> QED BY <1>1, <2>6, <2>7 DEF Weight
<1>5. CASE Drop
  <2>1. PICK i \in DOMAIN kept : kept' = [j \in DOMAIN kept \ {i} |-> kept[j]]
    BY <1>5 DEF Drop, Removable
  <2>2. DOMAIN kept' = DOMAIN kept \ {i} /\ Held' \in SUBSET Held
    BY <1>3, <2>1
  <2>3. Cardinality(DOMAIN kept \ {i}) = Cardinality(DOMAIN kept) - 1
    BY FS_RemoveElement
  <2>4. IsFiniteSet(DOMAIN kept \ {i})
    BY FS_RemoveElement
  <2>5. Cardinality(DOMAIN kept') = Cardinality(DOMAIN kept) - 1
        /\ Cardinality(DOMAIN kept') \in Nat
    BY <2>2, <2>3, <2>4, FS_CardinalityType
  <2>6. Cardinality(Held') <= Cardinality(Held) /\ Cardinality(Held') \in Nat
    BY <2>2, FS_Subset, FS_CardinalityType
  <2> QED BY <1>1, <2>5, <2>6 DEF Weight
<1> QED BY <1>4, <1>5

\* A step of the pack that does not end the pruning leaves less to prune.
PruningAdvances ==
    PackStep /\ packing = "pruning" /\ packing' = "pruning" =>
        Weight \in Nat /\ Weight' \in Nat /\ Weight' < Weight

\* However many hits a retrieval has and whichever way ties go, the loop of
\* build_evidence_pack makes at most as many cuts as there are slices and records in the
\* selection, so it cannot go on for ever.
THEOREM PruningIsBounded == PipelineSpec => [][PruningAdvances]_allVars
<1>1. FoundInv /\ MergeInv /\ RolesInv /\ [PipelineNext]_allVars => [PruningAdvances]_allVars
  <2> SUFFICES ASSUME FoundInv, MergeInv, RolesInv, PackStep,
                      packing = "pruning", packing' = "pruning"
               PROVE  Weight \in Nat /\ Weight' \in Nat /\ Weight' < Weight
    BY DEF PruningAdvances
  <2>1. stage = "packing" /\ (Trim \/ Drop)
    BY DEF PackStep, Next, Select, Finish
  <2> QED BY <2>1, HeldIsFinite, PruningTakes
<1> QED BY <1>1, RolesHold, PTL DEF PipelineSpec
=============================================================================
