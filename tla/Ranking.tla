------------------------------- MODULE Ranking -------------------------------
(***************************************************************************)
(* Sort keys: the code orders hits, records and slices by tuples.          *)
(***************************************************************************)
EXTENDS Integers

\* The lower of two tuples of numbers, most significant part first.
RanksBelow(a, b) ==
    \E i \in DOMAIN a : /\ a[i] < b[i]
                        /\ \A j \in 1..i - 1 : a[j] = b[j]
=============================================================================
