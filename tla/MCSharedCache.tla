---------------------------- MODULE MCSharedCache ----------------------------
EXTENDS SharedCache, TLC

CONSTANTS p1, p2, t1, t2, k1, k2, k3

\* Two fetches in different processes.
TwoApart == t1 :> p1 @@ t2 :> p2

\* What a larger instance would mix is checked side by side: two processes use
\* one key, or one process uses all of them and the other never stores anything,
\* which would move the key to the end of its order.
InOrder == <<k1, k2, k3>>
OneKey ==
    \A k \in Keys \ {k1} :
        /\ path[k] = NoFile /\ tmp[k] = NoFile
        /\ \A t \in Tasks : job[t].key # k
        /\ \A p \in Processes : memory[p][k] = NoEntry
OneProcess == job[t2] = Idle /\ recency[p2] = InOrder
Focus == OneKey \/ OneProcess

\* The order of keys that have no entry tells nothing, so one will do.
MCInit == Init /\ \A p \in Processes : recency[p] = InOrder
MCNext == Next /\ Focus'
MCSpec == MCInit /\ [][MCNext]_vars
=============================================================================
