---------------------------- MODULE MCAdapterCalls ----------------------------
(* Two engines and two pages: one to win a race and one to lose it. *)
EXTENDS AdapterCalls

CONSTANTS e1, e2, c1, c2

MCEngines == {e1, e2}
MCCandidates == {c1, c2}
=============================================================================
