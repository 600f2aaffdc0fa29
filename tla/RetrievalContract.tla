-------------------------- MODULE RetrievalContract --------------------------
(***************************************************************************)
(* What one retrieval (src/skill/retrieval/engine.py: run_retrieval) owes  *)
(* its caller: every first-wave step is settled once and for good, and the *)
(* verdict, given once, is the one the settlement calls for.               *)
(*   answered: the step or one of its backups delivered;                   *)
(*   weak:     its own hits are kept, but nothing better could be reached; *)
(*   lost:     nothing was delivered for the step.                         *)
(***************************************************************************)
EXTENDS Sequences

VARIABLES
    settled, \* how each first-wave step, by its position, was settled
    verdict  \* RetrievalExecutionOutcome.status, once it is given

Settlements == {"open", "answered", "weak", "lost"}

Final(s) == \A i \in DOMAIN s : s[i] # "open"

VerdictFor(s) ==
    IF \A i \in DOMAIN s : s[i] = "answered" THEN "success"
    ELSE IF \A i \in DOMAIN s : s[i] = "lost" THEN "failure_gaps"
    ELSE "partial"

Init ==
    /\ settled \in Seq({"open"}) \ {<< >>}
    /\ verdict = "none"

\* Any number of open steps is settled; the verdict may come with the last.
Settle ==
    /\ verdict = "none"
    /\ settled' \in [DOMAIN settled -> Settlements]
    /\ \A i \in DOMAIN settled : settled[i] # "open" => settled'[i] = settled[i]
    /\ \/ verdict' = "none"
       \/ /\ Final(settled')
          /\ verdict' = VerdictFor(settled')

Spec == Init /\ [][Settle]_<<settled, verdict>>
=============================================================================
