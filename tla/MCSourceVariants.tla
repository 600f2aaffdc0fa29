--------------------------- MODULE MCSourceVariants ---------------------------
(* The plans whose steps walk in a way of their own. *)
EXTENDS SourceVariants

MCPlans == {Concrete(r) : r \in Routes}
           \cup {MixOf("policy", "industry")}
=============================================================================
