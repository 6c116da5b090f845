----------------------------- MODULE MCOdooSite -----------------------------
(* OdooSite on two orders of one buyer, the customer of the demo orders. *)
EXTENDS OdooSite, TLC

OneBuyer == [o \in Order |-> Customer]

Symmetry == Permutations(Caller) \cup Permutations(Order)
=============================================================================
