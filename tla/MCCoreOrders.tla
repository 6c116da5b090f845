--------------------------- MODULE MCCoreOrders ---------------------------
(* CoreOrders on one order, two requests and few ids. *)
EXTENDS CoreOrders, TLC

Symmetric == Permutations(Session) \cup Permutations(SaleId)
               \cup Permutations(WooId)
=============================================================================
