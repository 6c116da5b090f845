--------------------------- MODULE MCFulfillment ---------------------------
(* Fulfillment on one order and few lost calls, deaths and operator retries. *)
EXTENDS Fulfillment
=============================================================================
