----------------------------- MODULE MCCheckout -----------------------------
(* Checkout of one piece of one product by one customer. *)
EXTENDS Checkout

OneCustomer == [w \in WooOrder |-> CHOOSE r \in Retailer : TRUE]

OneItem == [w \in WooOrder |-> CHOOSE k \in Sku : TRUE]

OnePiece == [w \in WooOrder |-> 1]

\* Bound: requests of the operators overlap only until the first checkout begins.
\* A checkout sees of them no more than what they have committed.
EditsApart ==
  (\E i \in Try : ~Unused(i)) => Cardinality({s \in Session : ~Shop!Free(s)}) <= 1
=============================================================================
