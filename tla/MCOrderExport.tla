--------------------------- MODULE MCOrderExport ---------------------------
(* OrderExport on two orders, of one buyer or of two. *)
EXTENDS OrderExport

OneBuyer == [o \in Order |-> CHOOSE r \in Retailer : TRUE]

BuyerEach == [o \in Order |-> o]

\* A page that holds both orders gives each fault many more places to happen.
FewerOnPagesOfTwo == [n \in Limits |-> IF n = 1 THEN 2 ELSE 1]

OneUpset == [n \in Limits |-> 1]

NoUpsets == [n \in Limits |-> 0]
=============================================================================
