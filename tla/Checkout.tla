------------------------------ MODULE Checkout ------------------------------
(***************************************************************************)
(* The checkout of the shop: the bridge plugin of WooCommerce asks Core    *)
(* whether the customer is approved and the quantity reaches the MOQ, lets *)
(* WooCommerce create its order, places the order in Core, and keeps the   *)
(* id of Core's order in the meta data of Woo's.  Meanwhile operators      *)
(* change the catalogue and review the retailers.                          *)
(*                                                                         *)
(* Core serves a placement in three steps: it loads the retailer, reads    *)
(* the product, and commits, whether the plugin still waits or not.        *)
(* Nothing keeps two requests from checking out one Woo order at once.  A  *)
(* cart holds one product; a product without a SKU is no product of Core   *)
(* and leaves no trace here.                                               *)
(***************************************************************************)
EXTENDS Naturals, FiniteSets

CONSTANTS Brand, Sku, Price, Moq, Session, Null,    \* see Catalogue
          Retailer, Reviewer,                       \* see Retailers
          WooOrder,     \* orders of WooCommerce
          Customer,     \* Woo order -> the retailer who is its customer
          Item,         \* Woo order -> SKU in the cart
          Quantity,     \* Woo order -> quantity in the cart
          MaxTries,     \* bound: requests that check out one Woo order
          MaxFaults     \* bound: lost or late answers, PHP requests that die

ASSUME CatalogueAssumption ==
  /\ Moq \subseteq Nat \ {0}
  /\ Null \notin Brand \cup Price \cup Moq

ASSUME CartAssumption ==
  /\ Customer \in [WooOrder -> Retailer]
  /\ Item \in [WooOrder -> Sku]
  /\ Quantity \in [WooOrder -> Nat \ {0}]

ASSUME CheckoutBoundAssumption == MaxTries \in Nat /\ MaxFaults \in Nat

VARIABLES brands, products, request, announced, offered,   \* see Catalogue
          retailers, review, welcomed,                     \* see Retailers
          linked,      \* Woo: customers whose retailer_id is in the user meta
          woo,         \* Woo: its orders
          php,         \* Woo: what the request of a try is doing
          placement,   \* Core: placements it has received, and what became of them
          faults,      \* history: answers lost and requests that have died
          lost,        \* history: tries whose answer was lost or came to nobody
          overlapped   \* history: Woo orders with two requests at once

Shop == INSTANCE Catalogue
Registry == INSTANCE Retailers

catalogue == <<brands, products, request, announced, offered>>
registry == <<retailers, review, welcomed>>
history == <<faults, lost, overlapped>>
checkout == <<linked, woo, php, placement, history>>
vars == <<catalogue, registry, checkout>>

Fault == faults < MaxFaults /\ faults' = faults + 1

\* A request of the shop, and the placement it sends to Core, are named by the Woo
\* order and the number of the try; Core makes an order of its own of each (it
\* looks at no idempotency key).
Try == WooOrder \X (1 .. MaxTries)

Form == {"classic", "block"}

Woo == [status : {"none", "pending", "failed", "processing"}, form : Form,
        meta : SUBSET (1 .. MaxTries)]

PhpPoint == {"idle", "product", "create", "submit", "await", "finish"}

NoPlacement == [at |-> "none", terms |-> Null]

Placement == [at : {"none", "retailer", "product", "commit", "refused", "placed"},
              terms : Shop!Terms \cup {Null}]

Init ==
  /\ Shop!Init
  /\ Registry!Init
  /\ linked = {}
  /\ woo \in [WooOrder -> [status : {"none"}, form : Form, meta : {{}}]]
  /\ php = [i \in Try |-> "idle"]
  /\ placement = [i \in Try |-> NoPlacement]
  /\ faults = 0
  /\ lost = {}
  /\ overlapped = {}

-----------------------------------------------------------------------------
(* ShopStore_Bridge_Retailer *)

\* register(): Core registers the customer; the user meta is set if the answer
\* arrives, and never otherwise, for Core refuses the address from then on.
RegisterCustomer(r) ==
  /\ Registry!Register(r)
  /\ \/ linked' = linked \cup {r} /\ UNCHANGED faults
     \/ Fault /\ UNCHANGED linked
  /\ UNCHANGED <<catalogue, woo, php, placement, lost, overlapped>>

IsApproved(r) == r \in linked /\ retailers[r] = "approved"

-----------------------------------------------------------------------------
(* ShopStore_Bridge_Checkout: validation *)

Goto(i, point) == php' = [php EXCEPT ![i] = point]

OnlyPhp == UNCHANGED <<catalogue, registry, linked, placement>>

Unused(i) == php[i] = "idle" /\ placement[i].at = "none"

\* The other requests that check out the same Woo order.
Rivals(i) == {j \in Try : j[1] = i[1] /\ j # i /\ php[j] # "idle"}

\* checkout_validation_errors(): the customer.  An order that has failed, was left
\* behind, or is being checked out already may be checked out again.
BeginCheckout(i) ==
  LET w == i[1] IN
  /\ Unused(i) /\ \A n \in 1 .. i[2] - 1 : ~Unused(<<w, n>>)
  /\ woo[w].status # "processing"
  /\ IsApproved(Customer[w])
  /\ Goto(i, "product")
  /\ overlapped' = overlapped \cup {j[1] : j \in Rivals(i)}
  /\ OnlyPhp /\ UNCHANGED <<woo, faults, lost>>

\* can_view_pricing: Core shows prices and MOQs to approved retailers only.
SeesTerms(r) == retailers[r] = "approved"

\* checkout_validation_errors(): the quantity, against the MOQ if Core shows it
\* to this customer.  A SKU that Core does not know is not checked.
ShownMoq(w) ==
  IF Shop!Exists(Item[w]) /\ SeesTerms(Customer[w])
    THEN products[Item[w]].moq ELSE 1

CheckQuantity(i) ==
  /\ php[i] = "product"
  /\ Goto(i, IF Quantity[i[1]] >= ShownMoq(i[1]) THEN "create" ELSE "idle")
  /\ OnlyPhp /\ UNCHANGED <<woo, history>>

\* WooCommerce creates its order, or takes up the one of the earlier try, unless
\* that has got through by now: then it makes another order, and leaves this one.
CreateWooOrder(i) ==
  /\ php[i] = "create"
  /\ IF woo[i[1]].status = "processing"
       THEN Goto(i, "idle") /\ UNCHANGED woo
       ELSE Goto(i, "submit") /\ woo' = [woo EXCEPT ![i[1]].status = "pending"]
  /\ OnlyPhp /\ UNCHANGED history

-----------------------------------------------------------------------------
(* place_core_order() and what follows *)

Submit(i) ==
  /\ php[i] = "submit"
  /\ placement' = [placement EXCEPT ![i].at = "retailer"]
  /\ Goto(i, "await")
  /\ UNCHANGED <<catalogue, registry, linked, woo, history>>

Answered(i) == placement[i].at \in {"placed", "refused"}

(* Operators named M_... are faulty variants of the definition that follows
   them, as a slip of the code would have it; no specification uses them. *)

M_AfterFailure(i) ==
  woo' = [woo EXCEPT ![i[1]].status = "failed"] /\ Goto(i, "finish")

\* The Woo order fails; the block checkout is aborted by an exception, while the
\* classic one goes on.
AfterFailure(i) ==
  /\ woo' = [woo EXCEPT ![i[1]].status = "failed"]
  /\ Goto(i, IF woo[i[1]].form = "block" THEN "idle" ELSE "finish")

M_AnswerFallsThrough(i) ==
  /\ php[i] = "await" /\ Answered(i)
  /\ AfterFailure(i)
  /\ OnlyPhp /\ UNCHANGED history

M_AnswerUnsaved(i) ==
  /\ php[i] = "await" /\ Answered(i)
  /\ IF placement[i].at = "placed"
       THEN woo' = woo /\ Goto(i, "finish")
       ELSE AfterFailure(i)
  /\ OnlyPhp /\ UNCHANGED history

\* The id is saved over what the request has loaded with the Woo order, and beside
\* what other requests have saved since: nobody says which of the others stay.
Answer(i) ==
  /\ php[i] = "await" /\ Answered(i)
  /\ IF placement[i].at = "placed"
       THEN /\ \E kept \in SUBSET woo[i[1]].meta :
                 woo' = [woo EXCEPT ![i[1]].meta = kept \cup {i[2]}]
            /\ Goto(i, "finish")
       ELSE AfterFailure(i)
  /\ OnlyPhp /\ UNCHANGED history

\* The request to Core times out or its answer is lost; Core may still serve it.
GiveUp(i) ==
  /\ php[i] = "await"
  /\ Fault
  /\ AfterFailure(i)
  /\ lost' = lost \cup {i}
  /\ OnlyPhp /\ UNCHANGED overlapped

\* WooCommerce completes an order that needs no payment.
Finish(i) ==
  /\ php[i] = "finish"
  /\ woo' = [woo EXCEPT ![i[1]].status = "processing"]
  /\ Goto(i, "idle")
  /\ OnlyPhp /\ UNCHANGED history

\* A request that dies once Core has its placement leaves the customer without the
\* answer.
Die(i) ==
  /\ php[i] # "idle"
  /\ Fault
  /\ Goto(i, "idle")
  /\ lost' = IF php[i] \in {"await", "finish"} THEN lost \cup {i} ELSE lost
  /\ OnlyPhp /\ UNCHANGED <<woo, overlapped>>

-----------------------------------------------------------------------------
(* Core: POST /orders *)

Serve(i, point) ==
  /\ placement' = [placement EXCEPT ![i].at = point]
  /\ UNCHANGED <<catalogue, registry, linked, woo, php, history>>

\* require_approved_retailer
LoadRetailer(i) ==
  /\ placement[i].at = "retailer"
  /\ Serve(i, IF retailers[Customer[i[1]]] = "approved" THEN "product" ELSE "refused")

M_Sellable(w) ==
  Shop!Exists(Item[w]) /\ Quantity[w] >= products[Item[w]].moq

Sellable(w) ==
  /\ Shop!Exists(Item[w])
  /\ products[Item[w]].status = "published"
  /\ Quantity[w] >= products[Item[w]].moq

\* place_order copies price and MOQ check from the row it reads ...
ReadProduct(i) ==
  /\ placement[i].at = "product"
  /\ placement' = [placement EXCEPT ![i] =
                     IF Sellable(i[1])
                       THEN [at |-> "commit", terms |-> Shop!TermsOf(products[Item[i[1]]])]
                       ELSE [at |-> "refused", terms |-> Null]]
  /\ UNCHANGED <<catalogue, registry, linked, woo, php, history>>

\* ... and commits, whatever became of the retailer and the product by then.
CommitOrder(i) ==
  /\ placement[i].at = "commit"
  /\ Serve(i, "placed")

-----------------------------------------------------------------------------

Handle(i) ==
  \/ CheckQuantity(i) \/ CreateWooOrder(i) \/ Submit(i)
  \/ Answer(i) \/ GiveUp(i) \/ Finish(i)

ServePlacement(i) == LoadRetailer(i) \/ ReadProduct(i) \/ CommitOrder(i)

Operate ==
  \/ Shop!Next /\ UNCHANGED <<registry, checkout>>
  \/ \E v \in Reviewer :
       /\ \/ \E r \in Retailer, target \in Registry!Verdict :
               Registry!ReviewRetailer(v, r, target)
          \/ Registry!CommitReview(v)
       /\ UNCHANGED <<catalogue, checkout>>

Next ==
  \/ Operate
  \/ \E r \in Retailer : RegisterCustomer(r)
  \/ \E i \in Try : BeginCheckout(i) \/ Handle(i) \/ Die(i) \/ ServePlacement(i)

Spec == Init /\ [][Next]_vars

\* A PHP request goes on (its calls have a timeout), and Core serves what it has
\* received.  Nobody has to check out, to review or to change the catalogue.
Fairness ==
  \A i \in Try : WF_vars(Handle(i)) /\ WF_vars(ServePlacement(i))

FairSpec == Spec /\ Fairness

-----------------------------------------------------------------------------
(* Properties *)

\* The shop, the registry and the checkouts are well formed.
TypeOK ==
  /\ Shop!TypeOK
  /\ Registry!TypeOK
  /\ linked \subseteq Retailer
  /\ woo \in [WooOrder -> Woo]
  /\ php \in [Try -> PhpPoint]
  /\ placement \in [Try -> Placement]
  /\ faults \in Nat
  /\ lost \subseteq Try
  /\ overlapped \subseteq WooOrder

ProductsHaveBrand == Shop!ProductsHaveBrand

OrdersOf(w) == {i \in Try : i[1] = w /\ placement[i].at = "placed"}

\* However the catalogue changes between validation, placement and commit, an
\* order is at terms the product was offered at, and for no less than their MOQ.
OrdersOnOfferedTerms ==
  \A w \in WooOrder : \A i \in OrdersOf(w) :
    /\ placement[i].terms \in offered[Item[w]]
    /\ Quantity[w] >= placement[i].terms.moq

\* Who reads the outbox has heard of the product and of the approval of the
\* retailer before it hears of their order.
SoldAfterAnnounced ==
  \A w \in WooOrder :
    OrdersOf(w) # {} => Item[w] \in announced /\ Customer[w] \in welcomed

\* An order that the block checkout shows as being processed names orders of Core,
\* at least one.  (The classic checkout goes on after a failure.)
ProcessingIsPlaced ==
  \A w \in WooOrder :
    woo[w].status = "processing" /\ woo[w].form = "block"
      => woo[w].meta # {} /\ \A n \in woo[w].meta : <<w, n>> \in OrdersOf(w)

\* Unless two requests have checked out a Woo order at once, one order of Core at
\* most came of the tries whose answer has reached the customer: who is told of a
\* failure may try again.
OrdersPerCheckout ==
  \A w \in WooOrder \ overlapped : Cardinality(OrdersOf(w) \ lost) <= 1

\* An order of Core is named by its Woo order in the end, whatever became of other
\* tries, unless its own answer was lost, the request that waited for it died, or
\* another request has written to the Woo order at the same time.
PlacedIsShown ==
  \A i \in Try :
    placement[i].at = "placed"
      ~> i[2] \in woo[i[1]].meta \/ i \in lost \/ i[1] \in overlapped

-----------------------------------------------------------------------------
(* What the documentation says, and the code does not keep *)

\* One Woo order is one order of Core, however often it is submitted (the plugin:
\* "idempotency key woo.order.create.{woo_order_id}, a retry creates no second").
OneOrderPerCheckout ==
  \A w \in WooOrder : Cardinality(OrdersOf(w)) <= 1
=============================================================================
