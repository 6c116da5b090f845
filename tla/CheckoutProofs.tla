--------------------------- MODULE CheckoutProofs ---------------------------
(***************************************************************************)
(* What holds of the checkout for every catalogue, every set of retailers  *)
(* and orders, any number of operators and overlapping placements, and any *)
(* number of lost answers and deaths, with its proofs.                     *)
(***************************************************************************)
EXTENDS Checkout, FiniteSetTheorems, TLAPS

-----------------------------------------------------------------------------
(* The inductive invariant *)

\* A request of an operator that changes a product has seen one, which is there for
\* good; a new product starts as a draft, and an update leaves the status alone.
RequestsSound ==
  \A s \in Session :
    LET r == request[s] IN
    /\ r.open = "create" => r.new.status = "draft"
    /\ r.open = "update" => r.new.status = r.loaded.status
    /\ r.open \in {"update", "move"} => Shop!Exists(r.sku)

\* What can be bought now was announced, at terms that history knows.
PublishedIsKnown ==
  \A k \in Sku : products[k].status = "published" =>
    k \in announced /\ Shop!TermsOf(products[k]) \in offered[k]

ApprovedIsWelcome == \A r \in Retailer : retailers[r] = "approved" => r \in welcomed

ShopInv == Shop!TypeOK /\ ProductsHaveBrand /\ RequestsSound /\ PublishedIsKnown

RegistryInv == Registry!TypeOK /\ ApprovedIsWelcome

\* The state of the checkouts is well formed.
PartsOK ==
  /\ linked \subseteq Retailer
  /\ woo \in [WooOrder -> Woo]
  /\ php \in [Try -> PhpPoint]
  /\ placement \in [Try -> Placement]
  /\ faults \in Nat
  /\ lost \subseteq Try
  /\ overlapped \subseteq WooOrder

\* What Core has read for a placement was true when it was read, and what follows
\* from it for the history stays true.
PlacementsSound ==
  \A i \in Try :
    /\ placement[i].at \in {"product", "commit", "placed"} => Customer[i[1]] \in welcomed
    /\ placement[i].at \in {"commit", "placed"} =>
         /\ Item[i[1]] \in announced
         /\ placement[i].terms \in offered[Item[i[1]]]
         /\ Quantity[i[1]] >= placement[i].terms.moq

\* A request that has sent no placement has none in Core; a block checkout that is
\* over, or about to be, names orders of Core.
Unsent == {"product", "create", "submit"}

CheckoutsSound ==
  /\ \A i \in Try :
       /\ php[i] \in Unsent => placement[i].at = "none"
       /\ php[i] = "finish" /\ woo[i[1]].form = "block" => woo[i[1]].meta # {}
  /\ \A w \in WooOrder :
       /\ \A n \in woo[w].meta : placement[<<w, n>>].at = "placed"
       /\ woo[w].status = "processing" /\ woo[w].form = "block" => woo[w].meta # {}

CheckoutInv == ShopInv /\ RegistryInv /\ PartsOK /\ PlacementsSound /\ CheckoutsSound

TriesOf(w) == {i \in Try : i[1] = w}

Active(i) == php[i] # "idle"

\* Core has not refused the placement, and its answer is not lost.
Live(i) == placement[i].at \notin {"none", "refused"} /\ i \notin lost

\* One request at a time checks out the Woo order and none once it has got through;
\* the request has the only live placement, or has left the order as processing.
OneTryOf(w) ==
  /\ \A i, j \in TriesOf(w) : Active(i) /\ Active(j) => i = j
  /\ \A i, j \in TriesOf(w) : Live(i) /\ Live(j) => i = j
  /\ \A i \in TriesOf(w) : Active(i) => woo[w].status # "processing"
  /\ \A i \in TriesOf(w) : Live(i) => Active(i) \/ woo[w].status = "processing"

OneTry == \A w \in WooOrder \ overlapped : OneTryOf(w)

-----------------------------------------------------------------------------
(* The catalogue *)

LEMMA NoRowIsNoRow == Shop!NoRow \notin Shop!Row
  BY CatalogueAssumption DEF Shop!NoRow, Shop!Row, Shop!ProductStatus

\* The row a COMMIT writes, attribute by attribute.
LEMMA FlushParts ==
  ASSUME NEW row \in Shop!Row, NEW r, r.open \in {"update", "move"}, r.new \in Shop!Row
  PROVE  LET new == Shop!Flush(row, r) IN
         /\ new \in Shop!Row
         /\ new.status = IF r.new.status # r.loaded.status THEN r.new.status ELSE row.status
         /\ new.brand = IF r.new.brand # r.loaded.brand THEN r.new.brand ELSE row.brand
  <1> DEFINE F == DOMAIN row
             new == Shop!Flush(row, r)
  <1>1. F = {"status", "brand", "price", "moq"}
    BY DEF Shop!Row
  <1>2. new = [f \in F |-> IF r.new[f] # r.loaded[f] THEN r.new[f] ELSE row[f]]
    BY DEF Shop!Flush
  <1>3. /\ new.status = IF r.new.status # r.loaded.status THEN r.new.status ELSE row.status
        /\ new.brand = IF r.new.brand # r.loaded.brand THEN r.new.brand ELSE row.brand
        /\ new.price \in {r.new.price, row.price}
        /\ new.moq \in {r.new.moq, row.moq}
    BY <1>1, <1>2
  <1>4. new = [status |-> new.status, brand |-> new.brand, price |-> new.price, moq |-> new.moq]
    <2>1. ASSUME NEW g, g = [f \in {"status", "brand", "price", "moq"} |-> g[f]]
          PROVE  g = [status |-> g.status, brand |-> g.brand, price |-> g.price, moq |-> g.moq]
      BY <2>1
    <2>2. new = [f \in {"status", "brand", "price", "moq"} |-> new[f]]
      BY <1>1, <1>2
    <2> HIDE DEF new
    <2>3. QED
      BY <2>1, <2>2
  <1> HIDE DEF new
  <1>5. new \in Shop!Row
    BY <1>3, <1>4 DEF Shop!Row
  <1>6. QED
    BY <1>3, <1>5 DEF new

\* A request is opened: the tables are untouched, and it is sound.
LEMMA AskKeeps ==
  ASSUME ShopInv, NEW s \in Session, NEW r \in Shop!Request, Shop!Ask(s, r),
         r.open = "create" => r.new.status = "draft",
         r.open = "update" => r.new.status = r.loaded.status,
         r.open \in {"update", "move"} => Shop!Exists(r.sku)
  PROVE  ShopInv'
  <1>1. /\ request' = [request EXCEPT ![s] = r] /\ request \in [Session -> Shop!Request]
        /\ UNCHANGED <<brands, products, announced, offered>>
    BY DEF Shop!Ask, ShopInv, Shop!TypeOK
  <1>2. request' \in [Session -> Shop!Request]
        /\ \A z \in Session : request'[z] = IF z = s THEN r ELSE request[z]
    BY <1>1
  <1>3. Shop!TypeOK'
    BY <1>1, <1>2 DEF ShopInv, Shop!TypeOK
  <1>4. ProductsHaveBrand' /\ PublishedIsKnown'
    BY <1>1 DEF ShopInv, ProductsHaveBrand, Shop!ProductsHaveBrand, Shop!Exists, PublishedIsKnown
  <1>5. RequestsSound'
    BY <1>1, <1>2 DEF ShopInv, RequestsSound, Shop!Exists
  <1>6. QED
    BY <1>3, <1>4, <1>5 DEF ShopInv

\* A request is over, and the tables are as they were.
LEMMA ClosedKeeps ==
  ASSUME ShopInv, NEW s \in Session, request' = [request EXCEPT ![s] = Shop!NoRequest],
         UNCHANGED <<brands, products, announced, offered>>
  PROVE  ShopInv'
  <1>1. Shop!NoRequest \in Shop!Request /\ Shop!NoRequest.open = "none"
    BY DEF Shop!NoRequest, Shop!Request
  <1>2. /\ request' \in [Session -> Shop!Request]
        /\ \A z \in Session : request'[z] = IF z = s THEN Shop!NoRequest ELSE request[z]
    BY <1>1 DEF ShopInv, Shop!TypeOK
  <1>3. Shop!TypeOK'
    BY <1>2 DEF ShopInv, Shop!TypeOK
  <1>4. ProductsHaveBrand' /\ PublishedIsKnown'
    BY DEF ShopInv, ProductsHaveBrand, Shop!ProductsHaveBrand, Shop!Exists, PublishedIsKnown
  <1>5. RequestsSound'
    BY <1>1, <1>2 DEF ShopInv, RequestsSound, Shop!Exists
  <1>6. QED
    BY <1>3, <1>4, <1>5 DEF ShopInv

\* The COMMIT of a product: its row stays one, under a brand that exists, and what is
\* published by it is announced and goes into history.
LEMMA CommitProductKeeps ==
  ASSUME ShopInv, NEW s \in Session, Shop!CommitProduct(s)
  PROVE  /\ ShopInv'
         /\ announced \subseteq announced'
         /\ \A k \in Sku : offered[k] \subseteq offered'[k]
  <1> DEFINE r == request[s]
             k == r.sku
             row == Shop!Flush(products[k], r)
  <1>1. r \in Shop!Request /\ r.open \in {"create", "update", "move"}
    BY DEF Shop!CommitProduct, ShopInv, Shop!TypeOK
  <1>2. k \in Sku /\ r.new \in Shop!Row
    BY <1>1 DEF Shop!Request, Shop!NoRequest
  <1>3. row \in Shop!Row /\ row.brand \in brands
    <2>1. CASE r.open = "create"
      BY <1>2, <2>1 DEF Shop!CommitProduct, Shop!Consistent, Shop!Flush
    <2>2. CASE r.open \in {"update", "move"}
      <3>1. products[k] \in Shop!Row /\ products[k].brand \in brands
        BY <1>2, <2>2 DEF ShopInv, RequestsSound, Shop!Exists, Shop!TypeOK,
             ProductsHaveBrand, Shop!ProductsHaveBrand
      <3>2. r.new.brand = r.loaded.brand \/ r.new.brand \in brands
        BY <2>2 DEF Shop!CommitProduct, Shop!Consistent
      <3>3. QED
        BY <1>2, <2>2, <3>1, <3>2, FlushParts
    <2>3. QED
      BY <1>1, <2>1, <2>2
  <1>4. row.status = "published" =>
          products[k].status = "published" \/ Shop!Announces(r)
    <2>1. CASE r.open = "create"
      BY <2>1 DEF Shop!Flush, ShopInv, RequestsSound
    <2>2. CASE r.open \in {"update", "move"}
      <3>1. products[k] \in Shop!Row
        BY <1>2, <2>2 DEF ShopInv, RequestsSound, Shop!Exists, Shop!TypeOK
      <3>2. row.status = IF r.new.status # r.loaded.status THEN r.new.status ELSE products[k].status
        BY <1>2, <2>2, <3>1, FlushParts
      <3>3. QED
        BY <2>2, <3>2 DEF Shop!Announces, ShopInv, RequestsSound
    <2>3. QED
      BY <1>1, <2>1, <2>2
  <1>5. Shop!TermsOf(row) \in Shop!Terms
    BY <1>3 DEF Shop!TermsOf, Shop!Terms, Shop!Row
  <1>6. /\ products' = [products EXCEPT ![k] = row]
        /\ announced' = IF Shop!Announces(r) THEN announced \cup {k} ELSE announced
        /\ offered' = [offered EXCEPT ![k] = IF row.status = "published"
                         THEN offered[k] \cup {Shop!TermsOf(row)} ELSE offered[k]]
        /\ request' = [request EXCEPT ![s] = Shop!NoRequest]
        /\ brands' = brands
    BY DEF Shop!CommitProduct
  <1> HIDE DEF row
  <1>7. /\ Shop!NoRequest \in Shop!Request /\ Shop!NoRequest.open = "none"
        /\ request \in [Session -> Shop!Request]
    BY DEF Shop!NoRequest, Shop!Request, ShopInv, Shop!TypeOK
  <1>8. /\ request' \in [Session -> Shop!Request]
        /\ \A z \in Session : request'[z] = IF z = s THEN Shop!NoRequest ELSE request[z]
    BY <1>6, <1>7
  <1>9. /\ products' \in [Sku -> Shop!Row \cup {Shop!NoRow}]
        /\ \A l \in Sku : products'[l] = IF l = k THEN row ELSE products[l]
    BY <1>2, <1>3, <1>6 DEF ShopInv, Shop!TypeOK
  <1>10. /\ offered' \in [Sku -> SUBSET Shop!Terms]
         /\ \A l \in Sku : offered[l] \subseteq offered'[l]
         /\ row.status = "published" => Shop!TermsOf(row) \in offered'[k]
    BY <1>2, <1>5, <1>6 DEF ShopInv, Shop!TypeOK
  <1>11. announced' \subseteq Sku /\ announced \subseteq announced'
    BY <1>2, <1>6 DEF ShopInv, Shop!TypeOK
  <1>12. Shop!TypeOK'
    BY <1>6, <1>8, <1>9, <1>10, <1>11 DEF ShopInv, Shop!TypeOK
  <1>13. ProductsHaveBrand'
    BY <1>3, <1>6, <1>9 DEF ShopInv, ProductsHaveBrand, Shop!ProductsHaveBrand, Shop!Exists
  <1>14. RequestsSound'
    <2>1. ASSUME NEW z \in Session, request[z].open \in {"update", "move"}
          PROVE  products'[request[z].sku] # Shop!NoRow
      <3>1. request[z].sku \in Sku
        BY <1>7, <2>1 DEF Shop!Request, Shop!NoRequest
      <3>2. products[request[z].sku] # Shop!NoRow
        BY <2>1 DEF ShopInv, RequestsSound, Shop!Exists
      <3>3. QED
        BY <1>3, <1>9, <3>1, <3>2, NoRowIsNoRow
    <2>2. ASSUME NEW z \in Session
          PROVE  LET q == request'[z] IN
                 /\ q.open = "create" => q.new.status = "draft"
                 /\ q.open = "update" => q.new.status = q.loaded.status
                 /\ q.open \in {"update", "move"} => products'[q.sku] # Shop!NoRow
      <3>1. CASE z = s
        BY <1>7, <1>8, <3>1
      <3>2. CASE z # s
        BY <1>8, <2>1, <3>2 DEF ShopInv, RequestsSound
      <3>3. QED
        BY <3>1, <3>2
    <2>3. QED
      BY <2>2 DEF RequestsSound, Shop!Exists
  <1>15. ASSUME NEW l \in Sku, products'[l].status = "published"
         PROVE  l \in announced' /\ Shop!TermsOf(products'[l]) \in offered'[l]
    <2>1. CASE l = k
      BY <1>2, <1>4, <1>6, <1>9, <1>10, <1>15, <2>1 DEF ShopInv, PublishedIsKnown
    <2>2. CASE l # k
      BY <1>9, <1>10, <1>11, <1>15, <2>2 DEF ShopInv, PublishedIsKnown
    <2>3. QED
      BY <2>1, <2>2
  <1>16. PublishedIsKnown'
    BY <1>15 DEF PublishedIsKnown, Shop!TermsOf
  <1>17. QED
    BY <1>10, <1>11, <1>12, <1>13, <1>14, <1>16 DEF ShopInv

\* A brand is deleted when no product has it.
LEMMA CommitDeleteKeeps ==
  ASSUME ShopInv, NEW s \in Session, Shop!CommitDelete(s)
  PROVE  ShopInv'
  <1> DEFINE b == request[s].brand
  <1>1. /\ request' = [request EXCEPT ![s] = Shop!NoRequest] /\ brands' = brands \ {b}
        /\ UNCHANGED <<products, announced, offered>>
        /\ \A k \in Sku : products[k].brand # b
    BY DEF Shop!CommitDelete, Shop!Consistent, Shop!ProductsOf
  <1>2. Shop!NoRequest \in Shop!Request /\ Shop!NoRequest.open = "none"
    BY DEF Shop!NoRequest, Shop!Request
  <1>3. /\ request' \in [Session -> Shop!Request]
        /\ \A z \in Session : request'[z] = IF z = s THEN Shop!NoRequest ELSE request[z]
    BY <1>1, <1>2 DEF ShopInv, Shop!TypeOK
  <1>4. Shop!TypeOK'
    BY <1>1, <1>3 DEF ShopInv, Shop!TypeOK
  <1>5. ProductsHaveBrand'
    BY <1>1 DEF ShopInv, ProductsHaveBrand, Shop!ProductsHaveBrand, Shop!Exists
  <1>6. PublishedIsKnown'
    BY <1>1 DEF ShopInv, PublishedIsKnown
  <1>7. RequestsSound'
    BY <1>1, <1>2, <1>3 DEF ShopInv, RequestsSound, Shop!Exists
  <1>8. QED
    BY <1>4, <1>5, <1>6, <1>7 DEF ShopInv

LEMMA ShopStep ==
  ASSUME ShopInv, Shop!Next
  PROVE  /\ ShopInv'
         /\ announced \subseteq announced'
         /\ \A k \in Sku : offered[k] \subseteq offered'[k]
  <1> DEFINE Grows == /\ announced \subseteq announced'
                      /\ \A k \in Sku : offered[k] \subseteq offered'[k]
  <1>0. products \in [Sku -> Shop!Row \cup {Shop!NoRow}]
    BY DEF ShopInv, Shop!TypeOK
  <1>1. ASSUME NEW b \in Brand, Shop!CreateBrand(b) PROVE ShopInv' /\ Grows
    BY <1>1 DEF Shop!CreateBrand, ShopInv, Shop!TypeOK, ProductsHaveBrand,
         Shop!ProductsHaveBrand, RequestsSound, PublishedIsKnown, Shop!Exists
  <1>2. ASSUME NEW s \in Session, NEW r \in Shop!Request, Shop!Ask(s, r) PROVE Grows
    BY <1>2 DEF Shop!Ask
  <1>3. ASSUME NEW s \in Session, NEW k \in Sku, NEW b \in Brand, NEW price \in Price,
               NEW moq \in Moq, Shop!CreateProduct(s, k, b, price, moq)
        PROVE  ShopInv' /\ Grows
    <2> DEFINE new == [status |-> "draft", brand |-> b, price |-> price, moq |-> moq]
               r == [open |-> "create", sku |-> k, new |-> new]
    <2>1. new \in Shop!Row /\ new.status = "draft"
      BY DEF Shop!Row, Shop!ProductStatus
    <2>2. Shop!Ask(s, r)
      BY <1>3 DEF Shop!CreateProduct
    <2> HIDE DEF new
    <2>3. r \in Shop!Request /\ r.open = "create" /\ r.new = new
      BY <2>1 DEF Shop!Request
    <2> HIDE DEF r
    <2>4. QED
      BY <1>2, <2>1, <2>2, <2>3, AskKeeps
  <1>4. ASSUME NEW s \in Session, NEW k \in Sku, NEW b \in Brand, NEW price \in Price,
               NEW moq \in Moq, Shop!UpdateProduct(s, k, b, price, moq)
        PROVE  ShopInv' /\ Grows
    <2> DEFINE old == products[k]
               new == [old EXCEPT !.brand = b, !.price = price, !.moq = moq]
               r == [open |-> "update", sku |-> k, loaded |-> old, new |-> new]
    <2>1. Shop!Ask(s, r) /\ Shop!Exists(k)
      BY <1>4 DEF Shop!UpdateProduct
    <2>2. old \in Shop!Row
      BY <1>0, <2>1 DEF Shop!Exists
    <2>3. new \in Shop!Row /\ new.status = old.status
      BY <2>2 DEF Shop!Row
    <2> HIDE DEF new, old
    <2>4. /\ r \in Shop!Request /\ r.open = "update" /\ r.sku = k
          /\ r.loaded = old /\ r.new = new
      BY <2>2, <2>3 DEF Shop!Request
    <2> HIDE DEF r
    <2>5. QED
      BY <1>2, <2>1, <2>3, <2>4, AskKeeps
  <1>5. ASSUME NEW s \in Session, NEW k \in Sku, NEW target \in {"published", "archived"},
               Shop!MoveProduct(s, k, target)
        PROVE  ShopInv' /\ Grows
    <2> DEFINE old == products[k]
               new == [old EXCEPT !.status = target]
               r == [open |-> "move", sku |-> k, loaded |-> old, new |-> new]
    <2>1. Shop!Ask(s, r) /\ Shop!Exists(k)
      BY <1>5 DEF Shop!MoveProduct
    <2>2. old \in Shop!Row
      BY <1>0, <2>1 DEF Shop!Exists
    <2>3. new \in Shop!Row
      BY <2>2 DEF Shop!Row, Shop!ProductStatus
    <2> HIDE DEF new, old
    <2>4. r \in Shop!Request /\ r.open = "move" /\ r.sku = k
      BY <2>2, <2>3 DEF Shop!Request
    <2> HIDE DEF r
    <2>5. QED
      BY <1>2, <2>1, <2>4, AskKeeps
  <1>6. ASSUME NEW s \in Session, NEW b \in Brand, Shop!DeleteBrand(s, b)
        PROVE  ShopInv' /\ Grows
    <2> DEFINE r == [open |-> "delete", brand |-> b]
    <2>1. Shop!Ask(s, r) /\ r \in Shop!Request /\ r.open = "delete"
      BY <1>6 DEF Shop!DeleteBrand, Shop!Request
    <2> HIDE DEF r
    <2>2. QED
      BY <1>2, <2>1, AskKeeps
  <1>7. ASSUME NEW s \in Session, Shop!CommitProduct(s) PROVE ShopInv' /\ Grows
    BY <1>7, CommitProductKeeps
  <1>8. ASSUME NEW s \in Session, Shop!CommitDelete(s) PROVE ShopInv' /\ Grows
    <2>1. Grows
      BY <1>8 DEF Shop!CommitDelete
    <2>2. QED
      BY <1>8, <2>1, CommitDeleteKeeps
  <1>9. ASSUME NEW s \in Session, Shop!Rollback(s) PROVE ShopInv' /\ Grows
    <2>1. /\ request' = [request EXCEPT ![s] = Shop!NoRequest]
          /\ UNCHANGED <<brands, products, announced, offered>>
      BY <1>9 DEF Shop!Rollback
    <2>2. QED
      BY <2>1, ClosedKeeps
  <1> HIDE DEF Grows
  <1>10. ShopInv' /\ Grows
    BY <1>1, <1>3, <1>4, <1>5, <1>6, <1>7, <1>8, <1>9 DEF Shop!Next
  <1>11. QED
    BY <1>10 DEF Grows

LEMMA ShopKept ==
  ASSUME ShopInv, UNCHANGED catalogue
  PROVE  ShopInv'
  BY DEF catalogue, ShopInv, Shop!TypeOK, ProductsHaveBrand, Shop!ProductsHaveBrand,
     RequestsSound, PublishedIsKnown, Shop!Exists

-----------------------------------------------------------------------------
(* The retailers *)

LEMMA RegisterKeeps ==
  ASSUME RegistryInv, NEW r \in Retailer, Registry!Register(r)
  PROVE  RegistryInv' /\ welcomed' = welcomed
  <1>1. /\ retailers' \in [Retailer -> Registry!RetailerStatus \cup {"absent"}]
        /\ \A q \in Retailer : retailers'[q] = IF q = r THEN "pending" ELSE retailers[q]
        /\ review' = review /\ welcomed' = welcomed
    BY DEF Registry!Register, Registry!RetailerStatus, RegistryInv, Registry!TypeOK
  <1>2. QED
    BY <1>1 DEF RegistryInv, Registry!TypeOK, ApprovedIsWelcome

LEMMA ReviewKeeps ==
  ASSUME RegistryInv, NEW v \in Reviewer, NEW r \in Retailer,
         NEW target \in Registry!Verdict, Registry!ReviewRetailer(v, r, target)
  PROVE  RegistryInv' /\ welcomed' = welcomed
  <1> DEFINE c == [open |-> TRUE, retailer |-> r, loaded |-> retailers[r], target |-> target]
  <1>1. retailers[r] \in Registry!RetailerStatus
    BY DEF Registry!ReviewRetailer, RegistryInv, Registry!TypeOK
  <1>2. c \in Registry!Review
    BY <1>1 DEF Registry!Review
  <1>3. /\ review' = [review EXCEPT ![v] = c]
        /\ UNCHANGED <<retailers, welcomed>>
    BY DEF Registry!ReviewRetailer
  <1> HIDE DEF c
  <1>4. QED
    BY <1>2, <1>3 DEF RegistryInv, Registry!TypeOK, ApprovedIsWelcome

\* Who is approved by a COMMIT is announced by it.
LEMMA CommitReviewKeeps ==
  ASSUME RegistryInv, NEW v \in Reviewer, Registry!CommitReview(v)
  PROVE  RegistryInv' /\ welcomed \subseteq welcomed'
  <1> DEFINE c == review[v]
  <1>1. c \in Registry!Review /\ c.open
    BY DEF Registry!CommitReview, RegistryInv, Registry!TypeOK
  <1>2. c.retailer \in Retailer /\ c.target \in Registry!Verdict
    <2>1. ~Registry!NoReview.open
      BY DEF Registry!NoReview
    <2>2. c \in [open : {TRUE}, retailer : Retailer, loaded : Registry!RetailerStatus,
                target : Registry!Verdict]
      BY <1>1, <2>1, Zenon DEF Registry!Review
    <2>3. QED
      BY <2>2
  <1>3. /\ retailers' = [retailers EXCEPT ![c.retailer] =
                           IF c.target # c.loaded THEN c.target ELSE retailers[c.retailer]]
        /\ welcomed' = IF c.target = "approved" THEN welcomed \cup {c.retailer} ELSE welcomed
        /\ review' = [review EXCEPT ![v] = Registry!NoReview]
    BY DEF Registry!CommitReview
  <1>4. Registry!NoReview \in Registry!Review /\ Registry!Verdict \subseteq Registry!RetailerStatus
    BY DEF Registry!Review, Registry!Verdict, Registry!RetailerStatus
  <1> HIDE DEF c
  <1>5. /\ retailers' \in [Retailer -> Registry!RetailerStatus \cup {"absent"}]
        /\ \A q \in Retailer : retailers'[q] # retailers[q] => q = c.retailer /\ retailers'[q] = c.target
    BY <1>2, <1>3, <1>4 DEF RegistryInv, Registry!TypeOK
  <1>6. Registry!TypeOK'
    BY <1>2, <1>3, <1>4, <1>5 DEF RegistryInv, Registry!TypeOK
  <1>7. ApprovedIsWelcome'
    BY <1>3, <1>5 DEF RegistryInv, ApprovedIsWelcome
  <1>8. QED
    BY <1>3, <1>6, <1>7 DEF RegistryInv

LEMMA RegistryKept ==
  ASSUME RegistryInv, UNCHANGED registry
  PROVE  RegistryInv'
  BY DEF registry, RegistryInv, Registry!TypeOK, ApprovedIsWelcome

-----------------------------------------------------------------------------
(* The checkouts *)

LEMMA TryIs ==
  ASSUME NEW i \in Try
  PROVE  i[1] \in WooOrder /\ i[2] \in 1 .. MaxTries /\ i = <<i[1], i[2]>>
  BY DEF Try

LEMMA MetaIsTry ==
  ASSUME NEW w \in WooOrder, NEW new \in Woo, NEW n \in new.meta
  PROVE  <<w, n>> \in Try
  BY DEF Woo, Try

\* A request of PHP goes on or ends, and Core is not concerned.
LEMMA PhpKeeps ==
  ASSUME PartsOK, PlacementsSound, CheckoutsSound,
         NEW i \in Try, NEW point \in PhpPoint, NEW new \in Woo,
         php' = [php EXCEPT ![i] = point], woo' = [woo EXCEPT ![i[1]] = new],
         UNCHANGED <<catalogue, registry, linked, placement>>,
         faults' \in Nat, lost' \subseteq Try, overlapped' \subseteq WooOrder,
         new.form = woo[i[1]].form, woo[i[1]].meta # {} => new.meta # {},
         \A n \in new.meta : placement[<<i[1], n>>].at = "placed",
         point \in Unsent => placement[i].at = "none",
         (point = "finish" \/ new.status = "processing") /\ new.form = "block" => new.meta # {}
  PROVE  PartsOK' /\ PlacementsSound' /\ CheckoutsSound'
  <1> DEFINE w == i[1]
  <1>1. w \in WooOrder
    BY TryIs
  <1>2. /\ php' \in [Try -> PhpPoint] /\ woo' \in [WooOrder -> Woo]
        /\ php'[i] = point /\ woo'[w] = new
        /\ \A j \in Try : j # i => php'[j] = php[j]
        /\ \A v \in WooOrder : v # w => woo'[v] = woo[v]
    BY <1>1 DEF PartsOK
  <1>3. PartsOK'
    BY <1>2 DEF PartsOK
  <1>4. PlacementsSound'
    BY DEF PlacementsSound, catalogue, registry
  <1>5. ASSUME NEW j \in Try
        PROVE  /\ php'[j] \in Unsent => placement[j].at = "none"
               /\ php'[j] = "finish" /\ woo'[j[1]].form = "block" => woo'[j[1]].meta # {}
    <2>1. CASE j = i
      BY <1>2, <2>1
    <2>2. CASE j # i /\ j[1] = w
      BY <1>2, <2>2 DEF CheckoutsSound
    <2>3. CASE j[1] # w
      BY <1>2, <2>3, TryIs DEF CheckoutsSound
    <2>4. QED
      BY <2>1, <2>2, <2>3
  <1>6. ASSUME NEW v \in WooOrder
        PROVE  /\ \A n \in woo'[v].meta : placement[<<v, n>>].at = "placed"
               /\ woo'[v].status = "processing" /\ woo'[v].form = "block" => woo'[v].meta # {}
    <2>1. CASE v = w
      BY <1>2, <2>1
    <2>2. CASE v # w
      BY <1>2, <2>2 DEF CheckoutsSound
    <2>3. QED
      BY <2>1, <2>2
  <1>7. CheckoutsSound'
    BY <1>5, <1>6 DEF CheckoutsSound
  <1>8. QED
    BY <1>3, <1>4, <1>7

\* The parts of a Woo order that an assignment leaves alone.
LEMMA WooParts ==
  ASSUME NEW new \in Woo
  PROVE  /\ \A status \in {"none", "pending", "failed", "processing"} :
              /\ [new EXCEPT !.status = status] \in Woo
              /\ [new EXCEPT !.status = status].status = status
              /\ [new EXCEPT !.status = status].form = new.form
              /\ [new EXCEPT !.status = status].meta = new.meta
         /\ \A meta \in SUBSET (1 .. MaxTries) :
              /\ [new EXCEPT !.meta = meta] \in Woo
              /\ [new EXCEPT !.meta = meta].status = new.status
              /\ [new EXCEPT !.meta = meta].form = new.form
              /\ [new EXCEPT !.meta = meta].meta = meta
  BY DEF Woo

\* What a step of a request may rely on.
LEMMA PhpHas ==
  ASSUME CheckoutInv, NEW i \in Try
  PROVE  /\ PartsOK /\ PlacementsSound /\ CheckoutsSound
         /\ i[1] \in WooOrder /\ woo[i[1]] \in Woo
         /\ woo = [woo EXCEPT ![i[1]] = woo[i[1]]]
         /\ \A n \in woo[i[1]].meta : placement[<<i[1], n>>].at = "placed"
         /\ PhpPoint = {"idle", "await", "finish"} \cup Unsent
  BY TryIs DEF CheckoutInv, PartsOK, CheckoutsSound, PhpPoint, Unsent

LEMMA BeginKeeps ==
  ASSUME CheckoutInv, NEW i \in Try, BeginCheckout(i)
  PROVE  PartsOK' /\ PlacementsSound' /\ CheckoutsSound'
  <1>1. /\ php' = [php EXCEPT ![i] = "product"] /\ placement[i].at = "none"
        /\ UNCHANGED <<catalogue, registry, linked, placement, woo, faults, lost>>
        /\ overlapped' = overlapped \cup {j[1] : j \in Rivals(i)}
        /\ woo[i[1]].status # "processing"
    BY DEF BeginCheckout, Unused, Goto, OnlyPhp
  <1>2. {j[1] : j \in Rivals(i)} \subseteq WooOrder
    BY TryIs DEF Rivals
  <1>3. /\ faults' \in Nat /\ lost' \subseteq Try /\ overlapped' \subseteq WooOrder
        /\ woo' = [woo EXCEPT ![i[1]] = woo[i[1]]] /\ "product" \in PhpPoint
    BY <1>1, <1>2, PhpHas DEF PartsOK, Unsent
  <1>4. QED
    BY <1>1, <1>3, PhpHas, PhpKeeps

LEMMA CheckKeeps ==
  ASSUME CheckoutInv, NEW i \in Try, CheckQuantity(i)
  PROVE  PartsOK' /\ PlacementsSound' /\ CheckoutsSound'
  <1> DEFINE point == IF Quantity[i[1]] >= ShownMoq(i[1]) THEN "create" ELSE "idle"
  <1>1. /\ php' = [php EXCEPT ![i] = point] /\ placement[i].at = "none"
        /\ UNCHANGED <<catalogue, registry, linked, placement, woo, history>>
    BY PhpHas DEF CheckQuantity, Goto, OnlyPhp, CheckoutsSound, Unsent
  <1>2. point \in {"create", "idle"} /\ point \in PhpPoint
    BY DEF PhpPoint
  <1> HIDE DEF point
  <1>3. /\ faults' \in Nat /\ lost' \subseteq Try /\ overlapped' \subseteq WooOrder
        /\ woo' = [woo EXCEPT ![i[1]] = woo[i[1]]]
        /\ woo[i[1]].status = "processing" /\ woo[i[1]].form = "block" => woo[i[1]].meta # {}
    BY <1>1, PhpHas DEF PartsOK, history, CheckoutsSound
  <1>4. QED
    BY <1>1, <1>2, <1>3, PhpHas, PhpKeeps

LEMMA CreateKeeps ==
  ASSUME CheckoutInv, NEW i \in Try, CreateWooOrder(i)
  PROVE  PartsOK' /\ PlacementsSound' /\ CheckoutsSound'
  <1> DEFINE new == [woo[i[1]] EXCEPT !.status = "pending"]
  <1>1. /\ placement[i].at = "none"
        /\ UNCHANGED <<catalogue, registry, linked, placement, history>>
    BY PhpHas DEF CreateWooOrder, OnlyPhp, CheckoutsSound, Unsent
  <1>2. /\ faults' \in Nat /\ lost' \subseteq Try /\ overlapped' \subseteq WooOrder
        /\ "submit" \in PhpPoint /\ "idle" \in PhpPoint
    BY <1>1, PhpHas DEF PartsOK, history, Unsent
  <1>3. CASE woo[i[1]].status = "processing"
    <2>1. /\ php' = [php EXCEPT ![i] = "idle"] /\ woo' = [woo EXCEPT ![i[1]] = woo[i[1]]]
          /\ woo[i[1]].form = "block" => woo[i[1]].meta # {}
      BY <1>3, PhpHas DEF CreateWooOrder, Goto, CheckoutsSound
    <2>2. "idle" \notin Unsent
      BY DEF Unsent
    <2>3. QED
      BY <1>1, <1>2, <2>1, <2>2, PhpHas, PhpKeeps
  <1>4. CASE woo[i[1]].status # "processing"
    <2>1. php' = [php EXCEPT ![i] = "submit"] /\ woo' = [woo EXCEPT ![i[1]] = new]
      BY <1>4 DEF CreateWooOrder, Goto
    <2>2. /\ new \in Woo /\ new.status = "pending"
          /\ new.form = woo[i[1]].form /\ new.meta = woo[i[1]].meta
      BY PhpHas, WooParts
    <2> HIDE DEF new
    <2>3. QED
      BY <1>1, <1>2, <2>1, <2>2, PhpHas, PhpKeeps
  <1>5. QED
    BY <1>3, <1>4

\* The Woo order of a failed checkout is not one of a block checkout that goes on.
LEMMA FailureKeeps ==
  ASSUME CheckoutInv, NEW i \in Try, AfterFailure(i),
         UNCHANGED <<catalogue, registry, linked, placement>>,
         faults' \in Nat, lost' \subseteq Try, overlapped' \subseteq WooOrder
  PROVE  PartsOK' /\ PlacementsSound' /\ CheckoutsSound'
  <1> DEFINE new == [woo[i[1]] EXCEPT !.status = "failed"]
             point == IF woo[i[1]].form = "block" THEN "idle" ELSE "finish"
  <1>1. /\ new \in Woo /\ new.status = "failed"
        /\ new.form = woo[i[1]].form /\ new.meta = woo[i[1]].meta
    BY PhpHas, WooParts
  <1>2. woo' = [woo EXCEPT ![i[1]] = new] /\ php' = [php EXCEPT ![i] = point]
    BY DEF AfterFailure, Goto
  <1>3. /\ point \in {"idle", "finish"} /\ (point = "finish" => woo[i[1]].form # "block")
        /\ point \in PhpPoint /\ point \notin Unsent
    BY DEF PhpPoint, Unsent
  <1> HIDE DEF new, point
  <1>4. QED
    BY <1>1, <1>2, <1>3, PhpHas, PhpKeeps

LEMMA AnswerKeeps ==
  ASSUME CheckoutInv, NEW i \in Try, Answer(i)
  PROVE  PartsOK' /\ PlacementsSound' /\ CheckoutsSound'
  <1>1. /\ UNCHANGED <<catalogue, registry, linked, placement, history>>
        /\ faults' \in Nat /\ lost' \subseteq Try /\ overlapped' \subseteq WooOrder
    BY PhpHas DEF Answer, OnlyPhp, history, PartsOK
  <1>2. CASE placement[i].at # "placed"
    BY <1>1, <1>2, FailureKeeps DEF Answer
  <1>3. CASE placement[i].at = "placed"
    <2>1. PICK kept \in SUBSET woo[i[1]].meta :
            woo' = [woo EXCEPT ![i[1]].meta = kept \cup {i[2]}]
      BY <1>3 DEF Answer
    <2> DEFINE meta == kept \cup {i[2]}
               new == [woo[i[1]] EXCEPT !.meta = meta]
    <2>2. meta \in SUBSET (1 .. MaxTries) /\ meta # {}
      BY PhpHas, TryIs DEF Woo
    <2>3. \A n \in meta : placement[<<i[1], n>>].at = "placed"
      BY <1>3, PhpHas, TryIs
    <2>4. woo' = [woo EXCEPT ![i[1]] = new] /\ php' = [php EXCEPT ![i] = "finish"]
      BY <1>3, <2>1 DEF Answer, Goto
    <2> HIDE DEF meta
    <2>5. /\ new \in Woo /\ new.status = woo[i[1]].status
          /\ new.form = woo[i[1]].form /\ new.meta = meta
      <3>1. woo[i[1]] \in Woo
        BY PhpHas
      <3>2. QED
        BY <2>2, <3>1 DEF Woo
    <2> HIDE DEF new
    <2>6. "finish" \in PhpPoint /\ "finish" \notin Unsent
      BY DEF PhpPoint, Unsent
    <2>7. QED
      BY <1>1, <2>2, <2>3, <2>4, <2>5, <2>6, PhpHas, PhpKeeps
  <1>4. QED
    BY <1>2, <1>3

LEMMA GiveUpKeeps ==
  ASSUME CheckoutInv, NEW i \in Try, GiveUp(i)
  PROVE  PartsOK' /\ PlacementsSound' /\ CheckoutsSound'
  <1>1. /\ UNCHANGED <<catalogue, registry, linked, placement>> /\ AfterFailure(i)
        /\ faults' \in Nat /\ lost' \subseteq Try /\ overlapped' \subseteq WooOrder
    BY PhpHas DEF GiveUp, Fault, OnlyPhp, PartsOK
  <1>2. QED
    BY <1>1, FailureKeeps

LEMMA FinishKeeps ==
  ASSUME CheckoutInv, NEW i \in Try, Finish(i) \/ Die(i)
  PROVE  PartsOK' /\ PlacementsSound' /\ CheckoutsSound'
  <1>1. /\ UNCHANGED <<catalogue, registry, linked, placement>>
        /\ faults' \in Nat /\ lost' \subseteq Try /\ overlapped' \subseteq WooOrder
        /\ php' = [php EXCEPT ![i] = "idle"]
        /\ "idle" \in PhpPoint /\ "idle" \notin Unsent
    BY PhpHas DEF Finish, Die, Fault, OnlyPhp, PartsOK, Goto, history, Unsent
  <1>2. CASE Finish(i)
    <2> DEFINE new == [woo[i[1]] EXCEPT !.status = "processing"]
    <2>1. new \in Woo /\ new.form = woo[i[1]].form /\ new.meta = woo[i[1]].meta
      BY PhpHas, WooParts
    <2>2. /\ woo' = [woo EXCEPT ![i[1]] = new]
          /\ woo[i[1]].form = "block" => woo[i[1]].meta # {}
      BY <1>2, PhpHas DEF Finish, CheckoutsSound
    <2> HIDE DEF new
    <2>3. QED
      BY <1>1, <2>1, <2>2, PhpHas, PhpKeeps
  <1>3. CASE Die(i)
    <2>1. /\ woo' = [woo EXCEPT ![i[1]] = woo[i[1]]]
          /\ woo[i[1]].status = "processing" /\ woo[i[1]].form = "block" => woo[i[1]].meta # {}
      BY <1>3, PhpHas DEF Die, CheckoutsSound
    <2>2. QED
      BY <1>1, <2>1, PhpHas, PhpKeeps
  <1>4. QED
    BY <1>2, <1>3

-----------------------------------------------------------------------------
(* The placements *)

LEMMA PlacementParts ==
  ASSUME NEW p \in Placement,
         NEW point \in {"none", "retailer", "product", "commit", "refused", "placed"}
  PROVE  /\ [p EXCEPT !.at = point] \in Placement
         /\ [p EXCEPT !.at = point].at = point
         /\ [p EXCEPT !.at = point].terms = p.terms
  BY DEF Placement

\* A placement that is not made yet changes, and what it relies on is true of the
\* history; no request that has sent none is concerned.
LEMMA PlacementKeeps ==
  ASSUME CheckoutInv, NEW i \in Try, NEW new \in Placement,
         placement' = [placement EXCEPT ![i] = new],
         UNCHANGED <<catalogue, registry, linked, woo, history>>,
         php' \in [Try -> PhpPoint], \A j \in Try : j # i => php'[j] = php[j],
         php'[i] \notin Unsent, php'[i] = php[i] \/ php'[i] # "finish",
         placement[i].at \in {"none", "retailer", "product", "commit"},
         new.at \in {"product", "commit", "placed"} => Customer[i[1]] \in welcomed,
         new.at \in {"commit", "placed"} =>
           /\ Item[i[1]] \in announced
           /\ new.terms \in offered[Item[i[1]]]
           /\ Quantity[i[1]] >= new.terms.moq
  PROVE  /\ PartsOK' /\ PlacementsSound' /\ CheckoutsSound'
         /\ placement'[i] = new
         /\ \A j \in Try : j # i => placement'[j] = placement[j]
  <1>1. PartsOK /\ PlacementsSound /\ CheckoutsSound
    BY DEF CheckoutInv
  <1>2. /\ placement' \in [Try -> Placement] /\ placement'[i] = new
        /\ \A j \in Try : j # i => placement'[j] = placement[j]
    BY <1>1 DEF PartsOK
  <1>3. PartsOK'
    BY <1>1, <1>2 DEF PartsOK, history
  <1>4. ASSUME NEW j \in Try
        PROVE  /\ placement'[j].at \in {"product", "commit", "placed"} => Customer[j[1]] \in welcomed
               /\ placement'[j].at \in {"commit", "placed"} =>
                    /\ Item[j[1]] \in announced
                    /\ placement'[j].terms \in offered[Item[j[1]]]
                    /\ Quantity[j[1]] >= placement'[j].terms.moq
    <2>1. CASE j = i
      BY <1>2, <2>1
    <2>2. CASE j # i
      BY <1>1, <1>2, <2>2 DEF PlacementsSound
    <2>3. QED
      BY <2>1, <2>2
  <1>5. PlacementsSound'
    BY <1>4 DEF PlacementsSound, catalogue, registry
  <1>6. ASSUME NEW j \in Try
        PROVE  /\ php'[j] \in Unsent => placement'[j].at = "none"
               /\ php'[j] = "finish" /\ woo[j[1]].form = "block" => woo[j[1]].meta # {}
    BY <1>1, <1>2 DEF CheckoutsSound
  <1>7. ASSUME NEW v \in WooOrder, NEW n \in woo[v].meta
        PROVE  placement'[<<v, n>>].at = "placed"
    <2>1. <<v, n>> \in Try /\ placement[<<v, n>>].at = "placed"
      BY <1>1, MetaIsTry DEF CheckoutsSound, PartsOK
    <2>2. QED
      BY <1>2, <2>1
  <1>8. CheckoutsSound'
    BY <1>1, <1>6, <1>7 DEF CheckoutsSound
  <1>9. QED
    BY <1>2, <1>3, <1>5, <1>8

\* A placement is sent: it has not been sent before.
LEMMA SubmitKeeps ==
  ASSUME CheckoutInv, NEW i \in Try, Submit(i)
  PROVE  /\ PartsOK' /\ PlacementsSound' /\ CheckoutsSound'
         /\ placement[i].at = "none" /\ placement'[i].at = "retailer"
         /\ \A j \in Try : j # i => placement'[j] = placement[j] /\ php'[j] = php[j]
         /\ php'[i] = "await"
  <1> DEFINE new == [placement[i] EXCEPT !.at = "retailer"]
  <1>1. /\ PartsOK /\ placement[i] \in Placement /\ placement[i].at = "none"
        /\ "await" \in PhpPoint /\ "await" \notin Unsent
    BY PhpHas DEF PartsOK, CheckoutsSound, Submit, Unsent
  <1>2. new \in Placement /\ new.at = "retailer"
    BY <1>1, PlacementParts
  <1>3. /\ placement' = [placement EXCEPT ![i] = new] /\ php' = [php EXCEPT ![i] = "await"]
        /\ UNCHANGED <<catalogue, registry, linked, woo, history>>
    BY DEF Submit, Goto
  <1> HIDE DEF new
  <1>4. /\ php' \in [Try -> PhpPoint] /\ php'[i] = "await"
        /\ \A j \in Try : j # i => php'[j] = php[j]
    BY <1>1, <1>3 DEF PartsOK
  <1>5. QED
    BY <1>1, <1>2, <1>3, <1>4, PlacementKeeps

LEMMA LoadIs ==
  ASSUME CheckoutInv, NEW i \in Try, LoadRetailer(i)
  PROVE  \E new \in Placement :
           /\ placement' = [placement EXCEPT ![i] = new]
           /\ new.at \in {"product", "refused"}
           /\ new.at = "product" => Customer[i[1]] \in welcomed
  <1> DEFINE point == IF retailers[Customer[i[1]]] = "approved" THEN "product" ELSE "refused"
             new == [placement[i] EXCEPT !.at = point]
  <1>1. placement[i] \in Placement /\ Customer[i[1]] \in Retailer
    BY CartAssumption DEF CheckoutInv, PartsOK, Try
  <1>2. /\ point \in {"product", "refused"}
        /\ point = "product" => Customer[i[1]] \in welcomed
    BY <1>1 DEF CheckoutInv, RegistryInv, ApprovedIsWelcome
  <1>3. placement' = [placement EXCEPT ![i] = new]
    BY DEF LoadRetailer, Serve
  <1> HIDE DEF point
  <1>4. new \in Placement /\ new.at = point
    <2>1. point \in {"none", "retailer", "product", "commit", "refused", "placed"}
      BY <1>2
    <2>2. QED
      BY <1>1, <2>1, PlacementParts
  <1> HIDE DEF new
  <1>5. QED
    BY <1>2, <1>3, <1>4

\* What is read is a published product, and no less than its MOQ is wanted.
LEMMA ReadIs ==
  ASSUME CheckoutInv, NEW i \in Try, ReadProduct(i)
  PROVE  \E new \in Placement :
           /\ placement' = [placement EXCEPT ![i] = new]
           /\ new.at \in {"commit", "refused"}
           /\ new.at = "commit" => /\ Item[i[1]] \in announced
                                   /\ new.terms \in offered[Item[i[1]]]
                                   /\ Quantity[i[1]] >= new.terms.moq
  <1> DEFINE k == Item[i[1]]
             terms == Shop!TermsOf(products[k])
  <1>1. k \in Sku
    BY CartAssumption DEF Try
  <1>2. CASE Sellable(i[1])
    <2> DEFINE new == [at |-> "commit", terms |-> terms]
    <2>1. products[k] \in Shop!Row /\ products[k].status = "published"
      BY <1>1, <1>2 DEF Sellable, Shop!Exists, CheckoutInv, ShopInv, Shop!TypeOK
    <2>2. terms \in Shop!Terms /\ terms.moq = products[k].moq
      BY <2>1 DEF Shop!TermsOf, Shop!Terms, Shop!Row
    <2>3. k \in announced /\ terms \in offered[k] /\ Quantity[i[1]] >= terms.moq
      BY <1>1, <1>2, <2>1, <2>2 DEF CheckoutInv, ShopInv, PublishedIsKnown, Sellable
    <2>4. placement' = [placement EXCEPT ![i] = new]
      BY <1>2 DEF ReadProduct
    <2> HIDE DEF terms
    <2>5. new \in Placement /\ new.at = "commit" /\ new.terms = terms
      BY <2>2 DEF Placement
    <2> HIDE DEF new
    <2>6. QED
      BY <2>3, <2>4, <2>5
  <1>3. CASE ~Sellable(i[1])
    <2> DEFINE new == [at |-> "refused", terms |-> Null]
    <2>1. new \in Placement /\ new.at = "refused"
      BY DEF Placement
    <2>2. placement' = [placement EXCEPT ![i] = new]
      BY <1>3 DEF ReadProduct
    <2> HIDE DEF new
    <2>3. QED
      BY <2>1, <2>2
  <1>4. QED
    BY <1>2, <1>3

LEMMA CommitIs ==
  ASSUME CheckoutInv, NEW i \in Try, CommitOrder(i)
  PROVE  \E new \in Placement :
           /\ placement' = [placement EXCEPT ![i] = new]
           /\ new.at = "placed" /\ new.terms = placement[i].terms
  <1> DEFINE new == [placement[i] EXCEPT !.at = "placed"]
  <1>1. new \in Placement /\ new.at = "placed" /\ new.terms = placement[i].terms
    BY PlacementParts DEF CheckoutInv, PartsOK
  <1>2. placement' = [placement EXCEPT ![i] = new]
    BY DEF CommitOrder, Serve
  <1> HIDE DEF new
  <1>3. QED
    BY <1>1, <1>2

\* What Core does to one placement, whichever of the three steps it is.
LEMMA ServeIs ==
  ASSUME CheckoutInv, NEW i \in Try, ServePlacement(i)
  PROVE  /\ PartsOK' /\ PlacementsSound' /\ CheckoutsSound'
         /\ placement[i].at \in {"retailer", "product", "commit"}
         /\ \A j \in Try : j # i => placement'[j] = placement[j]
         /\ UNCHANGED <<catalogue, registry, linked, woo, php, history>>
  <1>1. UNCHANGED <<catalogue, registry, linked, woo, php, history>>
    BY DEF ServePlacement, LoadRetailer, ReadProduct, CommitOrder, Serve
  <1>2. PlacementsSound /\ php \in [Try -> PhpPoint]
    BY DEF CheckoutInv, PartsOK
  <1>3. placement[i].at \in {"retailer", "product", "commit"}
    BY DEF ServePlacement, LoadRetailer, ReadProduct, CommitOrder
  <1>4. php[i] \notin Unsent
    BY <1>3 DEF CheckoutInv, CheckoutsSound
  <1>5. \E new \in Placement :
          /\ placement' = [placement EXCEPT ![i] = new]
          /\ new.at \in {"product", "commit", "placed"} => Customer[i[1]] \in welcomed
          /\ new.at \in {"commit", "placed"} =>
               /\ Item[i[1]] \in announced
               /\ new.terms \in offered[Item[i[1]]]
               /\ Quantity[i[1]] >= new.terms.moq
    <2>1. CASE LoadRetailer(i)
      <3>1. PICK new \in Placement :
              /\ placement' = [placement EXCEPT ![i] = new]
              /\ new.at \in {"product", "refused"}
              /\ new.at = "product" => Customer[i[1]] \in welcomed
        BY <2>1, LoadIs
      <3>2. QED
        BY <3>1
    <2>2. CASE ReadProduct(i)
      <3>1. PICK new \in Placement :
              /\ placement' = [placement EXCEPT ![i] = new]
              /\ new.at \in {"commit", "refused"}
              /\ new.at = "commit" => /\ Item[i[1]] \in announced
                                      /\ new.terms \in offered[Item[i[1]]]
                                      /\ Quantity[i[1]] >= new.terms.moq
        BY <2>2, ReadIs
      <3>2. placement[i].at = "product" /\ Customer[i[1]] \in welcomed
        BY <1>2, <2>2 DEF ReadProduct, PlacementsSound
      <3>3. QED
        BY <3>1, <3>2
    <2>3. CASE CommitOrder(i)
      <3>1. PICK new \in Placement :
              /\ placement' = [placement EXCEPT ![i] = new]
              /\ new.at = "placed" /\ new.terms = placement[i].terms
        BY <2>3, CommitIs
      <3>2. placement[i].at = "commit"
        BY <2>3 DEF CommitOrder
      <3>3. QED
        BY <1>2, <3>1, <3>2 DEF PlacementsSound
    <2>4. QED
      BY <2>1, <2>2, <2>3 DEF ServePlacement
  <1>6. QED
    BY <1>1, <1>2, <1>3, <1>4, <1>5, PlacementKeeps

-----------------------------------------------------------------------------
(* The invariant *)

\* What was announced and offered stays so, whoever changes the catalogue and the
\* retailers meanwhile.
LEMMA HistoryKeeps ==
  ASSUME CheckoutInv, UNCHANGED <<woo, php, placement, lost, overlapped>>,
         linked' \subseteq Retailer, faults' \in Nat,
         announced \subseteq announced', welcomed \subseteq welcomed',
         \A k \in Sku : offered[k] \subseteq offered'[k]
  PROVE  PartsOK' /\ PlacementsSound' /\ CheckoutsSound'
  <1>1. PartsOK' /\ CheckoutsSound'
    BY DEF CheckoutInv, PartsOK, CheckoutsSound
  <1>2. \A i \in Try : Item[i[1]] \in Sku
    BY CartAssumption DEF Try
  <1>3. PlacementsSound'
    BY <1>2 DEF CheckoutInv, PlacementsSound
  <1>4. QED
    BY <1>1, <1>3

LEMMA CheckoutInit == Init => CheckoutInv
  <1> SUFFICES ASSUME Init PROVE CheckoutInv
    OBVIOUS
  <1>1. ShopInv
    <2>1. Shop!NoRequest \in Shop!Request /\ Shop!NoRequest.open = "none"
          /\ Shop!NoRow.status = "absent"
      BY DEF Shop!NoRequest, Shop!Request, Shop!NoRow
    <2>2. QED
      BY <2>1 DEF Init, Shop!Init, ShopInv, Shop!TypeOK, ProductsHaveBrand,
           Shop!ProductsHaveBrand, Shop!Exists, RequestsSound, PublishedIsKnown
  <1>2. RegistryInv
    BY DEF Init, Registry!Init, RegistryInv, Registry!TypeOK, Registry!Review, ApprovedIsWelcome
  <1>3. /\ \A w \in WooOrder : woo[w].status = "none" /\ woo[w].meta = {}
        /\ woo \in [WooOrder -> Woo]
        /\ NoPlacement \in Placement /\ NoPlacement.at = "none"
    BY DEF Init, Woo, Form, NoPlacement, Placement
  <1>4. PartsOK
    BY <1>3 DEF Init, PartsOK, PhpPoint
  <1>5. PlacementsSound
    BY <1>3 DEF Init, PlacementsSound
  <1>6. CheckoutsSound
    BY <1>3 DEF Init, CheckoutsSound, Unsent
  <1>7. QED
    BY <1>1, <1>2, <1>4, <1>5, <1>6 DEF CheckoutInv

LEMMA CheckoutStep == CheckoutInv /\ [Next]_vars => CheckoutInv'
  <1> SUFFICES ASSUME CheckoutInv, [Next]_vars PROVE CheckoutInv'
    OBVIOUS
  <1>0. ShopInv /\ RegistryInv /\ PartsOK /\ faults \in Nat
    BY DEF CheckoutInv, PartsOK
  <1>1. CASE Shop!Next /\ UNCHANGED <<registry, checkout>>
    <2>1. /\ ShopInv' /\ announced \subseteq announced'
          /\ \A k \in Sku : offered[k] \subseteq offered'[k]
      BY <1>0, <1>1, ShopStep
    <2>2. RegistryInv'
      BY <1>0, <1>1, RegistryKept
    <2>3. PartsOK' /\ PlacementsSound' /\ CheckoutsSound'
      BY <1>0, <1>1, <2>1, HistoryKeeps DEF checkout, history, registry, PartsOK
    <2>4. QED
      BY <2>1, <2>2, <2>3 DEF CheckoutInv
  <1>2. ASSUME NEW v \in Reviewer, UNCHANGED <<catalogue, checkout>>,
               \/ \E r \in Retailer, target \in Registry!Verdict :
                    Registry!ReviewRetailer(v, r, target)
               \/ Registry!CommitReview(v)
        PROVE  CheckoutInv'
    <2>1. RegistryInv' /\ welcomed \subseteq welcomed'
      BY <1>0, <1>2, ReviewKeeps, CommitReviewKeeps
    <2>2. ShopInv'
      BY <1>0, <1>2, ShopKept
    <2>3. PartsOK' /\ PlacementsSound' /\ CheckoutsSound'
      BY <1>0, <1>2, <2>1, HistoryKeeps DEF checkout, history, catalogue, PartsOK
    <2>4. QED
      BY <2>1, <2>2, <2>3 DEF CheckoutInv
  <1>3. ASSUME NEW r \in Retailer, RegisterCustomer(r) PROVE CheckoutInv'
    <2>1. /\ Registry!Register(r) /\ UNCHANGED <<catalogue, woo, php, placement, lost, overlapped>>
          /\ linked' \subseteq Retailer /\ faults' \in Nat
      BY <1>0, <1>3 DEF RegisterCustomer, Fault, PartsOK
    <2>2. RegistryInv' /\ welcomed' = welcomed
      BY <1>0, <2>1, RegisterKeeps
    <2>3. ShopInv'
      BY <1>0, <2>1, ShopKept
    <2>4. PartsOK' /\ PlacementsSound' /\ CheckoutsSound'
      BY <2>1, <2>2, HistoryKeeps DEF catalogue
    <2>5. QED
      BY <2>2, <2>3, <2>4 DEF CheckoutInv
  <1>4. ASSUME UNCHANGED <<catalogue, registry>>, PartsOK' /\ PlacementsSound' /\ CheckoutsSound'
        PROVE  CheckoutInv'
    BY <1>0, <1>4, ShopKept, RegistryKept DEF CheckoutInv
  <1>5. ASSUME NEW i \in Try, BeginCheckout(i) PROVE CheckoutInv'
    BY <1>4, <1>5, BeginKeeps DEF BeginCheckout, OnlyPhp
  <1>6. ASSUME NEW i \in Try, Handle(i) PROVE CheckoutInv'
    BY <1>4, <1>6, CheckKeeps, CreateKeeps, SubmitKeeps, AnswerKeeps, GiveUpKeeps, FinishKeeps
    DEF Handle, CheckQuantity, CreateWooOrder, Submit, Answer, GiveUp, Finish, OnlyPhp
  <1>7. ASSUME NEW i \in Try, Die(i) PROVE CheckoutInv'
    BY <1>4, <1>7, FinishKeeps DEF Die, OnlyPhp
  <1>8. ASSUME NEW i \in Try, ServePlacement(i) PROVE CheckoutInv'
    BY <1>4, <1>8, ServeIs
  <1>9. CASE UNCHANGED vars
    BY <1>0, <1>4, <1>9, HistoryKeeps DEF vars, catalogue, registry, checkout, history, PartsOK
  <1>10. QED
    BY <1>1, <1>2, <1>3, <1>5, <1>6, <1>7, <1>8, <1>9 DEF Next, Operate

LEMMA CheckoutInvariance == Spec => []CheckoutInv
  BY CheckoutInit, CheckoutStep, PTL DEF Spec

\* The shop, the registry and the checkouts stay well formed, whichever requests,
\* placements and faults overlap.
THEOREM TypeCorrect == Spec => []TypeOK
  <1>1. CheckoutInv => TypeOK
    BY DEF CheckoutInv, ShopInv, RegistryInv, PartsOK, TypeOK
  <1>2. QED
    BY <1>1, CheckoutInvariance, PTL

\* No product is left without its brand: the foreign key refuses what delete_brand
\* and the requests for products decide on what they have read (brands.py).
THEOREM BrandsStay == Spec => []ProductsHaveBrand
  <1>1. CheckoutInv => ProductsHaveBrand
    BY DEF CheckoutInv, ShopInv
  <1>2. QED
    BY <1>1, CheckoutInvariance, PTL

\* An order is at terms its product was published at, and reaches their MOQ,
\* however the product is changed before the COMMIT of place_order.
THEOREM SoldAsOffered == Spec => []OrdersOnOfferedTerms
  <1>1. CheckoutInv => OrdersOnOfferedTerms
    BY DEF CheckoutInv, PlacementsSound, OrdersOnOfferedTerms, OrdersOf
  <1>2. QED
    BY <1>1, CheckoutInvariance, PTL

\* The outbox tells of the product and of the approval of the retailer before it
\* tells of their order.
THEOREM AnnouncedBeforeSold == Spec => []SoldAfterAnnounced
  <1>1. CheckoutInv => SoldAfterAnnounced
    <2> SUFFICES ASSUME CheckoutInv, NEW w \in WooOrder, NEW i \in OrdersOf(w)
                 PROVE  Item[w] \in announced /\ Customer[w] \in welcomed
      BY DEF SoldAfterAnnounced
    <2>1. QED
      BY DEF CheckoutInv, PlacementsSound, OrdersOf
  <1>2. QED
    BY <1>1, CheckoutInvariance, PTL

\* A block checkout that is shown as being processed names orders of Core in its meta
\* data (place_core_order saves the id before the checkout goes on).
THEOREM ShownIsPlaced == Spec => []ProcessingIsPlaced
  <1>1. CheckoutInv => ProcessingIsPlaced
    <2> SUFFICES ASSUME CheckoutInv, NEW w \in WooOrder,
                        woo[w].status = "processing", woo[w].form = "block"
                 PROVE  woo[w].meta # {} /\ \A n \in woo[w].meta : <<w, n>> \in OrdersOf(w)
      BY DEF ProcessingIsPlaced
    <2>1. woo[w].meta # {} /\ \A n \in woo[w].meta : placement[<<w, n>>].at = "placed"
      BY DEF CheckoutInv, CheckoutsSound
    <2>2. \A n \in woo[w].meta : <<w, n>> \in Try
      BY MetaIsTry DEF CheckoutInv, PartsOK
    <2>3. QED
      BY <2>1, <2>2 DEF OrdersOf
  <1>2. QED
    BY <1>1, CheckoutInvariance, PTL

-----------------------------------------------------------------------------
(* Orders per checkout *)

\* A step concerns one try at most.
Concerns(i) ==
  /\ \A j \in Try : j # i => /\ php'[j] = php[j] /\ placement'[j].at = placement[j].at
                             /\ j \in lost' <=> j \in lost
  /\ \A w \in WooOrder : w # i[1] => woo'[w].status = woo[w].status
  /\ overlapped \subseteq overlapped'

LEMMA StepConcerns ==
  ASSUME CheckoutInv, NEW i \in Try,
         BeginCheckout(i) \/ Handle(i) \/ Die(i) \/ ServePlacement(i)
  PROVE  Concerns(i)
  <1>1. /\ php \in [Try -> PhpPoint] /\ woo \in [WooOrder -> Woo]
        /\ placement \in [Try -> Placement]
    BY DEF CheckoutInv, PartsOK
  <1>2. CASE ServePlacement(i)
    BY <1>2, ServeIs DEF Concerns, history
  <1>3. CASE Submit(i)
    <2>1. UNCHANGED <<woo, history>>
      BY <1>3 DEF Submit
    <2>2. QED
      BY <1>3, <2>1, SubmitKeeps DEF Concerns, history
  <1>4. ASSUME AfterFailure(i)
        PROVE  /\ \A j \in Try : j # i => php'[j] = php[j]
               /\ \A w \in WooOrder : w # i[1] => woo'[w] = woo[w]
    BY <1>1, <1>4 DEF AfterFailure, Goto
  <1>5. CASE Answer(i)
    <2>1. /\ \A j \in Try : j # i => php'[j] = php[j]
          /\ \A w \in WooOrder : w # i[1] => woo'[w] = woo[w]
      BY <1>1, <1>4, <1>5 DEF Answer, Goto
    <2>2. QED
      BY <1>5, <2>1 DEF Answer, OnlyPhp, Concerns, history
  <1>6. CASE GiveUp(i)
    BY <1>4, <1>6 DEF GiveUp, OnlyPhp, Concerns
  <1>7. CASE CheckQuantity(i) \/ CreateWooOrder(i) \/ Finish(i)
    <2>1. /\ \A j \in Try : j # i => php'[j] = php[j]
          /\ \A w \in WooOrder : w # i[1] => woo'[w] = woo[w]
      BY <1>1, <1>7 DEF CheckQuantity, CreateWooOrder, Finish, Goto
    <2>2. UNCHANGED <<placement, history>>
      BY <1>7 DEF CheckQuantity, CreateWooOrder, Finish, OnlyPhp
    <2>3. QED
      BY <2>1, <2>2 DEF Concerns, history
  <1>8. CASE BeginCheckout(i) \/ Die(i)
    BY <1>1, <1>8 DEF BeginCheckout, Die, OnlyPhp, Goto, Concerns
  <1>9. QED
    BY <1>2, <1>3, <1>5, <1>6, <1>7, <1>8 DEF Handle

\* What the step makes of the Woo order of its try is all that matters.
LEMMA OneTryKept ==
  ASSUME OneTry, NEW i \in Try, Concerns(i),
         i[1] \notin overlapped' => OneTryOf(i[1])'
  PROVE  OneTry'
  <1> SUFFICES ASSUME NEW w \in WooOrder, w \notin overlapped', w # i[1]
               PROVE  OneTryOf(w)'
    BY DEF OneTry
  <1>1. OneTryOf(w)
    BY DEF OneTry, Concerns
  <1>2. \A j \in TriesOf(w) : (Active(j)' <=> Active(j)) /\ (Live(j)' <=> Live(j))
    BY DEF TriesOf, Concerns, Active, Live
  <1>3. TriesOf(w)' = TriesOf(w) /\ woo'[w].status = woo[w].status
    BY DEF TriesOf, Concerns
  <1>4. QED
    BY <1>1, <1>2, <1>3 DEF OneTryOf

\* The request is the only one; it goes on to a point where the Woo order is not yet
\* processed, and leaves no live placement behind if it ends.
LEMMA RequestGoesOn ==
  ASSUME CheckoutInv, NEW i \in Try, OneTryOf(i[1]), Concerns(i), Active(i),
         woo'[i[1]].status # "processing",
         Live(i)' => Active(i)'
  PROVE  OneTryOf(i[1])'
  <1> DEFINE w == i[1]
  <1>1. i \in TriesOf(w) /\ TriesOf(w)' = TriesOf(w)
    BY DEF TriesOf
  <1>2. ASSUME NEW j \in TriesOf(w), j # i
        PROVE  ~Active(j)' /\ ~Live(j)'
    <2>1. j \in Try /\ ~Active(j) /\ woo[w].status # "processing"
      BY <1>1, <1>2 DEF OneTryOf, TriesOf
    <2>2. ~Live(j)
      BY <1>2, <2>1 DEF OneTryOf
    <2>3. QED
      BY <1>2, <2>1, <2>2 DEF Concerns, Active, Live
  <1>3. QED
    BY <1>1, <1>2 DEF OneTryOf

\* A request that begins without rivals finds no live placement, for whoever had one
\* has got through.
LEMMA BeginOnce ==
  ASSUME CheckoutInv, OneTry, NEW i \in Try, BeginCheckout(i), i[1] \notin overlapped'
  PROVE  OneTryOf(i[1])'
  <1> DEFINE w == i[1]
  <1>1. /\ Concerns(i) /\ w \in WooOrder /\ i \in TriesOf(w) /\ TriesOf(w)' = TriesOf(w)
    BY StepConcerns, TryIs DEF TriesOf
  <1>2. OneTryOf(w)
    BY <1>1 DEF OneTry, Concerns
  <1>3. /\ woo' = woo /\ woo[w].status # "processing" /\ placement' = placement
        /\ placement[i].at = "none"
        /\ overlapped' = overlapped \cup {j[1] : j \in Rivals(i)}
    BY DEF BeginCheckout, OnlyPhp, Unused
  <1>4. ASSUME NEW j \in TriesOf(w), j # i PROVE ~Active(j)' /\ ~Live(j)'
    <2>1. j \in Try /\ j[1] = w
      BY DEF TriesOf
    <2>2. ~Active(j)
      BY <1>3, <1>4, <2>1 DEF Rivals, Active
    <2>3. ~Live(j)
      BY <1>2, <1>3, <2>2 DEF OneTryOf
    <2>4. QED
      BY <1>1, <1>4, <2>1, <2>2, <2>3 DEF Concerns, Active, Live
  <1>5. ~Live(i)'
    BY <1>3 DEF Live
  <1>6. QED
    BY <1>1, <1>3, <1>4, <1>5 DEF OneTryOf

LEMMA HandleOnce ==
  ASSUME CheckoutInv, NEW i \in Try, OneTryOf(i[1]), Handle(i) \/ Die(i)
  PROVE  OneTryOf(i[1])'
  <1> DEFINE w == i[1]
  <1>1. /\ Concerns(i) /\ w \in WooOrder /\ i \in TriesOf(w) /\ woo[w] \in Woo
        /\ CheckoutsSound /\ php \in [Try -> PhpPoint] /\ woo \in [WooOrder -> Woo]
        /\ TriesOf(w)' = TriesOf(w)
    BY StepConcerns, PhpHas DEF TriesOf, PartsOK
  <1>2. Active(i)
    BY DEF Handle, CheckQuantity, CreateWooOrder, Submit, Answer, GiveUp, Finish, Die, Active
  <1>3. woo[w].status # "processing"
    BY <1>1, <1>2 DEF OneTryOf
  <1>4. CASE CheckQuantity(i)
    <2>1. placement[i].at = "none" /\ placement' = placement /\ woo' = woo
      BY <1>1, <1>4 DEF CheckQuantity, OnlyPhp, CheckoutsSound, Unsent
    <2>2. QED
      BY <1>1, <1>2, <1>3, <2>1, RequestGoesOn DEF Live
  <1>5. CASE CreateWooOrder(i)
    <2>1. placement[i].at = "none" /\ placement' = placement
      BY <1>1, <1>5 DEF CreateWooOrder, OnlyPhp, CheckoutsSound, Unsent
    <2>2. woo'[w].status = "pending"
      <3>1. woo'[w] = [woo[w] EXCEPT !.status = "pending"]
        BY <1>1, <1>3, <1>5 DEF CreateWooOrder
      <3>2. QED
        BY <1>1, <3>1, WooParts
    <2>3. QED
      BY <1>1, <1>2, <2>1, <2>2, RequestGoesOn DEF Live
  <1>6. CASE Submit(i)
    <2>1. woo' = woo /\ Active(i)'
      BY <1>6, SubmitKeeps DEF Submit, Active
    <2>2. QED
      BY <1>1, <1>2, <1>3, <2>1, RequestGoesOn
  <1>7. ASSUME AfterFailure(i) PROVE woo'[w].status = "failed"
    <2>1. woo'[w] = [woo[w] EXCEPT !.status = "failed"]
      BY <1>1, <1>7 DEF AfterFailure
    <2>2. QED
      BY <1>1, <2>1, WooParts
  <1>8. CASE Answer(i)
    <2>1. CASE placement[i].at = "placed"
      <3>1. Active(i)'
        BY <1>1, <1>8, <2>1 DEF Answer, Goto, Active
      <3>2. woo'[w].status = woo[w].status
        <4>1. PICK kept \in SUBSET woo[w].meta :
                woo'[w] = [woo[w] EXCEPT !.meta = kept \cup {i[2]}]
          BY <1>1, <1>8, <2>1 DEF Answer
        <4>2. kept \cup {i[2]} \in SUBSET (1 .. MaxTries)
          BY <1>1, TryIs DEF Woo
        <4>3. QED
          BY <1>1, <4>1, <4>2, WooParts
      <3>3. QED
        BY <1>1, <1>2, <1>3, <3>1, <3>2, RequestGoesOn
    <2>2. CASE placement[i].at # "placed"
      <3>1. placement'[i].at = "refused" /\ AfterFailure(i)
        BY <1>8, <2>2 DEF Answer, Answered, OnlyPhp
      <3>2. QED
        BY <1>1, <1>2, <1>7, <3>1, RequestGoesOn DEF Live
    <2>3. QED
      BY <2>1, <2>2
  <1>9. CASE GiveUp(i)
    <2>1. i \in lost' /\ AfterFailure(i)
      BY <1>9 DEF GiveUp
    <2>2. QED
      BY <1>1, <1>2, <1>7, <2>1, RequestGoesOn DEF Live
  <1>10. CASE Die(i)
    <2>1. ~Live(i)'
      <3>1. CASE php[i] \in Unsent
        BY <1>1, <1>10, <3>1 DEF CheckoutsSound, Die, OnlyPhp, Live
      <3>2. CASE php[i] \in {"await", "finish"}
        BY <1>10, <3>2 DEF Die, Live
      <3>3. QED
        BY <1>1, <1>2, <3>1, <3>2, PhpHas DEF Active
    <2>2. woo' = woo
      BY <1>10 DEF Die
    <2>3. QED
      BY <1>1, <1>2, <1>3, <2>1, <2>2, RequestGoesOn
  <1>11. CASE Finish(i)
    <2>1. woo'[w].status = "processing"
      <3>1. woo'[w] = [woo[w] EXCEPT !.status = "processing"]
        BY <1>1, <1>11 DEF Finish
      <3>2. QED
        BY <1>1, <3>1, WooParts
    <2>2. ~Active(i)'
      BY <1>1, <1>11 DEF Finish, Goto, Active
    <2>3. ASSUME NEW j \in TriesOf(w), j # i PROVE ~Active(j)' /\ ~Live(j)'
      <3>1. j \in Try /\ ~Active(j)
        BY <1>1, <1>2, <2>3 DEF OneTryOf, TriesOf
      <3>2. ~Live(j)
        BY <1>3, <2>3, <3>1 DEF OneTryOf
      <3>3. QED
        BY <1>1, <2>3, <3>1, <3>2 DEF Concerns, Active, Live
    <2>4. QED
      BY <1>1, <2>1, <2>2, <2>3 DEF OneTryOf
  <1>12. QED
    BY <1>4, <1>5, <1>6, <1>8, <1>9, <1>10, <1>11 DEF Handle

LEMMA ServeOnce ==
  ASSUME CheckoutInv, NEW i \in Try, OneTryOf(i[1]), ServePlacement(i)
  PROVE  OneTryOf(i[1])'
  <1> DEFINE w == i[1]
  <1>1. /\ placement[i].at \in {"retailer", "product", "commit"}
        /\ \A j \in Try : j # i => placement'[j] = placement[j]
        /\ UNCHANGED <<woo, php, lost>>
    BY ServeIs DEF history
  <1>2. \A j \in TriesOf(w) : (Active(j)' <=> Active(j)) /\ (Live(j)' => Live(j))
    BY <1>1 DEF TriesOf, Active, Live
  <1>3. TriesOf(w)' = TriesOf(w)
    BY DEF TriesOf
  <1>4. QED
    BY <1>1, <1>2, <1>3 DEF OneTryOf

LEMMA OneTryStep == CheckoutInv /\ OneTry /\ [Next]_vars => OneTry'
  <1> SUFFICES ASSUME CheckoutInv, OneTry, [Next]_vars PROVE OneTry'
    OBVIOUS
  <1>1. ASSUME UNCHANGED <<woo, php, placement, lost, overlapped>> PROVE OneTry'
    BY <1>1 DEF OneTry, OneTryOf, TriesOf, Active, Live
  <1>2. CASE Operate \/ UNCHANGED vars
    BY <1>1, <1>2 DEF Operate, vars, checkout, history
  <1>3. ASSUME NEW r \in Retailer, RegisterCustomer(r) PROVE OneTry'
    BY <1>1, <1>3 DEF RegisterCustomer
  <1>4. ASSUME NEW i \in Try, BeginCheckout(i) \/ Handle(i) \/ Die(i) \/ ServePlacement(i)
        PROVE  OneTry'
    <2>1. Concerns(i) /\ i[1] \in WooOrder
      BY <1>4, StepConcerns, TryIs
    <2>2. ASSUME i[1] \notin overlapped' PROVE OneTryOf(i[1]) /\ OneTryOf(i[1])'
      <3>1. OneTryOf(i[1])
        BY <2>1, <2>2 DEF OneTry, Concerns
      <3>2. QED
        BY <1>4, <2>2, <3>1, BeginOnce, HandleOnce, ServeOnce
    <2>3. QED
      BY <2>1, <2>2, OneTryKept
  <1>5. QED
    BY <1>2, <1>3, <1>4 DEF Next

\* Unless two requests check out a Woo order at once, it becomes one order of Core at
\* most, but for the placements whose answer the customer never had: a try follows
\* another only when that has failed (place_core_order sends a placement each time).
THEOREM OneOrderWithoutRivals == Spec => []OrdersPerCheckout
  <1>1. Init => OneTry
    BY DEF Init, OneTry, OneTryOf, TriesOf, Active, Live, NoPlacement
  <1>2. OneTry => OrdersPerCheckout
    <2> SUFFICES ASSUME OneTry, NEW w \in WooOrder \ overlapped
                 PROVE  Cardinality(OrdersOf(w) \ lost) <= 1
      BY DEF OrdersPerCheckout
    <2> DEFINE S == OrdersOf(w) \ lost
    <2>1. \A i, j \in S : i = j
      BY DEF OneTry, OneTryOf, TriesOf, Live, OrdersOf
    <2> HIDE DEF S
    <2>2. CASE S = {}
      BY <2>2, FS_EmptySet DEF S
    <2>3. CASE S # {}
      <3>1. PICK i \in S : S = {i}
        BY <2>1, <2>3
      <3>2. Cardinality(S) = 1
        BY <3>1, FS_Singleton, Zenon
      <3>3. QED
        BY <3>2 DEF S
    <2>4. QED
      BY <2>2, <2>3
  <1>3. QED
    BY <1>1, <1>2, CheckoutInit, CheckoutStep, OneTryStep, PTL DEF Spec
=============================================================================
