----------------------------- MODULE Catalogue -----------------------------
(***************************************************************************)
(* The brands and products of Core (services/brands.py, products.py) as    *)
(* the requests of the operators run them: a request reads, decides, and   *)
(* commits later.  Of the terms of a product only the price and the        *)
(* minimum order quantity (MOQ) are kept; of the domain events only        *)
(* product.published.  Names, logos and the status of brands are read by   *)
(* nothing that changes state.                                             *)
(***************************************************************************)
EXTENDS Naturals

CONSTANTS Brand,      \* brands
          Sku,        \* SKUs, each the key of at most one product
          Price,      \* wholesale prices
          Moq,        \* minimum order quantities
          Session,    \* requests of operators under way at once
          Null        \* NULL of the columns of a product that does not exist

VARIABLES brands,     \* the brands that exist
          products,   \* sku -> row
          request,    \* what each session is about to commit
          announced,  \* outbox: SKUs whose publication was announced
          offered     \* history: sku -> terms it had while it was published

catalogue == <<brands, products, request, announced, offered>>

ProductStatus == {"draft", "published", "archived"}

PRODUCT_TRANSITIONS ==
  [ draft |-> {"published"}, published |-> {"archived"}, archived |-> {} ]

Terms == [price : Price, moq : Moq]

Row == [status : ProductStatus, brand : Brand, price : Price, moq : Moq]

NoRow == [status |-> "absent", brand |-> Null, price |-> Null, moq |-> Null]

NoRequest == [open |-> "none"]

Request == {NoRequest}
  \cup [open : {"create"}, sku : Sku, new : Row]
  \cup [open : {"update", "move"}, sku : Sku, loaded : Row, new : Row]
  \cup [open : {"delete"}, brand : Brand]

Free(s) == request[s] = NoRequest

Ask(s, r) ==
  /\ Free(s)
  /\ request' = [request EXCEPT ![s] = r]
  /\ UNCHANGED <<brands, products, announced, offered>>

Init ==
  /\ brands = {}
  /\ products = [k \in Sku |-> NoRow]
  /\ request = [s \in Session |-> NoRequest]
  /\ announced = {}
  /\ offered = [k \in Sku |-> {}]

-----------------------------------------------------------------------------
(* What a request decides from what it reads; otherwise it answers 4xx. *)

Exists(k) == products[k] # NoRow

ProductsOf(b) == {k \in Sku : products[k].brand = b}

\* The name of a brand is unique: of two requests one is committed.
CreateBrand(b) ==
  /\ b \notin brands
  /\ brands' = brands \cup {b}
  /\ UNCHANGED <<products, request, announced, offered>>

CreateProduct(s, k, b, price, moq) ==
  /\ ~Exists(k) /\ b \in brands
  /\ Ask(s, [open |-> "create", sku |-> k,
             new |-> [status |-> "draft", brand |-> b, price |-> price, moq |-> moq]])

(* Operators named M_... are faulty variants of the definition that follows
   them, as a slip of the code would have it; no specification uses them. *)

M_UpdateProductClears(s, k, b, price, moq) ==
  /\ Exists(k) /\ b \in brands
  /\ Ask(s, [open |-> "update", sku |-> k, loaded |-> products[k],
             new |-> [products[k] EXCEPT !.brand = b, !.price = Null, !.moq = moq]])

UpdateProduct(s, k, b, price, moq) ==
  /\ Exists(k) /\ b \in brands
  /\ Ask(s, [open |-> "update", sku |-> k, loaded |-> products[k],
             new |-> [products[k] EXCEPT !.brand = b, !.price = price, !.moq = moq]])

\* A product that is there already is accepted again.
CanMove(row, target) ==
  target = row.status \/ target \in PRODUCT_TRANSITIONS[row.status]

\* publish_product and archive_product
MoveProduct(s, k, target) ==
  /\ Exists(k) /\ CanMove(products[k], target)
  /\ Ask(s, [open |-> "move", sku |-> k, loaded |-> products[k],
             new |-> [products[k] EXCEPT !.status = target]])

DeleteBrand(s, b) ==
  /\ b \in brands /\ ProductsOf(b) = {}
  /\ Ask(s, [open |-> "delete", brand |-> b])

-----------------------------------------------------------------------------
(* COMMIT *)

M_ConsistentUnreferenced(r) ==
  CASE r.open = "create" -> ~Exists(r.sku)
    [] r.open = "delete" -> r.brand \in brands
    [] OTHER             -> TRUE

\* The constraints of the tables: a SKU is unique, a brand that is referenced is
\* there and stays there.
Consistent(r) ==
  CASE r.open = "create" -> ~Exists(r.sku) /\ r.new.brand \in brands
    [] r.open = "delete" -> r.brand \in brands /\ ProductsOf(r.brand) = {}
    [] OTHER             -> r.new.brand = r.loaded.brand \/ r.new.brand \in brands

\* The attributes the session has changed, over whatever the row holds by now.
Flush(row, r) ==
  IF r.open = "create" THEN r.new
  ELSE [f \in DOMAIN row |-> IF r.new[f] # r.loaded[f] THEN r.new[f] ELSE row[f]]

TermsOf(row) == [price |-> row.price, moq |-> row.moq]

M_AnnouncesSwapped(r) == r.open = "move" /\ r.new.status = "archived"

Announces(r) == r.open = "move" /\ r.new.status = "published"

CommitProduct(s) ==
  LET r == request[s]
      row == Flush(products[r.sku], r)
  IN
  /\ r.open \in {"create", "update", "move"}
  /\ Consistent(r)
  /\ products' = [products EXCEPT ![r.sku] = row]
  /\ announced' = IF Announces(r) THEN announced \cup {r.sku} ELSE announced
  /\ offered' = [offered EXCEPT ![r.sku] =
                   IF row.status = "published" THEN @ \cup {TermsOf(row)} ELSE @]
  /\ request' = [request EXCEPT ![s] = NoRequest]
  /\ UNCHANGED brands

CommitDelete(s) ==
  LET r == request[s] IN
  /\ r.open = "delete"
  /\ Consistent(r)
  /\ brands' = brands \ {r.brand}
  /\ request' = [request EXCEPT ![s] = NoRequest]
  /\ UNCHANGED <<products, announced, offered>>

\* A violated constraint, a lost connection or a stopped process.
Rollback(s) ==
  /\ ~Free(s)
  /\ request' = [request EXCEPT ![s] = NoRequest]
  /\ UNCHANGED <<brands, products, announced, offered>>

Next ==
  \/ \E b \in Brand : CreateBrand(b)
  \/ \E s \in Session :
       \/ \E k \in Sku, b \in Brand, price \in Price, moq \in Moq :
            CreateProduct(s, k, b, price, moq) \/ UpdateProduct(s, k, b, price, moq)
       \/ \E k \in Sku, target \in {"published", "archived"} : MoveProduct(s, k, target)
       \/ \E b \in Brand : DeleteBrand(s, b)
       \/ CommitProduct(s) \/ CommitDelete(s) \/ Rollback(s)

Spec == Init /\ [][Next]_catalogue

-----------------------------------------------------------------------------
(* Properties *)

\* Rows, requests and history are well formed.
TypeOK ==
  /\ brands \subseteq Brand
  /\ products \in [Sku -> Row \cup {NoRow}]
  /\ request \in [Session -> Request]
  /\ announced \subseteq Sku
  /\ offered \in [Sku -> SUBSET Terms]

\* Every product has a brand that exists, although delete_brand looks for its
\* products in one step and deletes it in another.
ProductsHaveBrand == \A k \in Sku : Exists(k) => products[k].brand \in brands
=============================================================================
