---------------------------- MODULE OdooAdapter ----------------------------
(***************************************************************************)
(* create_sale_order and upsert_product of HttpOdooAdapter, one call to    *)
(* Odoo after the other.  Each looks a record up by its key (partner by    *)
(* ref, product by SKU, sale order by client_order_ref) and creates it if  *)
(* there is none; nothing in Odoo keeps the keys unique.                   *)
(*                                                                         *)
(* A search and the read of what it has found are one step: nothing that   *)
(* the adapter looks for is ever deleted.  All lines of an order name the  *)
(* same SKU.  Records of a key are numbered in the order of creation, and  *)
(* a search may return any of them.                                        *)
(***************************************************************************)
EXTENDS HttpClient, Naturals, Sequences

CONSTANTS Caller,   \* processes of the integration layer, an adapter each
          Order,    \* values of marketplace_order_id
          Ref,      \* values of res.partner.ref
          Null

VARIABLES partners,   \* Odoo: ref -> how many partners have it
          templates,  \* Odoo: how many products have the SKU
          sales,      \* Odoo: order -> ref and number of the partner of each of its sale orders
          late,       \* creations on their way to Odoo that nobody waits for
          login,      \* Odoo: whether it accepts the adapter's password
          uid,        \* caller -> whether its adapter has logged in
          call        \* what each caller is doing

odoo == <<partners, templates, sales>>
adapterVars == <<odoo, late, login, uid, call>>

Creating == {"new_partner", "new_sale", "new_product"}

Waiting == {"auth", "find", "partner", "product", "upsert"} \cup Creating

Done == {"answered", "failed", "rejected"}

Idle == [pc |-> "idle", order |-> Null, ref |-> Null, partner |-> 0, sale |-> 0]

\* A call names an order and the ref of its buyer, or is about the product.
SaleCall ==
  [pc : {"auth", "find", "partner", "new_partner", "product", "new_sale"} \cup Done,
   order : Order, ref : Ref, partner : Nat, sale : Nat]

ProductCall ==
  [pc : {"auth", "upsert", "new_product"} \cup Done,
   order : {Null}, ref : {Null}, partner : {0}, sale : {0}]

Call == {Idle} \cup SaleCall \cup ProductCall

\* A creation is what is left of a call when its caller is gone.
Creation ==
  [pc : {"new_partner", "new_sale"}, order : Order, ref : Ref, partner : Nat]
    \cup [pc : {"new_product"}, order : {Null}, ref : {Null}, partner : {0}]

At(c, pc) == call[c].pc = pc

Goto(c, pc) == call' = [call EXCEPT ![c].pc = pc]

AdapterInit ==
  /\ partners = [r \in Ref |-> 0]
  /\ templates = 0
  /\ sales = [o \in Order |-> <<>>]
  /\ late = {}
  /\ login \in BOOLEAN
  /\ uid = [c \in Caller |-> FALSE]
  /\ call = [c \in Caller |-> Idle]

-----------------------------------------------------------------------------
(* what Odoo does with a creation *)

CreationOf(c) == [pc |-> call[c].pc, order |-> call[c].order, ref |-> call[c].ref,
                  partner |-> call[c].partner]

ServePartner(r) ==
  /\ partners' = [partners EXCEPT ![r] = @ + 1]
  /\ UNCHANGED <<templates, sales>>

ServeProduct ==
  /\ templates' = templates + 1
  /\ UNCHANGED <<partners, sales>>

ServeSale(o, r, n) ==
  /\ sales' = [sales EXCEPT ![o] = Append(@, [ref |-> r, partner |-> n])]
  /\ UNCHANGED <<partners, templates>>

Serve(creation) ==
  \/ creation.pc = "new_partner" /\ ServePartner(creation.ref)
  \/ creation.pc = "new_product" /\ ServeProduct
  \/ creation.pc = "new_sale" /\ ServeSale(creation.order, creation.ref, creation.partner)

-----------------------------------------------------------------------------
(* the calls *)

\* The first call of a process logs in, and its adapter remembers the uid.
Start(c, order, ref, pc) ==
  /\ call[c] = Idle
  /\ call' = [call EXCEPT ![c] = [Idle EXCEPT !.pc = IF uid[c] THEN pc ELSE "auth",
                                              !.order = order, !.ref = ref]]
  /\ UNCHANGED <<odoo, late, login, uid>>

\* create_sale_order names an order and the ref of its buyer, upsert_product neither.
StartSale(c, o, r) == Start(c, o, r, "find")

StartProduct(c) == Start(c, Null, Null, "upsert")

\* Odoo answers a wrong password with false, which is final for this call.
Authenticate(c) ==
  /\ At(c, "auth")
  /\ IF login
       THEN /\ uid' = [uid EXCEPT ![c] = TRUE]
            /\ Goto(c, IF call[c].order = Null THEN "upsert" ELSE "find")
       ELSE /\ Goto(c, "rejected")
            /\ UNCHANGED uid
  /\ UNCHANGED <<odoo, late, login>>

\* A sale order that is found answers the call, without the id of its partner.
FindSaleOrder(c) ==
  LET found == sales[call[c].order] IN
  /\ At(c, "find")
  /\ IF found = <<>>
       THEN Goto(c, "partner")
       ELSE \E n \in DOMAIN found :
              call' = [call EXCEPT ![c].pc = "answered", ![c].sale = n]
  /\ UNCHANGED <<odoo, late, login, uid>>

(* Operators named M_... are faulty variants of the definition that follows
   them, as a slip of the code would have it; no specification uses them. *)

M_FindPartnerMisses(c) ==
  /\ At(c, "partner")
  /\ Goto(c, "new_partner")
  /\ UNCHANGED <<odoo, late, login, uid>>

FindPartner(c) ==
  LET found == partners[call[c].ref] IN
  /\ At(c, "partner")
  /\ IF found = 0
       THEN Goto(c, "new_partner")
       ELSE \E n \in 1..found :
              call' = [call EXCEPT ![c].pc = "product", ![c].partner = n]
  /\ UNCHANGED <<odoo, late, login, uid>>

M_CreatePartnerWithoutId(c) ==
  /\ At(c, "new_partner")
  /\ ServePartner(call[c].ref)
  /\ Goto(c, "product")
  /\ UNCHANGED <<late, login, uid>>

CreatePartner(c) ==
  LET r == call[c].ref IN
  /\ At(c, "new_partner")
  /\ ServePartner(r)
  /\ call' = [call EXCEPT ![c].pc = "product", ![c].partner = partners[r] + 1]
  /\ UNCHANGED <<late, login, uid>>

\* A SKU that Odoo does not have is final; the partner stays.
FindProduct(c) ==
  /\ At(c, "product")
  /\ Goto(c, IF templates = 0 THEN "rejected" ELSE "new_sale")
  /\ UNCHANGED <<odoo, late, login, uid>>

CreateSale(c) ==
  LET t == call[c] IN
  /\ At(c, "new_sale")
  /\ ServeSale(t.order, t.ref, t.partner)
  /\ call' = [call EXCEPT ![c].pc = "answered", ![c].sale = Len(sales[t.order]) + 1]
  /\ UNCHANGED <<late, login, uid>>

FindUpserted(c) ==
  /\ At(c, "upsert")
  /\ Goto(c, IF templates = 0 THEN "new_product" ELSE "answered")
  /\ UNCHANGED <<odoo, late, login, uid>>

CreateProduct(c) ==
  /\ At(c, "new_product")
  /\ ServeProduct
  /\ Goto(c, "answered")
  /\ UNCHANGED <<late, login, uid>>

Return(c) ==
  /\ call[c].pc \in Done
  /\ call' = [call EXCEPT ![c] = Idle]
  /\ UNCHANGED <<odoo, late, login, uid>>

-----------------------------------------------------------------------------
(* failures *)

\* Odoo has not seen the call, has served it all the same, or is yet to serve it.
Unheard == UNCHANGED <<odoo, late>>

Unanswered(c) == call[c].pc \in Creating /\ Serve(CreationOf(c)) /\ UNCHANGED late

Delayed(c) ==
  /\ call[c].pc \in Creating
  /\ late' = late \cup {CreationOf(c)}
  /\ UNCHANGED odoo

Lost(c) == Unheard \/ Unanswered(c) \/ Delayed(c)

\* Every failure leaves the method as the exception of UnifiedHttpClient.
Fail(c, outcome) ==
  /\ call[c].pc \in Waiting
  /\ Goto(c, IF IsRetryable(CodeOf(outcome)) THEN "failed" ELSE "rejected")
  /\ IF outcome \in Ambiguous THEN Lost(c) ELSE Unheard
  /\ UNCHANGED <<login, uid>>

\* The process of the caller dies, and its adapter with it.
Die(c) ==
  /\ call[c] # Idle
  /\ call' = [call EXCEPT ![c] = Idle]
  /\ uid' = [uid EXCEPT ![c] = FALSE]
  /\ Lost(c)
  /\ UNCHANGED login

ServeLate(creation) ==
  /\ creation \in late
  /\ Serve(creation)
  /\ late' = late \ {creation}
  /\ UNCHANGED <<login, uid, call>>

\* What a process does when nothing fails.
Step(c) ==
  \/ Authenticate(c) \/ FindSaleOrder(c) \/ FindPartner(c) \/ CreatePartner(c)
  \/ FindProduct(c) \/ CreateSale(c) \/ FindUpserted(c) \/ CreateProduct(c) \/ Return(c)

-----------------------------------------------------------------------------

\* A call that is past its partner, a creation on its way and a sale order name a
\* partner that Odoo has.
PartnersExist ==
  /\ \A c \in Caller :
       At(c, "product") \/ At(c, "new_sale")
         => call[c].partner \in 1..partners[call[c].ref]
  /\ \A l \in late : l.pc = "new_sale" => l.partner \in 1..partners[l.ref]
  /\ \A o \in Order : \A n \in DOMAIN sales[o] :
       sales[o][n].partner \in 1..partners[sales[o][n].ref]

AdapterOK ==
  /\ partners \in [Ref -> Nat]
  /\ templates \in Nat
  /\ sales \in [Order -> Seq([ref : Ref, partner : Nat])]
  /\ late \subseteq Creation
  /\ login \in BOOLEAN
  /\ uid \in [Caller -> BOOLEAN]
  /\ call \in [Caller -> Call]
  /\ PartnersExist
=============================================================================
