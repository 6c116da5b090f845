--------------------------- MODULE OdooSiteProofs ---------------------------
(***************************************************************************)
(* What holds of an Odoo database for any number of adapters, orders and   *)
(* partners, with its proofs.                                              *)
(***************************************************************************)
EXTENDS OdooSite, SequenceTheorems, TLAPS

-----------------------------------------------------------------------------
(* The calls of the adapters keep the database well formed *)

LEMMA SalesOfOrder ==
  ASSUME AdapterOK, NEW o \in Order
  PROVE  /\ sales[o] \in Seq([ref : Ref, partner : Nat])
         /\ DOMAIN sales[o] = 1..Len(sales[o]) /\ Len(sales[o]) \in Nat
         /\ \A n \in DOMAIN sales[o] : sales[o][n] \in [ref : Ref, partner : Nat]
  <1>1. sales[o] \in Seq([ref : Ref, partner : Nat])
    BY DEF AdapterOK
  <1>2. DOMAIN sales[o] = 1..Len(sales[o]) /\ Len(sales[o]) \in Nat
    BY <1>1, LenProperties
  <1>3. QED
    BY <1>1, <1>2, ElementOfSeq

LEMMA OrdersAreNotNull == \A o \in Order : o # Null
  BY SiteAssumption

LEMMA CallKinds ==
  ASSUME AdapterOK, NEW c \in Caller, call[c] # Idle
  PROVE  /\ call[c].order # Null => call[c] \in SaleCall
         /\ call[c].order = Null => call[c] \in ProductCall
  BY OrdersAreNotNull DEF AdapterOK, Call, SaleCall, ProductCall

LEMMA KindOfPoint ==
  ASSUME AdapterOK, NEW c \in Caller
  PROVE  /\ call[c].pc \in {"find", "partner", "new_partner", "product", "new_sale"}
              => call[c] \in SaleCall
         /\ call[c].pc \in {"upsert", "new_product"} => call[c] \in ProductCall
         /\ call[c].pc # "idle" => call[c] \in SaleCall \cup ProductCall
  BY DEF AdapterOK, Call, SaleCall, ProductCall, Idle, Done

LEMMA CreationIsCreation ==
  ASSUME AdapterOK, NEW c \in Caller, call[c].pc \in Creating
  PROVE  /\ CreationOf(c) \in Creation
         /\ CreationOf(c).pc = "new_sale"
              => CreationOf(c).partner \in 1..partners[CreationOf(c).ref]
  <1>1. CASE call[c] \in SaleCall
    BY <1>1 DEF AdapterOK, PartnersExist, At, CreationOf, Creation, Creating, SaleCall, Done
  <1>2. CASE call[c] \in ProductCall
    BY <1>2 DEF CreationOf, Creation, Creating, ProductCall, Done
  <1>3. QED
    BY <1>1, <1>2, KindOfPoint DEF Creating

\* A creation that Odoo serves keeps all that is not about calls.
LEMMA ServeOK ==
  ASSUME AdapterOK, NEW creation \in Creation, Serve(creation),
         creation.pc = "new_sale" => creation.partner \in 1..partners[creation.ref]
  PROVE  /\ partners' \in [Ref -> Nat] /\ templates' \in Nat
         /\ sales' \in [Order -> Seq([ref : Ref, partner : Nat])]
         /\ \A r \in Ref : partners'[r] >= partners[r]
         /\ \A o \in Order : \A n \in DOMAIN sales'[o] :
              sales'[o][n].partner \in 1..partners'[sales'[o][n].ref]
  <1>1. CASE creation.pc = "new_partner" /\ ServePartner(creation.ref)
    <2>1. creation.ref \in Ref
      BY <1>1 DEF Creation
    <2>2. /\ partners' \in [Ref -> Nat] /\ templates' \in Nat
          /\ \A r \in Ref : partners'[r] >= partners[r]
          /\ sales' = sales
      BY <1>1, <2>1 DEF AdapterOK, ServePartner
    <2>3. ASSUME NEW o \in Order, NEW n \in DOMAIN sales[o]
          PROVE  sales[o][n].partner \in 1..partners'[sales[o][n].ref]
      <3>1. sales[o][n] \in [ref : Ref, partner : Nat]
        BY SalesOfOrder
      <3>2. sales[o][n].partner \in 1..partners[sales[o][n].ref]
        BY DEF AdapterOK, PartnersExist
      <3>3. QED
        BY <2>2, <3>1, <3>2 DEF AdapterOK
    <2>4. QED
      BY <2>2, <2>3 DEF AdapterOK
  <1>2. CASE creation.pc = "new_product" /\ ServeProduct
    <2>1. partners' = partners /\ sales' = sales /\ templates' = templates + 1
      BY <1>2 DEF ServeProduct
    <2>2. templates' \in Nat /\ \A r \in Ref : partners'[r] >= partners[r]
      <3>1. templates \in Nat /\ partners \in [Ref -> Nat]
        BY DEF AdapterOK
      <3>2. QED
        BY <2>1, <3>1
    <2>3. \A o \in Order : \A n \in DOMAIN sales'[o] :
            sales'[o][n].partner \in 1..partners'[sales'[o][n].ref]
      BY <2>1 DEF AdapterOK, PartnersExist
    <2>4. partners' \in [Ref -> Nat] /\ sales' \in [Order -> Seq([ref : Ref, partner : Nat])]
      BY <2>1 DEF AdapterOK
    <2>5. QED
      BY <2>2, <2>3, <2>4
  <1>3. CASE creation.pc = "new_sale"
             /\ ServeSale(creation.order, creation.ref, creation.partner)
    <2> DEFINE o == creation.order
               sale == [ref |-> creation.ref, partner |-> creation.partner]
    <2>1. o \in Order /\ sale \in [ref : Ref, partner : Nat]
      BY <1>3 DEF Creation
    <2>2. /\ sales' = [sales EXCEPT ![o] = Append(@, sale)]
          /\ partners' = partners /\ templates' = templates
      BY <1>3 DEF ServeSale
    <2>3. /\ Append(sales[o], sale) \in Seq([ref : Ref, partner : Nat])
          /\ DOMAIN Append(sales[o], sale) = 1..Len(sales[o]) + 1
          /\ \A n \in 1..Len(sales[o]) : Append(sales[o], sale)[n] = sales[o][n]
          /\ Append(sales[o], sale)[Len(sales[o]) + 1] = sale
      <3> HIDE DEF sale
      <3>1. sales[o] \in Seq([ref : Ref, partner : Nat])
        BY <2>1, SalesOfOrder
      <3>2. QED
        BY <2>1, <3>1, AppendProperties, LenProperties
    <2>4. sales' \in [Order -> Seq([ref : Ref, partner : Nat])]
      BY <2>1, <2>2, <2>3 DEF AdapterOK
    <2>5. ASSUME NEW p \in Order, NEW n \in DOMAIN sales'[p]
          PROVE  sales'[p][n].partner \in 1..partners'[sales'[p][n].ref]
      <3>1. CASE p # o \/ n # Len(sales[o]) + 1
        <4>1. n \in DOMAIN sales[p] /\ sales'[p][n] = sales[p][n]
          BY <2>1, <2>2, <2>3, <3>1, SalesOfOrder DEF AdapterOK
        <4>2. QED
          BY <2>2, <4>1 DEF AdapterOK, PartnersExist
      <3>2. CASE p = o /\ n = Len(sales[o]) + 1
        <4>1. sales'[p][n] = sale
          BY <2>1, <2>2, <2>3, <3>2 DEF AdapterOK
        <4>2. QED
          BY <1>3, <2>2, <4>1
      <3>3. QED
        BY <3>1, <3>2
    <2>6. /\ partners' \in [Ref -> Nat] /\ templates' \in Nat
          /\ \A r \in Ref : partners'[r] >= partners[r]
      BY <2>2 DEF AdapterOK
    <2>7. QED
      BY <2>4, <2>5, <2>6
  <1>4. QED
    BY <1>1, <1>2, <1>3 DEF Serve

\* What a caller does next: its new call is a call, and names a partner that exists
\* if it names one.
LEMMA MoveOK ==
  ASSUME AdapterOK, NEW c \in Caller, NEW t \in Call,
         call' = [call EXCEPT ![c] = t],
         \A r \in Ref : partners'[r] >= partners[r],
         partners' \in [Ref -> Nat],
         t.pc \in {"product", "new_sale"} => t.partner \in 1..partners'[t.ref]
  PROVE  /\ call' \in [Caller -> Call]
         /\ \A d \in Caller :
              call'[d].pc = "product" \/ call'[d].pc = "new_sale"
                => call'[d].partner \in 1..partners'[call'[d].ref]
  <1>1. call' \in [Caller -> Call]
    BY DEF AdapterOK
  <1>2. ASSUME NEW d \in Caller, call'[d].pc = "product" \/ call'[d].pc = "new_sale"
        PROVE  call'[d].partner \in 1..partners'[call'[d].ref]
    <2>1. CASE d = c
      BY <1>2, <2>1 DEF AdapterOK
    <2>2. CASE d # c
      <3>1. call'[d] = call[d]
        BY <2>2 DEF AdapterOK
      <3>2. call[d].ref \in Ref /\ call[d].partner \in Nat
        BY <1>2, <3>1, KindOfPoint DEF SaleCall
      <3>3. call[d].partner \in 1..partners[call[d].ref]
        BY <1>2, <3>1 DEF AdapterOK, PartnersExist, At
      <3>4. QED
        BY <3>1, <3>2, <3>3 DEF AdapterOK
    <2>3. QED
      BY <2>1, <2>2
  <1>3. QED
    BY <1>1, <1>2

\* Partners that are there stay there.
LEMMA LateOK ==
  ASSUME AdapterOK, NEW l \in late, l.pc = "new_sale",
         partners' \in [Ref -> Nat], \A r \in Ref : partners'[r] >= partners[r]
  PROVE  l.partner \in 1..partners'[l.ref]
  <1>1. l.ref \in Ref /\ l.partner \in Nat
    BY DEF AdapterOK, Creation
  <1>2. l.partner \in 1..partners[l.ref]
    BY DEF AdapterOK, PartnersExist
  <1>3. QED
    BY <1>1, <1>2 DEF AdapterOK

\* A creation that may be served: it names a partner that exists.
Sound(l) == l \in Creation /\ (l.pc = "new_sale" => l.partner \in 1..partners[l.ref])

LEMMA LateIsSound == ASSUME AdapterOK, NEW l \in late PROVE Sound(l)
  BY DEF AdapterOK, PartnersExist, Sound

\* Every step of a caller: it serves at most one creation, leaves at most one
\* creation behind and goes on with the call t.
LEMMA CallerOK ==
  ASSUME AdapterOK,
         UNCHANGED odoo \/ \E creation \in Creation : Sound(creation) /\ Serve(creation),
         \A l \in late' : l \in late \/ Sound(l),
         login' = login, uid' \in [Caller -> BOOLEAN],
         NEW c \in Caller, NEW t \in Call,
         call' = [call EXCEPT ![c] = t],
         t.pc \in {"product", "new_sale"} => t.partner \in 1..partners'[t.ref]
  PROVE  AdapterOK'
  <1>1. /\ partners' \in [Ref -> Nat] /\ templates' \in Nat
        /\ sales' \in [Order -> Seq([ref : Ref, partner : Nat])]
        /\ \A r \in Ref : partners'[r] >= partners[r]
        /\ \A o \in Order : \A n \in DOMAIN sales'[o] :
             sales'[o][n].partner \in 1..partners'[sales'[o][n].ref]
    <2>1. CASE UNCHANGED odoo
      <3>1. partners' = partners /\ templates' = templates /\ sales' = sales
        BY <2>1 DEF odoo
      <3>2. /\ partners \in [Ref -> Nat] /\ templates \in Nat
            /\ sales \in [Order -> Seq([ref : Ref, partner : Nat])]
            /\ \A o \in Order : \A n \in DOMAIN sales[o] :
                 sales[o][n].partner \in 1..partners[sales[o][n].ref]
        BY DEF AdapterOK, PartnersExist
      <3>3. \A r \in Ref : partners[r] >= partners[r]
        BY <3>2
      <3>4. QED
        BY <3>1, <3>2, <3>3
    <2>2. CASE \E creation \in Creation : Sound(creation) /\ Serve(creation)
      <3>1. PICK creation \in Creation : Sound(creation) /\ Serve(creation)
        BY <2>2
      <3>2. QED
        BY <3>1, ServeOK DEF Sound
    <2>3. QED
      BY <2>1, <2>2
  <1>2. /\ call' \in [Caller -> Call]
        /\ \A d \in Caller :
             call'[d].pc = "product" \/ call'[d].pc = "new_sale"
               => call'[d].partner \in 1..partners'[call'[d].ref]
    BY <1>1, MoveOK
  <1>3. ASSUME NEW l \in late'
        PROVE  l \in Creation /\ (l.pc = "new_sale" => l.partner \in 1..partners'[l.ref])
    <2>1. Sound(l)
      BY <1>3, LateIsSound
    <2>2. l.pc = "new_sale" => l.ref \in Ref /\ l.partner \in Nat
      BY <2>1 DEF Sound, Creation
    <2>3. l.pc = "new_sale" => l.partner \in 1..partners'[l.ref]
      BY <1>1, <2>1, <2>2 DEF Sound, AdapterOK
    <2>4. QED
      BY <2>1, <2>3 DEF Sound
  <1>4. login' \in BOOLEAN
    BY DEF AdapterOK
  <1>5. PartnersExist'
    BY <1>1, <1>2, <1>3 DEF PartnersExist, At
  <1>6. QED
    BY <1>1, <1>2, <1>3, <1>4, <1>5 DEF AdapterOK

\* An action of a caller that Odoo does not notice.
LEMMA QuietOK ==
  ASSUME AdapterOK, UNCHANGED <<odoo, late, login>>, uid' \in [Caller -> BOOLEAN],
         NEW c \in Caller, NEW t \in Call,
         call' = [call EXCEPT ![c] = t],
         t.pc \in {"product", "new_sale"} => t.partner \in 1..partners[t.ref]
  PROVE  AdapterOK'
  <1>1. partners' = partners /\ late' = late /\ login' = login /\ UNCHANGED odoo
    BY DEF odoo
  <1>2. QED
    BY <1>1, CallerOK

LEMMA StartOK ==
  ASSUME AdapterOK, NEW c \in Caller,
         StartProduct(c) \/ \E o \in Order, r \in Ref : StartSale(c, o, r)
  PROVE  AdapterOK'
  <1>1. CASE StartProduct(c)
    <2> DEFINE t == [Idle EXCEPT !.pc = IF uid[c] THEN "upsert" ELSE "auth",
                                 !.order = Null, !.ref = Null]
    <2>1. t \in Call /\ t.pc \notin {"product", "new_sale"}
      BY DEF Call, ProductCall, Idle, Done
    <2>2. QED
      BY <1>1, <2>1, QuietOK DEF StartProduct, Start, AdapterOK
  <1>2. ASSUME NEW o \in Order, NEW r \in Ref, StartSale(c, o, r)
        PROVE  AdapterOK'
    <2> DEFINE t == [Idle EXCEPT !.pc = IF uid[c] THEN "find" ELSE "auth",
                                 !.order = o, !.ref = r]
    <2>1. t \in Call /\ t.pc \notin {"product", "new_sale"}
      BY DEF Call, SaleCall, Idle, Done
    <2>2. QED
      BY <1>2, <2>1, QuietOK DEF StartSale, Start, AdapterOK
  <1>3. QED
    BY <1>1, <1>2

LEMMA AuthenticateOK ==
  ASSUME AdapterOK, NEW c \in Caller, Authenticate(c)
  PROVE  AdapterOK'
  <1>1. PICK pc \in {"upsert", "find", "rejected"} :
          /\ call' = [call EXCEPT ![c] = [call[c] EXCEPT !.pc = pc]]
          /\ pc = "upsert" => call[c].order = Null
          /\ pc = "find" => call[c].order # Null
    BY DEF Authenticate, Goto
  <1>2. call[c] \in SaleCall \cup ProductCall /\ call[c] # Idle
    BY KindOfPoint DEF Authenticate, At, Idle
  <1>3. [call[c] EXCEPT !.pc = pc] \in Call
    BY <1>1, <1>2, CallKinds, OrdersAreNotNull DEF Call, SaleCall, ProductCall, Done
  <1>4. [call[c] EXCEPT !.pc = pc].pc \notin {"product", "new_sale"}
    BY <1>2 DEF SaleCall, ProductCall
  <1>5. uid' \in [Caller -> BOOLEAN]
    BY DEF Authenticate, AdapterOK
  <1>6. QED
    BY <1>1, <1>3, <1>4, <1>5, QuietOK DEF Authenticate

LEMMA FindSaleOrderOK ==
  ASSUME AdapterOK, NEW c \in Caller, FindSaleOrder(c)
  PROVE  AdapterOK'
  <1> DEFINE found == sales[call[c].order]
  <1>1. call[c] \in SaleCall
    BY KindOfPoint DEF FindSaleOrder, At
  <1>2. DOMAIN found \subseteq Nat
    BY <1>1, SalesOfOrder DEF SaleCall
  <1>3. PICK t \in {[call[c] EXCEPT !.pc = "partner"]}
                     \cup {[call[c] EXCEPT !.pc = "answered", !.sale = n] : n \in Nat} :
          call' = [call EXCEPT ![c] = t]
    BY <1>2 DEF FindSaleOrder, Goto
  <1>4. t \in Call /\ t.pc \notin {"product", "new_sale"}
    BY <1>1, <1>3 DEF Call, SaleCall, Done
  <1>5. uid' \in [Caller -> BOOLEAN]
    BY DEF FindSaleOrder, AdapterOK
  <1>6. QED
    BY <1>3, <1>4, <1>5, QuietOK DEF FindSaleOrder

LEMMA FindPartnerOK ==
  ASSUME AdapterOK, NEW c \in Caller, FindPartner(c)
  PROVE  AdapterOK'
  <1> DEFINE found == partners[call[c].ref]
  <1>1. call[c] \in SaleCall /\ found \in Nat
    BY KindOfPoint DEF FindPartner, At, SaleCall, AdapterOK
  <1>2. uid' \in [Caller -> BOOLEAN]
    BY DEF FindPartner, AdapterOK
  <1>3. CASE found = 0
    <2>1. [call[c] EXCEPT !.pc = "new_partner"] \in Call
      BY <1>1 DEF Call, SaleCall
    <2>2. QED
      BY <1>1, <1>2, <1>3, <2>1, QuietOK DEF FindPartner, Goto, SaleCall
  <1>4. CASE found # 0
    <2>1. PICK n \in 1..found :
            call' = [call EXCEPT ![c] = [call[c] EXCEPT !.pc = "product", !.partner = n]]
      BY <1>4 DEF FindPartner
    <2> DEFINE t == [call[c] EXCEPT !.pc = "product", !.partner = n]
    <2>2. n \in Nat
      BY <1>1, <2>1
    <2>3. t \in SaleCall
      BY <1>1, <2>2 DEF SaleCall
    <2>4. t.partner = n /\ t.ref = call[c].ref
      BY <1>1 DEF SaleCall
    <2>5. QED
      BY <1>2, <2>1, <2>3, <2>4, QuietOK DEF FindPartner, Call
  <1>5. QED
    BY <1>3, <1>4

LEMMA FindProductOK ==
  ASSUME AdapterOK, NEW c \in Caller, FindProduct(c)
  PROVE  AdapterOK'
  <1>1. call[c] \in SaleCall
    BY KindOfPoint DEF FindProduct, At
  <1>2. PICK pc \in {"rejected", "new_sale"} :
          call' = [call EXCEPT ![c] = [call[c] EXCEPT !.pc = pc]]
    BY DEF FindProduct, Goto
  <1> DEFINE t == [call[c] EXCEPT !.pc = pc]
  <1>3. t \in Call /\ t.partner \in 1..partners[t.ref]
    BY <1>1, <1>2 DEF Call, SaleCall, Done, FindProduct, At, AdapterOK, PartnersExist
  <1>4. uid' \in [Caller -> BOOLEAN]
    BY DEF FindProduct, AdapterOK
  <1>5. QED
    BY <1>2, <1>3, <1>4, QuietOK DEF FindProduct

LEMMA FindUpsertedOK ==
  ASSUME AdapterOK, NEW c \in Caller, FindUpserted(c)
  PROVE  AdapterOK'
  <1>1. call[c] \in ProductCall
    BY KindOfPoint DEF FindUpserted, At
  <1>2. PICK pc \in {"new_product", "answered"} :
          call' = [call EXCEPT ![c] = [call[c] EXCEPT !.pc = pc]]
    BY DEF FindUpserted, Goto
  <1>3. [call[c] EXCEPT !.pc = pc] \in Call
        /\ [call[c] EXCEPT !.pc = pc].pc \notin {"product", "new_sale"}
    BY <1>1, <1>2 DEF Call, ProductCall, Done
  <1>4. uid' \in [Caller -> BOOLEAN]
    BY DEF FindUpserted, AdapterOK
  <1>5. QED
    BY <1>2, <1>3, <1>4, QuietOK DEF FindUpserted

LEMMA ReturnOK ==
  ASSUME AdapterOK, NEW c \in Caller, Return(c)
  PROVE  AdapterOK'
  <1>1. Idle \in Call /\ Idle.pc \notin {"product", "new_sale"}
    BY DEF Call, Idle
  <1>2. uid' \in [Caller -> BOOLEAN]
    BY DEF Return, AdapterOK
  <1>3. QED
    BY <1>1, <1>2, QuietOK DEF Return

LEMMA CreatePartnerOK ==
  ASSUME AdapterOK, NEW c \in Caller, CreatePartner(c)
  PROVE  AdapterOK'
  <1> DEFINE r == call[c].ref
             n == partners[r] + 1
             t == [call[c] EXCEPT !.pc = "product", !.partner = n]
  <1>1. call[c] \in SaleCall /\ r \in Ref /\ partners[r] \in Nat
    BY KindOfPoint DEF CreatePartner, At, SaleCall, AdapterOK
  <1>2. CreationOf(c) \in Creation /\ Sound(CreationOf(c)) /\ Serve(CreationOf(c))
    BY CreationIsCreation DEF CreatePartner, At, Creating, CreationOf, Sound, Serve
  <1>3. partners'[r] = partners[r] + 1
    BY <1>1 DEF CreatePartner, ServePartner, AdapterOK
  <1>4. t \in Call /\ t.partner \in 1..partners'[t.ref]
    <2>1. n \in Nat /\ n \in 1..partners'[r]
      BY <1>1, <1>3
    <2>2. t \in SaleCall /\ t.partner = n /\ t.ref = r
      <3> HIDE DEF n
      <3> QED
        BY <1>1, <2>1 DEF SaleCall
    <2>3. QED
      BY <2>1, <2>2 DEF Call
  <1>5. /\ \A l \in late' : l \in late \/ Sound(l)
        /\ login' = login /\ uid' \in [Caller -> BOOLEAN]
        /\ call' = [call EXCEPT ![c] = t]
    BY DEF CreatePartner, AdapterOK
  <1>6. QED
    BY <1>2, <1>4, <1>5, CallerOK

LEMMA CreateSaleOK ==
  ASSUME AdapterOK, NEW c \in Caller, CreateSale(c)
  PROVE  AdapterOK'
  <1> DEFINE o == call[c].order
             t == [call[c] EXCEPT !.pc = "answered", !.sale = Len(sales[o]) + 1]
  <1>1. call[c] \in SaleCall /\ o \in Order
    BY KindOfPoint DEF CreateSale, At, SaleCall
  <1>2. CreationOf(c) \in Creation /\ Sound(CreationOf(c)) /\ Serve(CreationOf(c))
    BY CreationIsCreation DEF CreateSale, At, Creating, CreationOf, Sound, Serve
  <1>3. Len(sales[o]) + 1 \in Nat
    BY <1>1, SalesOfOrder
  <1>4. t \in Call /\ t.pc \notin {"product", "new_sale"}
    BY <1>1, <1>3 DEF Call, SaleCall, Done
  <1>5. /\ \A l \in late' : l \in late \/ Sound(l)
        /\ login' = login /\ uid' \in [Caller -> BOOLEAN]
        /\ call' = [call EXCEPT ![c] = t]
    BY DEF CreateSale, AdapterOK
  <1>6. QED
    BY <1>2, <1>4, <1>5, CallerOK

LEMMA CreateProductOK ==
  ASSUME AdapterOK, NEW c \in Caller, CreateProduct(c)
  PROVE  AdapterOK'
  <1> DEFINE t == [call[c] EXCEPT !.pc = "answered"]
  <1>1. call[c] \in ProductCall
    BY KindOfPoint DEF CreateProduct, At
  <1>2. CreationOf(c) \in Creation /\ Sound(CreationOf(c)) /\ Serve(CreationOf(c))
    BY CreationIsCreation DEF CreateProduct, At, Creating, CreationOf, Sound, Serve
  <1>3. t \in Call /\ t.pc \notin {"product", "new_sale"}
    BY <1>1 DEF Call, ProductCall, Done
  <1>4. /\ \A l \in late' : l \in late \/ Sound(l)
        /\ login' = login /\ uid' \in [Caller -> BOOLEAN]
        /\ call' = [call EXCEPT ![c] = t]
    BY DEF CreateProduct, AdapterOK, Goto
  <1>5. QED
    BY <1>2, <1>3, <1>4, CallerOK

LEMMA LostOK ==
  ASSUME AdapterOK, NEW c \in Caller, Lost(c)
  PROVE  /\ UNCHANGED odoo \/ \E creation \in Creation : Sound(creation) /\ Serve(creation)
         /\ \A l \in late' : l \in late \/ Sound(l)
  <1>1. call[c].pc \in Creating => CreationOf(c) \in Creation /\ Sound(CreationOf(c))
    BY CreationIsCreation DEF Sound
  <1>2. CASE Unheard
    BY <1>2 DEF Unheard
  <1>3. CASE Unanswered(c)
    BY <1>1, <1>3 DEF Unanswered
  <1>4. CASE Delayed(c)
    BY <1>1, <1>4 DEF Delayed
  <1>5. QED
    BY <1>2, <1>3, <1>4 DEF Lost

LEMMA FailOK ==
  ASSUME AdapterOK, NEW c \in Caller, NEW outcome \in Outcome, Fail(c, outcome)
  PROVE  AdapterOK'
  <1>1. PICK pc \in {"failed", "rejected"} :
          call' = [call EXCEPT ![c] = [call[c] EXCEPT !.pc = pc]]
    BY DEF Fail, Goto
  <1>2. call[c] \in SaleCall \cup ProductCall
    BY KindOfPoint DEF Fail, Waiting, Creating
  <1> DEFINE t == [call[c] EXCEPT !.pc = pc]
  <1>3. t \in Call /\ t.pc \notin {"product", "new_sale"}
    BY <1>1, <1>2 DEF Call, SaleCall, ProductCall, Done
  <1>4. Lost(c)
    BY DEF Fail, Lost
  <1>5. login' = login /\ uid' \in [Caller -> BOOLEAN]
    BY DEF Fail, AdapterOK
  <1>6. QED
    BY <1>1, <1>3, <1>4, <1>5, LostOK, CallerOK

LEMMA DieOK ==
  ASSUME AdapterOK, NEW c \in Caller, Die(c)
  PROVE  AdapterOK'
  <1>1. Idle \in Call /\ Idle.pc \notin {"product", "new_sale"}
    BY DEF Call, Idle
  <1>2. login' = login /\ uid' \in [Caller -> BOOLEAN]
    BY DEF Die, AdapterOK
  <1>3. QED
    BY <1>1, <1>2, LostOK, CallerOK DEF Die

\* Partners are never fewer, so that a call that stays stays well formed.
LEMMA CallStays ==
  ASSUME AdapterOK, NEW c \in Caller, At(c, "product") \/ At(c, "new_sale"),
         partners' \in [Ref -> Nat], \A r \in Ref : partners'[r] >= partners[r]
  PROVE  call[c].partner \in 1..partners'[call[c].ref]
  <1>1. call[c].ref \in Ref /\ call[c].partner \in Nat
    BY KindOfPoint DEF At, SaleCall
  <1>2. call[c].partner \in 1..partners[call[c].ref]
    BY DEF AdapterOK, PartnersExist
  <1>3. QED
    BY <1>1, <1>2 DEF AdapterOK

LEMMA ServeLateOK ==
  ASSUME AdapterOK, NEW creation \in late, ServeLate(creation)
  PROVE  AdapterOK'
  <1>1. creation \in Creation /\ Sound(creation)
    BY LateIsSound DEF Sound
  <1>2. /\ partners' \in [Ref -> Nat] /\ templates' \in Nat
        /\ sales' \in [Order -> Seq([ref : Ref, partner : Nat])]
        /\ \A r \in Ref : partners'[r] >= partners[r]
        /\ \A o \in Order : \A n \in DOMAIN sales'[o] :
             sales'[o][n].partner \in 1..partners'[sales'[o][n].ref]
    BY <1>1, ServeOK DEF ServeLate, Sound
  <1>3. /\ late' \subseteq late /\ login' = login /\ uid' = uid /\ call' = call
    BY DEF ServeLate
  <1>4. \A c \in Caller : call[c].pc = "product" \/ call[c].pc = "new_sale"
          => call[c].partner \in 1..partners'[call[c].ref]
    BY <1>2, CallStays DEF At
  <1>5. \A l \in late : l.pc = "new_sale" => l.partner \in 1..partners'[l.ref]
    BY <1>2, LateOK
  <1>6. PartnersExist'
    BY <1>2, <1>3, <1>4, <1>5 DEF PartnersExist, At
  <1>7. QED
    BY <1>2, <1>3, <1>6 DEF AdapterOK

LEMMA AdapterStepOK ==
  ASSUME AdapterOK, NEW c \in Caller, Adapter(c)
  PROVE  AdapterOK'
  <1>1. CASE Step(c)
    BY <1>1, AuthenticateOK, FindSaleOrderOK, FindPartnerOK, CreatePartnerOK, FindProductOK,
       CreateSaleOK, FindUpsertedOK, CreateProductOK, ReturnOK DEF Step
  <1>2. CASE StartProduct(c) \/ \E o \in Order : StartSale(c, o, RefOf[o])
    BY <1>2, StartOK, SiteAssumption
  <1>3. CASE \E outcome \in Outcome : Fail(c, outcome)
    BY <1>3, FailOK
  <1>4. CASE Die(c)
    BY <1>4, DieOK
  <1>5. QED
    BY <1>1, <1>2, <1>3, <1>4 DEF Adapter

-----------------------------------------------------------------------------
(* The scripts keep the database well formed *)

\* What a script or the warehouse does to the database: it adds partners and
\* products, and leaves sale orders and calls alone.
LEMMA GrowthOK ==
  ASSUME AdapterOK, UNCHANGED <<sales, late, uid, call>>, login' \in BOOLEAN,
         partners' \in [Ref -> Nat], templates' \in Nat,
         \A r \in Ref : partners'[r] >= partners[r]
  PROVE  AdapterOK'
  <1>1. \A c \in Caller : call[c].pc = "product" \/ call[c].pc = "new_sale"
          => call[c].partner \in 1..partners'[call[c].ref]
    BY CallStays DEF At
  <1>2. \A l \in late : l.pc = "new_sale" => l.partner \in 1..partners'[l.ref]
    BY LateOK
  <1>3. ASSUME NEW o \in Order, NEW n \in DOMAIN sales[o]
        PROVE  sales[o][n].partner \in 1..partners'[sales[o][n].ref]
    <2>1. sales[o][n] \in [ref : Ref, partner : Nat]
      BY SalesOfOrder
    <2>2. sales[o][n].partner \in 1..partners[sales[o][n].ref]
      BY DEF AdapterOK, PartnersExist
    <2>3. QED
      BY <2>1, <2>2 DEF AdapterOK
  <1>4. PartnersExist'
    BY <1>1, <1>2, <1>3 DEF PartnersExist, At
  <1>5. QED
    BY <1>4 DEF AdapterOK

LEMMA NowIsSnapshot ==
  ASSUME AdapterOK, Scripts!ScriptOK
  PROVE  Scripts!Now \in Scripts!Snapshot
  <1>1. stock \in Nat
    BY SiteAssumption DEF Scripts!ScriptOK
  <1>2. QED
    BY <1>1 DEF AdapterOK, Scripts!ScriptOK, Scripts!Now, Scripts!Snapshot

\* A script that ends has been running.
LEMMA EndsRunning ==
  ASSUME Scripts!ScriptOK, NEW s \in Scripts!Script, Scripts!Ends(s)
  PROVE  script \in Scripts!Running /\ script' = Scripts!NoScript
  BY DEF Scripts!ScriptOK, Scripts!Ends, Scripts!Script, Scripts!NoScript

LEMMA ProvisionOK ==
  ASSUME AdapterOK, Scripts!ScriptOK, Scripts!Provision, UNCHANGED <<sales, late, uid, call>>
  PROVE  AdapterOK' /\ Scripts!ScriptOK'
  <1>1. script \in Scripts!Running /\ script' = Scripts!NoScript
    BY EndsRunning DEF Scripts!Provision, Scripts!Script
  <1>2. partners \in [Ref -> Nat] /\ templates \in Nat
    BY DEF AdapterOK
  <1>3. /\ partners' \in [Ref -> Nat] /\ \A r \in Ref : partners'[r] >= partners[r]
        /\ templates' \in Nat
    BY <1>2 DEF Scripts!Provision
  <1>4. AdapterOK'
    BY <1>3, GrowthOK DEF Scripts!Provision, Scripts!Configure
  <1>5. configured' \in BOOLEAN /\ stock' \in 0..InitialQty /\ demo' = demo
    <2>1. stock' \in {InitialQty, stock} /\ demo' = demo
      BY DEF Scripts!Provision
    <2>2. configured' \in {TRUE, configured} \cup BOOLEAN
      BY DEF Scripts!Provision, Scripts!Configure
    <2>3. configured \in BOOLEAN /\ stock \in 0..InitialQty /\ InitialQty \in Nat
      BY SiteAssumption DEF Scripts!ScriptOK
    <2>4. configured' \in BOOLEAN
      BY <2>2, <2>3
    <2>5. QED
      BY <2>1, <2>3, <2>4
  <1>6. QED
    BY <1>1, <1>4, <1>5 DEF Scripts!ScriptOK

LEMMA VerifyOK ==
  ASSUME AdapterOK, Scripts!ScriptOK, Scripts!Verify, UNCHANGED <<sales, late, uid, call>>
  PROVE  AdapterOK' /\ Scripts!ScriptOK'
  <1>1. script' = Scripts!NoScript
    BY EndsRunning DEF Scripts!Verify, Scripts!Script
  <1>2. AdapterOK'
    <2>1. partners \in [Ref -> Nat] /\ templates \in Nat /\ login \in BOOLEAN
      BY DEF AdapterOK
    <2>2. partners' = partners /\ templates' = templates /\ login' = login
      BY DEF Scripts!Verify
    <2>3. QED
      BY <2>1, <2>2, GrowthOK
  <1>3. demo' \in [{"verify", "fulfill"} -> Scripts!DemoOrder]
    BY DEF Scripts!Verify, Scripts!ScriptOK, Scripts!DemoOrder
  <1>4. QED
    BY <1>1, <1>2, <1>3 DEF Scripts!ScriptOK, Scripts!Verify

LEMMA FulfillOK ==
  ASSUME AdapterOK, Scripts!ScriptOK, Scripts!Fulfill, UNCHANGED <<sales, late, uid, call>>
  PROVE  AdapterOK' /\ Scripts!ScriptOK'
  <1>1. script \in Scripts!Running /\ script' = Scripts!NoScript
    BY EndsRunning DEF Scripts!Fulfill, Scripts!Script
  <1>2. AdapterOK'
    <2>1. partners \in [Ref -> Nat] /\ templates \in Nat /\ login \in BOOLEAN
      BY DEF AdapterOK
    <2>2. partners' = partners /\ templates' = templates /\ login' = login
      BY DEF Scripts!Fulfill
    <2>3. QED
      BY <2>1, <2>2, GrowthOK
  <1>3. demo' \in [{"verify", "fulfill"} -> Scripts!DemoOrder]
    BY DEF Scripts!Fulfill, Scripts!ScriptOK, Scripts!DemoOrder
  <1>4. stock' \in 0..InitialQty
    <2>1. stock \in 0..InitialQty /\ InitialQty \in Nat
      BY SiteAssumption DEF Scripts!ScriptOK
    <2>2. script.seen.stock \in Nat
      BY <1>1 DEF Scripts!Running, Scripts!Snapshot
    <2>3. stock' = stock \/ (stock' = stock - 1 /\ stock = script.seen.stock
                               /\ script.seen.stock > 0)
      BY DEF Scripts!Fulfill, Scripts!StockUntouched
    <2>4. QED
      BY <2>1, <2>2, <2>3
  <1>5. QED
    BY <1>1, <1>2, <1>3, <1>4 DEF Scripts!ScriptOK, Scripts!Fulfill

\* A script that starts, one that ends without a commit, and a shipment.
LEMMA RunAbortConsumeOK ==
  ASSUME AdapterOK, Scripts!ScriptOK,
         \/ \E s \in Scripts!Script : Scripts!Run(s)
         \/ Scripts!Abort
         \/ Scripts!Consume,
         UNCHANGED <<sales, late, uid, call>>
  PROVE  AdapterOK' /\ Scripts!ScriptOK'
  <1>1. AdapterOK'
    <2>1. partners \in [Ref -> Nat] /\ templates \in Nat /\ login \in BOOLEAN
      BY DEF AdapterOK
    <2>2. partners' = partners /\ templates' = templates /\ login' = login
      BY DEF Scripts!Run, Scripts!Abort, Scripts!Consume
    <2>3. QED
      BY <2>1, <2>2, GrowthOK
  <1>2. configured' = configured /\ demo' = demo
    BY DEF Scripts!Run, Scripts!Abort, Scripts!Consume
  <1>3. stock' \in 0..InitialQty
    <2>1. stock \in 0..InitialQty /\ InitialQty \in Nat
      BY SiteAssumption DEF Scripts!ScriptOK
    <2>2. stock' = stock \/ (stock > 0 /\ stock' = stock - 1)
      BY DEF Scripts!Run, Scripts!Abort, Scripts!Consume
    <2>3. QED
      BY <2>1, <2>2
  <1>4. script' \in {Scripts!NoScript} \cup Scripts!Running
    <2>1. \A s \in Scripts!Script : [name |-> s, seen |-> Scripts!Now] \in Scripts!Running
      BY NowIsSnapshot DEF Scripts!Running
    <2>2. script \in {Scripts!NoScript} \cup Scripts!Running
      BY DEF Scripts!ScriptOK
    <2>3. QED
      BY <2>1, <2>2 DEF Scripts!Run, Scripts!Abort, Scripts!Consume
  <1>5. QED
    BY <1>1, <1>2, <1>3, <1>4 DEF Scripts!ScriptOK

-----------------------------------------------------------------------------

LEMMA InitOK ==
  ASSUME Init
  PROVE  TypeOK
  <1>1. AdapterOK
    <2>1. /\ partners \in [Ref -> Nat] /\ templates \in Nat
          /\ sales \in [Order -> Seq([ref : Ref, partner : Nat])]
          /\ late \subseteq Creation /\ login \in BOOLEAN /\ uid \in [Caller -> BOOLEAN]
          /\ call \in [Caller -> Call]
      BY DEF Init, AdapterInit, Call
    <2>2. \A c \in Caller : call[c].pc = "idle"
      BY DEF Init, AdapterInit, Idle
    <2>3. PartnersExist
      BY <2>2 DEF Init, AdapterInit, PartnersExist, At
    <2>4. QED
      BY <2>1, <2>3 DEF AdapterOK
  <1>2. Scripts!ScriptOK
    <2>1. stock = 0 /\ 0 \in 0..InitialQty
      BY SiteAssumption DEF Init, Scripts!Init
    <2>2. demo \in [{"verify", "fulfill"} -> Scripts!DemoOrder]
      BY DEF Init, Scripts!Init, Scripts!DemoOrder
    <2>3. QED
      BY <2>1, <2>2 DEF Init, Scripts!Init, Scripts!ScriptOK
  <1>3. raced \subseteq Key
    BY DEF Init
  <1>4. used \in [DOMAIN Bounds -> Nat]
    BY DEF Init
  <1>5. QED
    BY <1>1, <1>2, <1>3, <1>4 DEF TypeOK

LEMMA SpendOK ==
  ASSUME used \in [DOMAIN Bounds -> Nat],
         UNCHANGED used \/ \E bound \in DOMAIN Bounds : Spend(bound)
  PROVE  used' \in [DOMAIN Bounds -> Nat]
  BY DEF Spend

LEMMA AdapterSpends ==
  ASSUME NEW c \in Caller, Adapter(c)
  PROVE  UNCHANGED used \/ \E bound \in DOMAIN Bounds : Spend(bound)
  BY DEF Adapter, Bounds

LEMMA OperatorSpends ==
  ASSUME Operator
  PROVE  UNCHANGED used \/ \E bound \in DOMAIN Bounds : Spend(bound)
  BY DEF Operator, Bounds

LEMMA NextOK ==
  ASSUME TypeOK, Next
  PROVE  TypeOK'
  <1> USE DEF TypeOK
  <1>1. raced' \in SUBSET Key
    BY DEF Next, Watch
  <1>2. ASSUME \/ \E c \in Caller : Adapter(c)
               \/ \E creation \in late : ServeLate(creation) /\ UNCHANGED used,
               KeepsUp, UNCHANGED <<stock, demo, script>>
        PROVE  TypeOK'
    <2>1. AdapterOK'
      BY <1>2, AdapterStepOK, ServeLateOK
    <2>2. used' \in [DOMAIN Bounds -> Nat]
      BY <1>2, AdapterSpends, SpendOK
    <2>3. Scripts!ScriptOK'
      BY <1>2 DEF KeepsUp, Scripts!ScriptOK
    <2>4. QED
      BY <1>1, <2>1, <2>2, <2>3
  <1>3. ASSUME Operator \/ (Scripts!Consume /\ UNCHANGED used),
               UNCHANGED <<sales, late, uid, call>>
        PROVE  TypeOK'
    <2>1. AdapterOK' /\ Scripts!ScriptOK'
      BY <1>3, ProvisionOK, VerifyOK, FulfillOK, RunAbortConsumeOK
         DEF Operator, Scripts!Complete
    <2>2. used' \in [DOMAIN Bounds -> Nat]
      BY <1>3, OperatorSpends, SpendOK
    <2>3. QED
      BY <1>1, <2>1, <2>2
  <1>4. QED
    BY <1>2, <1>3 DEF Next

\* The database, the calls and the scripts are well formed, and a sale order, a call
\* that is past its partner and a creation on its way name a partner that exists, for
\* any number of callers, orders, faults and runs (create_sale_order, the scripts).
THEOREM TypeCorrect == Spec => []TypeOK
  <1>1. Init => TypeOK
    BY InitOK
  <1>2. TypeOK /\ [Next]_vars => TypeOK'
    <2> SUFFICES ASSUME TypeOK, [Next]_vars PROVE TypeOK'
      OBVIOUS
    <2>1. CASE Next
      BY <2>1, NextOK
    <2>2. CASE UNCHANGED vars
      BY <2>2 DEF vars, adapterVars, odoo, siteVars, TypeOK, AdapterOK, PartnersExist, At,
         Scripts!ScriptOK
    <2>3. QED
      BY <2>1, <2>2
  <1>3. QED
    BY <1>1, <1>2, PTL DEF Spec

-----------------------------------------------------------------------------
(* A key that nobody has raced for has at most one record *)

\* The strengthening: whoever is about to create the record is alone, and there is
\* no record yet.
Single(key) ==
  /\ RecordsOf(key) <= 1
  /\ Creators(key) # {} => RecordsOf(key) = 0
  /\ ~Racing(key)

\* A step keeps the number of records, and adds a creator only where there is one or
\* there are no records; or it is the creation of one of the creators, who leaves.
Keeps(key) ==
  /\ RecordsOf(key)' = RecordsOf(key)
  /\ Creators(key)' # {} => Creators(key) # {} \/ RecordsOf(key) = 0

CreatedOnce(key) ==
  /\ RecordsOf(key)' = RecordsOf(key) + 1
  /\ \E a \in Creators(key) : Creators(key)' \subseteq Creators(key) \ {a}

LEMMA RecordsAreCounted ==
  ASSUME AdapterOK, NEW key \in Key
  PROVE  RecordsOf(key) \in Nat
  BY DEF AdapterOK, RecordsOf, Key

LEMMA SingleStays ==
  ASSUME AdapterOK, NEW key \in Key, Single(key), ~Racing(key)',
         Keeps(key) \/ CreatedOnce(key)
  PROVE  Single(key)'
  <1>1. RecordsOf(key) \in Nat
    BY RecordsAreCounted
  <1>2. CASE Keeps(key)
    BY <1>1, <1>2 DEF Keeps, Single
  <1>3. CASE CreatedOnce(key)
    <2>1. PICK a \in Creators(key) : Creators(key)' \subseteq Creators(key) \ {a}
      BY <1>3 DEF CreatedOnce
    <2>2. Creators(key)' = {}
      BY <2>1 DEF Single, Racing
    <2>3. RecordsOf(key)' = 1
      BY <1>1, <1>3, <2>1 DEF CreatedOnce, Single
    <2>4. QED
      BY <2>2, <2>3 DEF Single
  <1>4. QED
    BY <1>2, <1>3

LEMMA IsCreator ==
  ASSUME NEW key \in Key, NEW x
  PROVE  x \in Creators(key) <=>
           \/ \E c \in Caller : x = <<"caller", c>> /\ Creates(call[c], key)
           \/ \E l \in late : x = <<"late", l>> /\ Creates(l, key)
           \/ x = <<"script", "provision">> /\ ScriptCreates(key)
  BY DEF Creators, Creates, CreationOf

LEMMA IsCreatorNext ==
  ASSUME NEW key \in Key, NEW x
  PROVE  x \in Creators(key)' <=>
           \/ \E c \in Caller : x = <<"caller", c>> /\ Creates(call'[c], key)
           \/ \E l \in late' : x = <<"late", l>> /\ Creates(l, key)
           \/ x = <<"script", "provision">> /\ ScriptCreates(key)'
  BY DEF Creators, Creates, CreationOf

LEMMA ServeCounts ==
  ASSUME AdapterOK, NEW key \in Key, NEW creation \in Creation, Serve(creation)
  PROVE  RecordsOf(key)' = IF Creates(creation, key) THEN RecordsOf(key) + 1 ELSE RecordsOf(key)
  <1>1. CASE creation.pc = "new_partner" /\ ServePartner(creation.ref)
    <2>1. creation.ref \in Ref /\ creation.ref # SKU
      BY <1>1, KeyAssumption DEF Creation
    <2>2. QED
      BY <1>1, <2>1 DEF ServePartner, Creates, RecordsOf, Key, AdapterOK
  <1>2. CASE creation.pc = "new_product" /\ ServeProduct
    BY <1>2 DEF ServeProduct, Creates, RecordsOf
  <1>3. CASE creation.pc = "new_sale"
             /\ ServeSale(creation.order, creation.ref, creation.partner)
    BY <1>3 DEF ServeSale, Creates, RecordsOf
  <1>4. QED
    BY <1>1, <1>2, <1>3 DEF Serve

\* What a caller's step comes to: it goes on with the call t, which is about to
\* create a record only if there is none, and what it was about to create stays
\* away or is on its way; or Odoo has created it.
Moves(c, key, t) ==
  /\ call' = [call EXCEPT ![c] = t]
  /\ \/ /\ UNCHANGED odoo
        /\ \A l \in late' : l \in late \/ l = CreationOf(c)
        /\ Creates(t, key) => RecordsOf(key) = 0
     \/ /\ CreationOf(c) \in Creation /\ Serve(CreationOf(c))
        /\ late' = late
        /\ ~Creates(t, key)

LEMMA MovesSingle ==
  ASSUME AdapterOK, NEW key \in Key, NEW c \in Caller, NEW t, Moves(c, key, t),
         UNCHANGED script
  PROVE  Keeps(key) \/ CreatedOnce(key)
  <1>1. \A d \in Caller : call'[d] = IF d = c THEN t ELSE call[d]
    BY DEF Moves, AdapterOK
  <1>2. ScriptCreates(key)' = ScriptCreates(key)
    BY DEF ScriptCreates, Scripts!MissingProduct, Scripts!MissingRefs
  <1>3. CASE /\ UNCHANGED odoo
             /\ \A l \in late' : l \in late \/ l = CreationOf(c)
             /\ Creates(t, key) => RecordsOf(key) = 0
    <2>1. RecordsOf(key)' = RecordsOf(key)
      BY <1>3 DEF RecordsOf, odoo
    <2>2. ASSUME NEW x \in Creators(key)', RecordsOf(key) # 0
          PROVE  Creators(key) # {}
      <3>1. CASE \E d \in Caller : x = <<"caller", d>> /\ Creates(call'[d], key)
        BY <1>1, <1>3, <2>2, <3>1, IsCreator
      <3>2. CASE \E l \in late' : x = <<"late", l>> /\ Creates(l, key)
        <4>1. PICK l \in late' : Creates(l, key)
          BY <3>2
        <4>2. CASE l \in late
          BY <4>1, <4>2, IsCreator
        <4>3. CASE l = CreationOf(c)
          <5>1. Creates(call[c], key)
            BY <4>1, <4>3 DEF Creates, CreationOf
          <5>2. QED
            BY <5>1, IsCreator
        <4>4. QED
          BY <1>3, <4>2, <4>3
      <3>3. CASE x = <<"script", "provision">> /\ ScriptCreates(key)'
        BY <1>2, <3>3, IsCreator
      <3>4. QED
        BY <3>1, <3>2, <3>3, IsCreatorNext
    <2>3. QED
      BY <2>1, <2>2 DEF Keeps
  <1>4. CASE /\ CreationOf(c) \in Creation /\ Serve(CreationOf(c))
             /\ late' = late
             /\ ~Creates(t, key)
    <2>1. RecordsOf(key)' = IF Creates(call[c], key) THEN RecordsOf(key) + 1 ELSE RecordsOf(key)
      <3>1. Creates(CreationOf(c), key) = Creates(call[c], key)
        BY DEF Creates, CreationOf
      <3>2. QED
        BY <1>4, <3>1, ServeCounts
    <2>2. ASSUME NEW x \in Creators(key)'
          PROVE  x \in Creators(key) \ {<<"caller", c>>}
      <3>1. CASE \E d \in Caller : x = <<"caller", d>> /\ Creates(call'[d], key)
        BY <1>1, <1>4, <3>1, IsCreator
      <3>2. CASE \E l \in late' : x = <<"late", l>> /\ Creates(l, key)
        BY <1>4, <3>2, IsCreator
      <3>3. CASE x = <<"script", "provision">> /\ ScriptCreates(key)'
        BY <1>2, <3>3, IsCreator
      <3>4. QED
        BY <3>1, <3>2, <3>3, IsCreatorNext
    <2>3. CASE Creates(call[c], key)
      <3>1. <<"caller", c>> \in Creators(key)
        BY <2>3, IsCreator
      <3>2. QED
        BY <2>1, <2>2, <2>3, <3>1 DEF CreatedOnce
    <2>4. CASE ~Creates(call[c], key)
      BY <2>1, <2>2, <2>4 DEF Keeps
    <2>5. QED
      BY <2>3, <2>4
  <1>5. QED
    BY <1>3, <1>4 DEF Moves

LEMMA FieldsOfCall ==
  ASSUME NEW t \in SaleCall \cup ProductCall, NEW pc, NEW n
  PROVE  /\ [t EXCEPT !.pc = pc].pc = pc /\ [t EXCEPT !.pc = pc].ref = t.ref
         /\ [t EXCEPT !.pc = pc, !.sale = n].pc = pc
         /\ [t EXCEPT !.pc = pc, !.partner = n].pc = pc
  BY DEF SaleCall, ProductCall

LEMMA StepMoves ==
  ASSUME AdapterOK, NEW key \in Key, NEW c \in Caller, Step(c)
  PROVE  \E t : Moves(c, key, t)
  <1>1. \A pc, n : call[c].pc # "idle" =>
          /\ [call[c] EXCEPT !.pc = pc].pc = pc
          /\ [call[c] EXCEPT !.pc = pc].ref = call[c].ref
          /\ [call[c] EXCEPT !.pc = pc, !.sale = n].pc = pc
          /\ [call[c] EXCEPT !.pc = pc, !.partner = n].pc = pc
    BY KindOfPoint, FieldsOfCall
  <1>2. CASE Authenticate(c)
    <2>1. PICK pc \in {"upsert", "find", "rejected"} :
            call' = [call EXCEPT ![c] = [call[c] EXCEPT !.pc = pc]]
      BY <1>2 DEF Authenticate, Goto
    <2>2. QED
      BY <1>1, <1>2, <2>1 DEF Authenticate, At, Moves, Creates
  <1>3. CASE FindSaleOrder(c)
    <2>1. PICK t : call' = [call EXCEPT ![c] = t] /\ t.pc \in {"partner", "answered"}
      <3>1. CASE sales[call[c].order] = <<>>
        BY <1>1, <1>3, <3>1 DEF FindSaleOrder, Goto, At
      <3>2. CASE sales[call[c].order] # <<>>
        <4>1. PICK n : call' = [call EXCEPT ![c] =
                         [call[c] EXCEPT !.pc = "answered", !.sale = n]]
          BY <1>3, <3>2 DEF FindSaleOrder
        <4> DEFINE t == [call[c] EXCEPT !.pc = "answered", !.sale = n]
        <4>2. t.pc = "answered"
          BY <1>1, <1>3 DEF FindSaleOrder, At
        <4>3. QED
          BY <4>1, <4>2
      <3>3. QED
        BY <3>1, <3>2
    <2>2. QED
      BY <1>3, <2>1 DEF FindSaleOrder, Moves, Creates
  <1>4. CASE FindPartner(c)
    <2>1. CASE partners[call[c].ref] = 0
      <3> DEFINE t == [call[c] EXCEPT !.pc = "new_partner"]
      <3>1. call[c] \in SaleCall
        BY <1>4, KindOfPoint DEF FindPartner, At
      <3>2. t.pc = "new_partner" /\ t.ref = call[c].ref /\ t.ref # SKU
        BY <3>1, KeyAssumption DEF SaleCall
      <3>3. Creates(t, key) => RecordsOf(key) = 0
        BY <2>1, <3>2 DEF Creates, RecordsOf
      <3>4. QED
        BY <1>4, <2>1, <3>3 DEF FindPartner, Goto, Moves
    <2>2. CASE partners[call[c].ref] # 0
      <3>1. PICK n : call' = [call EXCEPT ![c] =
                       [call[c] EXCEPT !.pc = "product", !.partner = n]]
        BY <1>4, <2>2 DEF FindPartner
      <3>2. PICK t : call' = [call EXCEPT ![c] = t] /\ t.pc = "product"
        BY <1>1, <1>4, <3>1 DEF FindPartner, At
      <3>3. QED
        BY <1>4, <3>2 DEF FindPartner, Moves, Creates
    <2>3. QED
      BY <2>1, <2>2
  <1>5. CASE FindProduct(c)
    <2>1. PICK pc \in {"rejected", "new_sale"} :
            call' = [call EXCEPT ![c] = [call[c] EXCEPT !.pc = pc]]
      BY <1>5 DEF FindProduct, Goto
    <2>2. QED
      BY <1>1, <1>5, <2>1 DEF FindProduct, At, Moves, Creates
  <1>6. CASE FindUpserted(c)
    <2> DEFINE t == [call[c] EXCEPT !.pc = IF templates = 0 THEN "new_product" ELSE "answered"]
    <2>1. t.pc = IF templates = 0 THEN "new_product" ELSE "answered"
      BY <1>1, <1>6 DEF FindUpserted, At
    <2>2. Creates(t, key) => RecordsOf(key) = 0
      BY <2>1 DEF Creates, RecordsOf
    <2>3. QED
      BY <1>6, <2>2 DEF FindUpserted, Goto, Moves
  <1>7. CASE Return(c)
    <2>1. ~Creates(Idle, key)
      BY DEF Creates, Idle
    <2>2. QED
      BY <1>7, <2>1 DEF Return, Moves
  <1>8. CASE CreatePartner(c)
    <2>1. CreationOf(c) \in Creation /\ Serve(CreationOf(c))
      BY <1>8, CreationIsCreation DEF CreatePartner, At, Creating, CreationOf, Serve
    <2> DEFINE t == [call[c] EXCEPT !.pc = "product", !.partner = partners[call[c].ref] + 1]
    <2>2. t.pc = "product"
      BY <1>1, <1>8 DEF CreatePartner, At
    <2>3. call' = [call EXCEPT ![c] = t] /\ late' = late
      BY <1>8 DEF CreatePartner
    <2>4. QED
      BY <2>1, <2>2, <2>3 DEF Moves, Creates
  <1>9. CASE CreateSale(c)
    <2>1. CreationOf(c) \in Creation /\ Serve(CreationOf(c))
      BY <1>9, CreationIsCreation DEF CreateSale, At, Creating, CreationOf, Serve
    <2> DEFINE t == [call[c] EXCEPT !.pc = "answered", !.sale = Len(sales[call[c].order]) + 1]
    <2>2. t.pc = "answered"
      BY <1>1, <1>9 DEF CreateSale, At
    <2>3. call' = [call EXCEPT ![c] = t] /\ late' = late
      BY <1>9 DEF CreateSale
    <2>4. QED
      BY <2>1, <2>2, <2>3 DEF Moves, Creates
  <1>10. CASE CreateProduct(c)
    <2>1. CreationOf(c) \in Creation /\ Serve(CreationOf(c))
      BY <1>10, CreationIsCreation DEF CreateProduct, At, Creating, CreationOf, Serve
    <2>2. PICK t : call' = [call EXCEPT ![c] = t] /\ t.pc = "answered"
      BY <1>1, <1>10 DEF CreateProduct, Goto, At
    <2>3. QED
      BY <1>10, <2>1, <2>2 DEF CreateProduct, Moves, Creates
  <1>11. QED
    BY <1>2, <1>3, <1>4, <1>5, <1>6, <1>7, <1>8, <1>9, <1>10 DEF Step

LEMMA LostMoves ==
  ASSUME AdapterOK, NEW key \in Key, NEW c \in Caller, Lost(c), NEW t,
         call' = [call EXCEPT ![c] = t], t.pc \notin Creating
  PROVE  Moves(c, key, t)
  <1>1. ~Creates(t, key)
    BY DEF Creates, Creating
  <1>2. CASE Unheard
    BY <1>1, <1>2 DEF Unheard, Moves
  <1>3. CASE Unanswered(c)
    BY <1>1, <1>3, CreationIsCreation DEF Unanswered, Moves
  <1>4. CASE Delayed(c)
    BY <1>1, <1>4 DEF Delayed, Moves
  <1>5. QED
    BY <1>2, <1>3, <1>4 DEF Lost

LEMMA AdapterMoves ==
  ASSUME AdapterOK, NEW key \in Key, NEW c \in Caller, Adapter(c)
  PROVE  \E t : Moves(c, key, t)
  <1>1. CASE Step(c)
    BY <1>1, StepMoves
  <1>2. CASE StartProduct(c)
    <2> DEFINE t == [Idle EXCEPT !.pc = IF uid[c] THEN "upsert" ELSE "auth",
                                 !.order = Null, !.ref = Null]
    <2>1. ~Creates(t, key)
      BY DEF Creates, Idle
    <2>2. QED
      BY <1>2, <2>1 DEF StartProduct, Start, Moves
  <1>3. ASSUME NEW o \in Order, StartSale(c, o, RefOf[o])
        PROVE  \E t : Moves(c, key, t)
    <2> DEFINE t == [Idle EXCEPT !.pc = IF uid[c] THEN "find" ELSE "auth",
                                 !.order = o, !.ref = RefOf[o]]
    <2>1. ~Creates(t, key)
      BY DEF Creates, Idle
    <2>2. QED
      BY <1>3, <2>1 DEF StartSale, Start, Moves
  <1>4. ASSUME NEW outcome \in Outcome, Fail(c, outcome)
        PROVE  \E t : Moves(c, key, t)
    <2>1. PICK pc \in {"failed", "rejected"} :
            call' = [call EXCEPT ![c] = [call[c] EXCEPT !.pc = pc]]
      BY <1>4 DEF Fail, Goto
    <2>2. call[c] \in SaleCall \cup ProductCall
      BY <1>4, KindOfPoint DEF Fail, Waiting, Creating
    <2> DEFINE t == [call[c] EXCEPT !.pc = pc]
    <2>3. t.pc \notin Creating
      BY <2>1, <2>2, FieldsOfCall DEF Creating
    <2>4. Lost(c)
      BY <1>4 DEF Fail, Lost
    <2>5. QED
      BY <2>1, <2>3, <2>4, LostMoves
  <1>5. CASE Die(c)
    <2>1. Idle.pc \notin Creating
      BY DEF Idle, Creating
    <2>2. QED
      BY <1>5, <2>1, LostMoves DEF Die
  <1>6. QED
    BY <1>1, <1>2, <1>3, <1>4, <1>5 DEF Adapter

LEMMA ServeLateSingle ==
  ASSUME AdapterOK, NEW key \in Key, NEW creation \in late, ServeLate(creation),
         UNCHANGED script
  PROVE  Keeps(key) \/ CreatedOnce(key)
  <1>1. RecordsOf(key)' =
          IF Creates(creation, key) THEN RecordsOf(key) + 1 ELSE RecordsOf(key)
    <2>1. creation \in Creation
      BY DEF AdapterOK
    <2>2. QED
      BY <2>1, ServeCounts DEF ServeLate
  <1>2. ScriptCreates(key)' = ScriptCreates(key)
    BY DEF ScriptCreates, Scripts!MissingProduct, Scripts!MissingRefs
  <1>3. ASSUME NEW x \in Creators(key)'
        PROVE  x \in Creators(key) \ {<<"late", creation>>}
    <2>1. CASE \E c \in Caller : x = <<"caller", c>> /\ Creates(call'[c], key)
      BY <2>1, IsCreator DEF ServeLate
    <2>2. CASE \E l \in late' : x = <<"late", l>> /\ Creates(l, key)
      BY <2>2, IsCreator DEF ServeLate
    <2>3. CASE x = <<"script", "provision">> /\ ScriptCreates(key)'
      BY <1>2, <2>3, IsCreator
    <2>4. QED
      BY <2>1, <2>2, <2>3, IsCreatorNext
  <1>4. CASE Creates(creation, key)
    <2>1. <<"late", creation>> \in Creators(key)
      BY <1>4, IsCreator
    <2>2. QED
      BY <1>1, <1>3, <1>4, <2>1 DEF CreatedOnce
  <1>5. CASE ~Creates(creation, key)
    BY <1>1, <1>3, <1>5 DEF Keeps
  <1>6. QED
    BY <1>4, <1>5

\* Callers and creations on their way have no part in what a script does.
LEMMA OnlyScriptChanges ==
  ASSUME NEW key \in Key, UNCHANGED <<late, call>>, NEW x \in Creators(key)'
  PROVE  x \in Creators(key) \/ (x = <<"script", "provision">> /\ ScriptCreates(key)')
  BY IsCreator, IsCreatorNext

LEMMA ProvisionSingle ==
  ASSUME AdapterOK, NEW key \in Key, Scripts!Provision, UNCHANGED <<late, call>>
  PROVE  Keeps(key) \/ CreatedOnce(key)
  <1>1. ~ScriptCreates(key)'
    BY DEF Scripts!Provision, Scripts!Ends, Scripts!NoScript, ScriptCreates
  <1>2. Creators(key)' \subseteq Creators(key)
    BY <1>1, OnlyScriptChanges
  <1>3. Creators(key)' \subseteq Creators(key) \ {<<"script", "provision">>}
    BY <1>1, <1>2, IsCreatorNext
  <1>4. script.name = "provision"
    BY DEF Scripts!Provision, Scripts!Ends
  <1>5. RecordsOf(key)' = IF ScriptCreates(key) THEN RecordsOf(key) + 1 ELSE RecordsOf(key)
    <2>1. CASE key = SKU
      <3>1. ScriptCreates(key) <=> Scripts!MissingProduct(script.seen)
        BY <1>4, <2>1, KeyAssumption, SiteAssumption DEF ScriptCreates, Scripts!MissingRefs
      <3>2. QED
        BY <2>1, <3>1 DEF Scripts!Provision, RecordsOf
    <2>2. CASE key # SKU
      <3>1. key \in Ref
        BY <2>2 DEF Key
      <3>2. ScriptCreates(key) <=> key \in Scripts!MissingRefs(script.seen)
        BY <1>4, <2>2 DEF ScriptCreates
      <3>3. QED
        BY <2>2, <3>1, <3>2 DEF Scripts!Provision, RecordsOf
    <2>3. QED
      BY <2>1, <2>2
  <1>6. CASE ScriptCreates(key)
    <2>1. <<"script", "provision">> \in Creators(key)
      BY <1>6, IsCreator
    <2>2. QED
      BY <1>3, <1>5, <1>6, <2>1 DEF CreatedOnce
  <1>7. CASE ~ScriptCreates(key)
    BY <1>2, <1>5, <1>7 DEF Keeps
  <1>8. QED
    BY <1>6, <1>7

LEMMA OtherScriptsSingle ==
  ASSUME AdapterOK, NEW key \in Key, UNCHANGED <<partners, templates, late, call>>,
         script' \in {script, Scripts!NoScript} \/ \E s \in Scripts!Script : Scripts!Run(s)
  PROVE  Keeps(key)
  <1>1. RecordsOf(key)' = RecordsOf(key)
    BY DEF RecordsOf
  <1>2. ScriptCreates(key)' => ScriptCreates(key) \/ RecordsOf(key) = 0
    <2>1. CASE script' = script
      BY <2>1 DEF ScriptCreates, Scripts!MissingProduct, Scripts!MissingRefs
    <2>2. CASE script' = Scripts!NoScript
      BY <2>2 DEF ScriptCreates, Scripts!NoScript
    <2>3. CASE \E s \in Scripts!Script : Scripts!Run(s)
      <3>1. script'.seen.templates = templates /\ script'.seen.partners = partners
        BY <2>3 DEF Scripts!Run, Scripts!Now
      <3>2. Demo \subseteq Ref /\ SKU \notin Ref
        BY SiteAssumption, KeyAssumption
      <3>3. QED
        BY <3>1, <3>2 DEF ScriptCreates, Scripts!MissingProduct, Scripts!MissingRefs, RecordsOf
    <2>4. QED
      BY <2>1, <2>2, <2>3
  <1>3. Creators(key)' # {} => Creators(key) # {} \/ RecordsOf(key) = 0
    BY <1>2, OnlyScriptChanges, IsCreator
  <1>4. QED
    BY <1>1, <1>3 DEF Keeps

UnracedAreSingle == \A key \in Key \ raced : Single(key)

LEMMA InitSingle ==
  ASSUME Init
  PROVE  UnracedAreSingle
  <1>1. AdapterOK
    BY InitOK DEF TypeOK
  <1>2. ASSUME NEW key \in Key PROVE RecordsOf(key) = 0 /\ Creators(key) = {}
    <2>1. RecordsOf(key) = 0
      BY <1>2 DEF Init, AdapterInit, RecordsOf, Key
    <2>2. \A c \in Caller : ~Creates(call[c], key)
      BY DEF Init, AdapterInit, Idle, Creates
    <2>3. late = {} /\ ~ScriptCreates(key)
      BY DEF Init, AdapterInit, Scripts!Init, Scripts!NoScript, ScriptCreates
    <2>4. QED
      BY <2>1, <2>2, <2>3, IsCreator
  <1>3. QED
    BY <1>2 DEF UnracedAreSingle, Single, Racing

LEMMA NextSingle ==
  ASSUME TypeOK, UnracedAreSingle, Next
  PROVE  UnracedAreSingle'
  <1>1. AdapterOK
    BY DEF TypeOK
  <1>2. raced' = raced \cup {key \in Key : Racing(key)'}
    BY DEF Next, Watch
  <1>3. ASSUME NEW key \in Key PROVE Keeps(key) \/ CreatedOnce(key)
    <2>1. CASE (\E c \in Caller : Adapter(c)) /\ UNCHANGED script
      BY <1>1, <2>1, AdapterMoves, MovesSingle
    <2>2. CASE (\E creation \in late : ServeLate(creation)) /\ UNCHANGED script
      BY <1>1, <2>2, ServeLateSingle
    <2>3. CASE Operator /\ UNCHANGED <<late, call>>
      <3>1. CASE Scripts!Provision
        BY <1>1, <2>3, <3>1, ProvisionSingle
      <3>2. CASE Scripts!Verify \/ Scripts!Fulfill \/ Scripts!Abort
                  \/ \E s \in Scripts!Script : Scripts!Run(s)
        BY <1>1, <2>3, <3>2, OtherScriptsSingle
           DEF Scripts!Verify, Scripts!Fulfill, Scripts!Abort, Scripts!Run, Scripts!Ends
      <3>3. QED
        BY <2>3, <3>1, <3>2 DEF Operator, Scripts!Complete
    <2>4. CASE Scripts!Consume /\ UNCHANGED <<late, call>>
      BY <1>1, <2>4, OtherScriptsSingle DEF Scripts!Consume
    <2>5. QED
      BY <2>1, <2>2, <2>3, <2>4 DEF Next
  <1>4. ASSUME NEW key \in Key \ raced' PROVE Single(key)'
    BY <1>1, <1>2, <1>3, SingleStays DEF UnracedAreSingle
  <1>5. QED
    BY <1>4 DEF UnracedAreSingle, Key

\* A retailer has one partner and the SKU one product, whatever calls fail, are
\* repeated or served late, however often the scripts run and whoever dies, unless two
\* creations of the record have been under way at once: the searches of
\* create_sale_order, upsert_product and provision_odoo.py make up for the unique
\* keys Odoo does not have (odoo_http.py, provision_odoo.py).
THEOREM OneRecordUnlessRaced == Spec => []OneRecordPerKey
  <1>1. Init => UnracedAreSingle
    BY InitSingle
  <1>2. TypeOK /\ UnracedAreSingle /\ [Next]_vars => UnracedAreSingle'
    <2> SUFFICES ASSUME TypeOK, UnracedAreSingle, [Next]_vars PROVE UnracedAreSingle'
      OBVIOUS
    <2>1. CASE Next
      BY <2>1, NextSingle
    <2>2. CASE UNCHANGED vars
      <3>1. \A key \in Key : /\ RecordsOf(key)' = RecordsOf(key)
                             /\ Creators(key)' = Creators(key)
        BY <2>2 DEF vars, adapterVars, odoo, siteVars, RecordsOf, Creators, CreationOf,
           ScriptCreates, Scripts!MissingProduct, Scripts!MissingRefs
      <3>2. raced' = raced
        BY <2>2 DEF vars
      <3>3. QED
        BY <3>1, <3>2 DEF UnracedAreSingle, Single, Racing
    <2>3. QED
      BY <2>1, <2>2
  <1>3. UnracedAreSingle => OneRecordPerKey
    BY DEF UnracedAreSingle, Single, OneRecordPerKey
  <1>4. QED
    BY <1>1, <1>2, <1>3, TypeCorrect, PTL DEF Spec

-----------------------------------------------------------------------------
(* A script that finds its work done changes nothing *)

\* What a script has seen is out of date only by records that were created since;
\* as long as there are none, what it has found configured still is.
SeenHolds ==
  /\ configured => login
  /\ script # Scripts!NoScript =>
       LET seen == script.seen IN
       /\ templates >= seen.templates /\ \A r \in Ref : partners[r] >= seen.partners[r]
       /\ seen.configured => login
       /\ seen.configured /\ partners = seen.partners /\ templates = seen.templates
            => configured

LEMMA SeenIsTyped ==
  ASSUME Scripts!ScriptOK, script # Scripts!NoScript
  PROVE  /\ script.name \in Scripts!Script /\ script.seen \in Scripts!Snapshot
         /\ script.seen.templates \in Nat /\ script.seen.partners \in [Ref -> Nat]
         /\ script.seen.configured \in BOOLEAN
  BY DEF Scripts!ScriptOK, Scripts!Running, Scripts!Snapshot

\* The records are never fewer after a step of an adapter.
LEMMA AdapterGrows ==
  ASSUME AdapterOK, \/ \E c \in Caller : Adapter(c)
                    \/ \E creation \in late : ServeLate(creation)
  PROVE  /\ templates' >= templates /\ \A r \in Ref : partners'[r] >= partners[r]
         /\ login' = login
  <1>1. login' = login
    BY DEF Adapter, Step, Authenticate, FindSaleOrder, FindPartner, CreatePartner, FindProduct,
       CreateSale, FindUpserted, CreateProduct, Return, StartProduct, StartSale, Start, Fail,
       Die, ServeLate
  <1>2. \A key \in Key : RecordsOf(key)' >= RecordsOf(key)
    <2>1. ASSUME NEW key \in Key, Keeps(key) \/ CreatedOnce(key)
          PROVE  RecordsOf(key)' >= RecordsOf(key)
      BY <2>1, RecordsAreCounted DEF Keeps, CreatedOnce
    <2>2. ASSUME NEW key \in Key, NEW c \in Caller, Adapter(c)
          PROVE  RecordsOf(key)' >= RecordsOf(key)
      <3>1. PICK t : Moves(c, key, t)
        BY <2>2, AdapterMoves
      <3>2. CASE UNCHANGED odoo
        BY <3>2, RecordsAreCounted DEF odoo, RecordsOf
      <3>3. CASE CreationOf(c) \in Creation /\ Serve(CreationOf(c))
        BY <3>3, ServeCounts, RecordsAreCounted
      <3>4. QED
        BY <3>1, <3>2, <3>3 DEF Moves
    <2>3. ASSUME NEW key \in Key, NEW creation \in late, ServeLate(creation)
          PROVE  RecordsOf(key)' >= RecordsOf(key)
      <3>1. creation \in Creation /\ Serve(creation)
        BY <2>3 DEF AdapterOK, ServeLate
      <3>2. QED
        BY <3>1, ServeCounts, RecordsAreCounted
    <2>4. QED
      BY <2>2, <2>3
  <1>3. templates' >= templates
    <2>1. SKU \in Key
      BY DEF Key
    <2>2. QED
      BY <1>2, <2>1 DEF RecordsOf
  <1>4. \A r \in Ref : partners'[r] >= partners[r]
    <2>1. \A r \in Ref : r \in Key /\ r # SKU
      BY KeyAssumption DEF Key
    <2>2. QED
      BY <1>2, <2>1 DEF RecordsOf
  <1>5. QED
    BY <1>1, <1>3, <1>4

LEMMA AdapterKeepsSeen ==
  ASSUME TypeOK, TypeOK', SeenHolds,
         \/ \E c \in Caller : Adapter(c)
         \/ \E creation \in late : ServeLate(creation),
         KeepsUp, UNCHANGED script
  PROVE  SeenHolds'
  <1>1. /\ templates' >= templates /\ \A r \in Ref : partners'[r] >= partners[r]
        /\ login' = login
    BY AdapterGrows DEF TypeOK
  <1>2. /\ templates \in Nat /\ templates' \in Nat
        /\ partners \in [Ref -> Nat] /\ partners' \in [Ref -> Nat]
        /\ configured \in BOOLEAN /\ configured' \in BOOLEAN
    BY DEF TypeOK, AdapterOK, Scripts!ScriptOK
  <1>3. configured' => configured
    BY <1>2 DEF KeepsUp
  <1>4. ASSUME script # Scripts!NoScript
        PROVE  /\ templates' >= script.seen.templates
               /\ \A r \in Ref : partners'[r] >= script.seen.partners[r]
               /\ script.seen.configured /\ partners' = script.seen.partners
                    /\ templates' = script.seen.templates => configured'
    <2>1. script.seen.templates \in Nat /\ script.seen.partners \in [Ref -> Nat]
      BY <1>4, SeenIsTyped DEF TypeOK
    <2>2. templates >= script.seen.templates
          /\ \A r \in Ref : partners[r] >= script.seen.partners[r]
      BY <1>4 DEF SeenHolds
    <2>3. templates' >= script.seen.templates
          /\ \A r \in Ref : partners'[r] >= script.seen.partners[r]
      BY <1>1, <1>2, <2>1, <2>2
    <2>4. ASSUME script.seen.configured, partners' = script.seen.partners,
                 templates' = script.seen.templates
          PROVE  configured'
      <3>1. templates' = templates
        BY <1>1, <1>2, <2>1, <2>2, <2>4
      <3>2. \A r \in Ref : partners'[r] = partners[r]
        BY <1>1, <1>2, <2>1, <2>2, <2>4
      <3>3. partners' = partners
        BY <1>2, <3>2
      <3>4. configured' = configured
        BY <3>1, <3>3 DEF KeepsUp
      <3>5. QED
        BY <1>4, <2>4, <3>1, <3>3, <3>4 DEF SeenHolds
    <2>5. QED
      BY <2>3, <2>4
  <1>5. QED
    BY <1>1, <1>3, <1>4 DEF SeenHolds

LEMMA OperatorKeepsSeen ==
  ASSUME TypeOK, SeenHolds, Operator \/ Scripts!Consume
  PROVE  SeenHolds'
  <1>1. templates \in Nat /\ partners \in [Ref -> Nat]
    BY DEF TypeOK, AdapterOK
  <1>2. CASE Scripts!Provision
    BY <1>2 DEF Scripts!Provision, Scripts!Configure, Scripts!Ends, SeenHolds
  <1>3. CASE Scripts!Verify \/ Scripts!Fulfill \/ Scripts!Abort
    BY <1>3 DEF Scripts!Verify, Scripts!Fulfill, Scripts!Abort, Scripts!Ends, SeenHolds
  <1>4. CASE \E s \in Scripts!Script : Scripts!Run(s)
    <2>1. /\ UNCHANGED <<partners, templates, login, configured>>
          /\ script'.seen.templates = templates /\ script'.seen.partners = partners
          /\ script'.seen.configured = configured
      BY <1>4 DEF Scripts!Run, Scripts!Now
    <2>2. templates >= templates /\ \A r \in Ref : partners[r] >= partners[r]
      BY <1>1
    <2>3. QED
      BY <2>1, <2>2 DEF SeenHolds
  <1>5. CASE Scripts!Consume
    BY <1>5 DEF Scripts!Consume, SeenHolds
  <1>6. QED
    BY <1>2, <1>3, <1>4, <1>5 DEF Operator, Scripts!Complete

\* A script that ends: if its target was reached when it looked, it has no effect.
LEMMA DoneEndsQuietly ==
  ASSUME TypeOK, SeenHolds, Operator, script # Scripts!NoScript,
         TargetReached, UNCHANGED sales
  PROVE  UNCHANGED <<odoo, login, configured, stock, demo>>
  <1>1. CASE Scripts!Provision
    <2>1. script.name = "provision"
      BY <1>1 DEF Scripts!Provision, Scripts!Ends
    <2>2. /\ \A r \in Demo : script.seen.partners[r] > 0
          /\ script.seen.templates = 1 /\ script.seen.configured /\ script.seen.stock > 0
      BY <2>1 DEF TargetReached
    <2>3. Scripts!MissingRefs(script.seen) = {}
      BY <2>2, SeenIsTyped, SiteAssumption DEF TypeOK, Scripts!MissingRefs
    <2>4. ~Scripts!MissingProduct(script.seen) /\ ~Scripts!Refills(script.seen)
      BY <2>2 DEF Scripts!MissingProduct, Scripts!Refills
    <2>5. partners' = partners
      BY <1>1, <2>3 DEF Scripts!Provision, TypeOK, AdapterOK
    <2>6. templates' = templates /\ stock' = stock /\ demo' = demo /\ login' = TRUE
      BY <1>1, <2>4 DEF Scripts!Provision, Scripts!Configure
    <2>7. login = TRUE
      BY <2>2 DEF SeenHolds, TypeOK, AdapterOK
    <2>8. configured' = configured
      <3>1. CASE partners = script.seen.partners /\ templates = script.seen.templates
        <4>1. configured' = TRUE
          BY <1>1, <3>1 DEF Scripts!Provision, Scripts!Configure
        <4>2. configured = TRUE
          BY <2>2, <3>1 DEF SeenHolds, TypeOK, Scripts!ScriptOK
        <4>3. QED
          BY <4>1, <4>2
      <3>2. CASE ~(partners = script.seen.partners /\ templates = script.seen.templates)
        BY <1>1, <2>2, <3>2 DEF Scripts!Provision, Scripts!Configure
      <3>3. QED
        BY <3>1, <3>2
    <2>9. QED
      BY <2>5, <2>6, <2>7, <2>8 DEF odoo
  <1>2. CASE Scripts!Verify
    <2>1. script.seen.demo["verify"] # "none"
      BY <1>2 DEF Scripts!Verify, Scripts!Ends, TargetReached
    <2>2. QED
      BY <1>2, <2>1 DEF Scripts!Verify, Scripts!Due, odoo
  <1>3. CASE Scripts!Fulfill
    <2>1. script.seen.demo["fulfill"] = "shipped"
      BY <1>3 DEF Scripts!Fulfill, Scripts!Ends, TargetReached
    <2>2. QED
      BY <1>3, <2>1 DEF Scripts!Fulfill, Scripts!DueToShip, Scripts!Due, odoo
  <1>4. CASE Scripts!Abort
    BY <1>4 DEF Scripts!Abort, odoo
  <1>5. QED
    BY <1>1, <1>2, <1>3, <1>4 DEF Operator, Scripts!Complete, Scripts!Run

\* A script that finds its work done changes nothing, whoever created the records it
\* finds and whatever adapters and warehouse do while it runs, for any number of them
\* (the promise in the head of provision_odoo.py).
THEOREM RerunsAreQuiet == Spec => RerunChangesNothing
  <1> DEFINE Quiet == script # Scripts!NoScript /\ script' = Scripts!NoScript /\ TargetReached
                        => UNCHANGED <<odoo, login, configured, stock, demo>>
  <1>1. Init => SeenHolds
    BY DEF Init, Scripts!Init, SeenHolds
  <1>2. TypeOK /\ TypeOK' /\ SeenHolds /\ [Next]_vars => SeenHolds'
    <2> SUFFICES ASSUME TypeOK, TypeOK', SeenHolds, [Next]_vars PROVE SeenHolds'
      OBVIOUS
    <2>1. CASE Next
      BY <2>1, AdapterKeepsSeen, OperatorKeepsSeen DEF Next
    <2>2. CASE UNCHANGED vars
      BY <2>2 DEF vars, adapterVars, odoo, siteVars, SeenHolds
    <2>3. QED
      BY <2>1, <2>2
  <1>3. TypeOK /\ SeenHolds /\ [Next]_vars => [Quiet]_vars
    <2> SUFFICES ASSUME TypeOK, SeenHolds, Next, script # Scripts!NoScript,
                        script' = Scripts!NoScript, TargetReached
                 PROVE  UNCHANGED <<odoo, login, configured, stock, demo>>
      OBVIOUS
    <2>1. Operator /\ UNCHANGED sales
      BY DEF Next, Scripts!Consume
    <2>2. QED
      BY <2>1, DoneEndsQuietly
  <1>4. QED
    BY <1>1, <1>2, <1>3, TypeCorrect, PTL DEF Spec, RerunChangesNothing

-----------------------------------------------------------------------------
(* The adapter implements SaleOrderCalls *)

\* What a caller that knows of sale orders only sees of the database.
Mapped == <<Made, Asks, Pending>>

LEMMA Phases ==
  /\ PhaseOf("auth") = "find" /\ PhaseOf("find") = "find"
  /\ PhaseOf("partner") = "create" /\ PhaseOf("new_partner") = "create"
  /\ PhaseOf("product") = "create" /\ PhaseOf("new_sale") = "create"
  /\ PhaseOf("answered") = "answered" /\ PhaseOf("failed") = "failed"
  /\ PhaseOf("rejected") = "rejected"
  BY DEF PhaseOf

LEMMA AsksOfSale ==
  ASSUME NEW t \in SaleCall
  PROVE  AskOf(t) = [phase |-> PhaseOf(t.pc), order |-> t.order, ref |-> t.ref, sale |-> t.sale]
  BY OrdersAreNotNull DEF AskOf, SaleCall

LEMMA AsksOfNobody ==
  ASSUME NEW t \in ProductCall \cup {Idle}
  PROVE  AskOf(t) = Calls!Idle
  BY DEF AskOf, ProductCall, Idle, Calls!Idle

\* A caller that goes on asks what its new call asks.
LEMMA AsksMove ==
  ASSUME AdapterOK, NEW c \in Caller, NEW t, call' = [call EXCEPT ![c] = t]
  PROVE  Asks' = [Asks EXCEPT ![c] = AskOf(t)]
  BY DEF AdapterOK, Asks, AskOf

\* A caller that goes on and asks the same changes nothing that matters.
LEMMA AsksStay ==
  ASSUME AdapterOK, NEW c \in Caller, NEW t, call' = [call EXCEPT ![c] = t],
         AskOf(t) = AskOf(call[c])
  PROVE  Asks' = Asks
  BY AsksMove DEF Asks

LEMMA MadeOf ==
  ASSUME AdapterOK, NEW o \in Order
  PROVE  /\ Made[o] = [n \in 1..Len(sales[o]) |-> sales[o][n].ref]
         /\ Made[o] \in Seq(Ref) /\ Len(Made[o]) = Len(sales[o])
         /\ DOMAIN Made[o] = DOMAIN sales[o]
         /\ Made[o] = <<>> <=> sales[o] = <<>>
  <1> DEFINE s == sales[o]
             m == [n \in 1..Len(s) |-> s[n].ref]
  <1>1. /\ s \in Seq([ref : Ref, partner : Nat])
        /\ DOMAIN s = 1..Len(s) /\ Len(s) \in Nat
        /\ \A n \in 1..Len(s) : s[n] \in [ref : Ref, partner : Nat]
    BY SalesOfOrder
  <1>2. Made[o] = m
    BY <1>1 DEF Made
  <1>3. \A n \in 1..Len(s) : s[n].ref \in Ref
    BY <1>1
  <1>4. m \in Seq(Ref) /\ Len(m) = Len(s) /\ DOMAIN m = 1..Len(s)
    <2> HIDE DEF s
    <2> QED
      BY <1>1, <1>3, LenProperties
  <1>5. m = <<>> <=> Len(s) = 0
    <2> HIDE DEF s, m
    <2> QED
      BY <1>4, EmptySeq
  <1>6. s = <<>> <=> Len(s) = 0
    BY <1>1, EmptySeq
  <1>7. QED
    BY <1>1, <1>2, <1>4, <1>5, <1>6

LEMMA MadeGrows ==
  ASSUME AdapterOK, NEW o \in Order, NEW r \in Ref, NEW n \in Nat, ServeSale(o, r, n)
  PROVE  Made' = [Made EXCEPT ![o] = Append(@, r)]
  <1> DEFINE s == sales[o]
             sale == [ref |-> r, partner |-> n]
             longer == [k \in DOMAIN Append(s, sale) |-> Append(s, sale)[k].ref]
  <1>1. /\ s \in Seq([ref : Ref, partner : Nat]) /\ Len(s) \in Nat
        /\ sale \in [ref : Ref, partner : Nat]
    BY SalesOfOrder
  <1>2. /\ DOMAIN Append(s, sale) = 1..Len(s) + 1
        /\ \A k \in 1..Len(s) : Append(s, sale)[k] = s[k]
        /\ Append(s, sale)[Len(s) + 1] = sale
    <2> HIDE DEF s, sale
    <2> QED
      BY <1>1, AppendProperties, LenProperties
  <1>3. sale.ref = r
    OBVIOUS
  <1>4. /\ Made[o] \in Seq(Ref) /\ Len(Made[o]) = Len(s)
        /\ \A k \in 1..Len(s) : Made[o][k] = s[k].ref
    BY MadeOf
  <1>5. /\ DOMAIN Append(Made[o], r) = 1..Len(s) + 1
        /\ \A k \in 1..Len(s) : Append(Made[o], r)[k] = s[k].ref
        /\ Append(Made[o], r)[Len(s) + 1] = r
        /\ Append(Made[o], r) \in Seq(Ref)
    <2> HIDE DEF s, Made
    <2> QED
      BY <1>1, <1>4, AppendProperties, LenProperties
  <1>6. longer = Append(Made[o], r)
    <2>1. \A k \in 1..Len(s) + 1 : longer[k] = Append(Made[o], r)[k]
      <3> HIDE DEF s, sale
      <3>1. ASSUME NEW k \in 1..Len(s) + 1 PROVE longer[k] = Append(Made[o], r)[k]
        <4>1. CASE k = Len(s) + 1
          BY <1>2, <1>3, <1>5, <4>1
        <4>2. CASE k # Len(s) + 1
          <5>1. k \in 1..Len(s)
            BY <1>1, <4>2
          <5>2. QED
            BY <1>2, <1>5, <5>1
        <4>3. QED
          BY <4>1, <4>2
      <3>2. QED
        BY <3>1
    <2>2. Append(Made[o], r) = [k \in 1..Len(s) + 1 |-> Append(Made[o], r)[k]]
      <3> HIDE DEF s
      <3>1. Append(Made[o], r) = [k \in DOMAIN Append(Made[o], r) |-> Append(Made[o], r)[k]]
        BY <1>5
      <3>2. QED
        BY <1>5, <3>1
    <2>3. QED
      BY <1>2, <2>1, <2>2
  <1>7. \A p \in Order : sales'[p] = IF p = o THEN Append(s, sale) ELSE sales[p]
    BY DEF ServeSale, AdapterOK
  <1>8. \A p \in Order : Made'[p] = IF p = o THEN Append(Made[o], r) ELSE Made[p]
    BY <1>6, <1>7 DEF Made
  <1>9. QED
    BY <1>8 DEF Made

\* A caller that goes on with a call about a sale order.
LEMMA MoveOfSale ==
  ASSUME AdapterOK, NEW c \in Caller, call[c] \in SaleCall,
         NEW pc \in {"auth", "find", "partner", "new_partner", "product", "new_sale"} \cup Done,
         Goto(c, pc)
  PROVE  /\ Asks' = [Asks EXCEPT ![c].phase = PhaseOf(pc)]
         /\ Asks[c].phase = PhaseOf(call[c].pc)
         /\ PhaseOf(pc) = PhaseOf(call[c].pc) => Asks' = Asks
  <1> DEFINE t == [call[c] EXCEPT !.pc = pc]
  <1>1. t \in SaleCall
    BY DEF SaleCall
  <1>2. /\ AskOf(t) = [phase |-> PhaseOf(pc), order |-> call[c].order, ref |-> call[c].ref,
                       sale |-> call[c].sale]
        /\ AskOf(call[c]) = [phase |-> PhaseOf(call[c].pc), order |-> call[c].order,
                             ref |-> call[c].ref, sale |-> call[c].sale]
    <2>1. /\ t.pc = pc /\ t.order = call[c].order /\ t.ref = call[c].ref
          /\ t.sale = call[c].sale
      BY DEF SaleCall
    <2>2. QED
      BY <1>1, <2>1, AsksOfSale
  <1>3. AskOf(t) = [AskOf(call[c]) EXCEPT !.phase = PhaseOf(pc)]
    BY <1>2
  <1>4. Asks' = [Asks EXCEPT ![c] = AskOf(t)] /\ Asks[c] = AskOf(call[c])
    BY AsksMove DEF Goto, Asks
  <1>5. Asks' = [Asks EXCEPT ![c].phase = PhaseOf(pc)]
    <2> HIDE DEF t
    <2> QED
      BY <1>3, <1>4
  <1>6. Asks[c].phase = PhaseOf(call[c].pc)
    BY <1>2, <1>4
  <1>7. ASSUME PhaseOf(pc) = PhaseOf(call[c].pc) PROVE Asks' = Asks
    <2>1. AskOf(t) = AskOf(call[c])
      BY <1>2, <1>7
    <2>2. QED
      BY <2>1, AsksStay DEF Goto
  <1>8. QED
    BY <1>5, <1>6, <1>7

\* A caller that has its answer.
LEMMA AnswerOfSale ==
  ASSUME AdapterOK, NEW c \in Caller, call[c] \in SaleCall, NEW n,
         call' = [call EXCEPT ![c].pc = "answered", ![c].sale = n]
  PROVE  Asks' = [Asks EXCEPT ![c].phase = "answered", ![c].sale = n]
  <1> DEFINE t == [call[c] EXCEPT !.pc = "answered", !.sale = n]
  <1>1. call' = [call EXCEPT ![c] = t]
    BY DEF AdapterOK
  <1>2. /\ t.pc = "answered" /\ t.order = call[c].order /\ t.ref = call[c].ref /\ t.sale = n
        /\ call[c].order # Null
    BY OrdersAreNotNull DEF SaleCall
  <1>3. AskOf(t) = [phase |-> "answered", order |-> call[c].order, ref |-> call[c].ref, sale |-> n]
    BY <1>2, Phases DEF AskOf
  <1>4. AskOf(call[c]) = [phase |-> PhaseOf(call[c].pc), order |-> call[c].order,
                          ref |-> call[c].ref, sale |-> call[c].sale]
    BY AsksOfSale
  <1>5. AskOf(t) = [AskOf(call[c]) EXCEPT !.phase = "answered", !.sale = n]
    <2> DEFINE ask == AskOf(call[c])
               answered == AskOf(t)
               unnumbered == [ask EXCEPT !.phase = "answered"]
    <2> HIDE DEF ask, answered, t
    <2>1. unnumbered = [phase |-> "answered", order |-> call[c].order, ref |-> call[c].ref,
                        sale |-> call[c].sale]
      BY <1>4 DEF ask
    <2>2. [ask EXCEPT !.phase = "answered", !.sale = n] = [unnumbered EXCEPT !.sale = n]
      OBVIOUS
    <2>3. [unnumbered EXCEPT !.sale = n] = answered
      <3> HIDE DEF unnumbered
      <3> QED
        BY <1>3, <2>1 DEF answered
    <2>4. QED
      BY <2>2, <2>3 DEF ask, answered
  <1>6. Asks' = [Asks EXCEPT ![c] = AskOf(t)] /\ Asks[c] = AskOf(call[c])
    BY <1>1, AsksMove DEF Asks
  <1>7. QED
    BY <1>5, <1>6 DEF Asks

\* A call about the product goes on without anything to see.
LEMMA ProductIsUnseen ==
  ASSUME AdapterOK, NEW c \in Caller, call[c] \in ProductCall,
         NEW t \in ProductCall \cup {Idle}, call' = [call EXCEPT ![c] = t]
  PROVE  Asks' = Asks
  BY AsksOfNobody, AsksStay

LEMMA SalesUnchanged ==
  ASSUME UNCHANGED <<sales, late>>
  PROVE  UNCHANGED <<Made, Pending>>
  BY DEF Made, Pending

LEMMA AskedOfSale ==
  ASSUME NEW c \in Caller, call[c] \in SaleCall
  PROVE  /\ Asks[c].phase = PhaseOf(call[c].pc) /\ Asks[c].order = call[c].order
         /\ Asks[c].ref = call[c].ref
         /\ call[c].order \in Order /\ call[c].ref \in Ref /\ call[c].partner \in Nat
  BY AsksOfSale DEF Asks, SaleCall

\* What has become of a creation is seen when it was one of a sale order.
LEMMA LostOfSale ==
  ASSUME AdapterOK, NEW c \in Caller, call[c] \in SaleCall, Lost(c)
  PROVE  Calls!Lost(c)
  <1> DEFINE t == call[c]
             l == CreationOf(c)
  <1>1. /\ Asks[c].order = t.order /\ Asks[c].ref = t.ref
        /\ t.pc = "new_sale" => Asks[c].phase = "create"
        /\ t.order \in Order /\ t.ref \in Ref /\ t.partner \in Nat
    BY AskedOfSale, Phases
  <1>2. l.pc = t.pc /\ l.order = t.order /\ l.ref = t.ref /\ l.partner = t.partner
    BY DEF CreationOf
  <1>3. t.pc # "new_product"
    BY DEF SaleCall, Done
  <1>4. CASE Unheard
    BY <1>4, SalesUnchanged DEF Unheard, odoo, Calls!Lost
  <1>5. CASE Unanswered(c)
    <2>1. CASE t.pc = "new_partner"
      BY <1>2, <1>5, <2>1, SalesUnchanged DEF Unanswered, Serve, ServePartner, Calls!Lost
    <2>2. CASE t.pc = "new_sale"
      <3>1. ServeSale(t.order, t.ref, t.partner) /\ UNCHANGED late
        BY <1>2, <1>5, <2>2 DEF Unanswered, Serve
      <3>2. Made' = [Made EXCEPT ![t.order] = Append(@, t.ref)]
        BY <1>1, <3>1, MadeGrows
      <3>3. Pending' = Pending
        BY <3>1 DEF Pending
      <3>4. QED
        BY <1>1, <2>2, <3>2, <3>3 DEF Calls!Lost, Calls!Make
    <2>3. QED
      BY <1>3, <1>5, <2>1, <2>2 DEF Unanswered, Creating
  <1>6. CASE Delayed(c)
    <2>1. late' = late \cup {l} /\ Made' = Made
      BY <1>6 DEF Delayed, odoo, Made
    <2>2. CASE t.pc = "new_partner"
      <3>1. Pending' = Pending
        <4> HIDE DEF l
        <4> QED
          BY <1>2, <2>1, <2>2 DEF Pending
      <3>2. QED
        BY <2>1, <3>1 DEF Calls!Lost
    <2>3. CASE t.pc = "new_sale"
      <3>1. Pending' = Pending \cup {[order |-> t.order, ref |-> t.ref]}
        <4> HIDE DEF l
        <4> QED
          BY <1>2, <2>1, <2>3 DEF Pending
      <3>2. QED
        BY <1>1, <2>1, <2>3, <3>1 DEF Calls!Lost
    <2>4. QED
      BY <1>3, <1>6, <2>2, <2>3 DEF Delayed, Creating
  <1>7. QED
    BY <1>4, <1>5, <1>6 DEF Lost

LEMMA LostOfProduct ==
  ASSUME AdapterOK, NEW c \in Caller, call[c] \in ProductCall, Lost(c)
  PROVE  UNCHANGED <<Made, Pending>>
  <1> DEFINE l == CreationOf(c)
  <1>1. l.pc = call[c].pc /\ call[c].pc \notin {"new_partner", "new_sale"}
    BY DEF CreationOf, ProductCall, Done
  <1>2. CASE Unheard
    BY <1>2, SalesUnchanged DEF Unheard, odoo
  <1>3. CASE Unanswered(c)
    BY <1>1, <1>3, SalesUnchanged DEF Unanswered, Serve, ServeProduct
  <1>4. CASE Delayed(c)
    <2>1. late' = late \cup {l} /\ Made' = Made /\ l.pc # "new_sale"
      BY <1>1, <1>4 DEF Delayed, odoo, Made
    <2>2. Pending' = Pending
      <3> HIDE DEF l
      <3> QED
        BY <2>1 DEF Pending
    <2>3. QED
      BY <2>1, <2>2
  <1>5. QED
    BY <1>2, <1>3, <1>4 DEF Lost

-----------------------------------------------------------------------------
(* every step of the adapter is a step of SaleOrderCalls, or is not seen there *)

LEMMA StartSaleMaps ==
  ASSUME AdapterOK, NEW c \in Caller, NEW o \in Order, NEW r \in Ref, StartSale(c, o, r)
  PROVE  Calls!Start(c)
  <1> DEFINE t == [Idle EXCEPT !.pc = IF uid[c] THEN "find" ELSE "auth",
                               !.order = o, !.ref = r]
  <1>1. call' = [call EXCEPT ![c] = t] /\ UNCHANGED <<sales, late>> /\ call[c] = Idle
    BY DEF StartSale, Start, odoo
  <1>2. /\ t.pc \in {"find", "auth"} /\ t.order = o /\ t.ref = r /\ t.sale = 0
        /\ o # Null
    BY OrdersAreNotNull DEF Idle
  <1>3. AskOf(t) = [phase |-> "find", order |-> o, ref |-> r, sale |-> 0]
    BY <1>2, Phases DEF AskOf
  <1>4. Asks' = [Asks EXCEPT ![c] = AskOf(t)]
    BY <1>1, AsksMove
  <1>5. Asks[c] = Calls!Idle
    BY <1>1, AsksOfNobody DEF Asks
  <1>6. QED
    BY <1>1, <1>3, <1>4, <1>5, SalesUnchanged DEF Calls!Start

LEMMA StartProductMaps ==
  ASSUME AdapterOK, NEW c \in Caller, StartProduct(c)
  PROVE  UNCHANGED Mapped
  <1> DEFINE t == [Idle EXCEPT !.pc = IF uid[c] THEN "upsert" ELSE "auth",
                               !.order = Null, !.ref = Null]
  <1>1. call' = [call EXCEPT ![c] = t] /\ UNCHANGED <<sales, late>> /\ call[c] = Idle
    BY DEF StartProduct, Start, odoo
  <1>2. AskOf(t) = AskOf(call[c])
    BY <1>1 DEF AskOf, Idle
  <1>3. QED
    BY <1>1, <1>2, AsksStay, SalesUnchanged DEF Mapped

LEMMA AuthenticateMaps ==
  ASSUME AdapterOK, NEW c \in Caller, Authenticate(c)
  PROVE  Calls!Reject(c) \/ UNCHANGED Mapped
  <1>1. UNCHANGED <<sales, late>> /\ call[c].pc = "auth"
    BY DEF Authenticate, At, odoo
  <1>2. PICK pc \in {"upsert", "find", "rejected"} :
          /\ Goto(c, pc)
          /\ pc = "upsert" => call[c].order = Null
          /\ pc = "find" => call[c].order # Null
    BY DEF Authenticate
  <1>3. CASE call[c] \in SaleCall
    <2>1. pc \in {"find", "rejected"}
      BY <1>2, <1>3, AskedOfSale, OrdersAreNotNull
    <2>2. CASE pc = "find"
      BY <1>1, <1>2, <1>3, <2>2, MoveOfSale, Phases, SalesUnchanged DEF Mapped
    <2>3. CASE pc = "rejected"
      <3>1. Asks' = [Asks EXCEPT ![c].phase = "rejected"] /\ Asks[c].phase = "find"
        BY <1>1, <1>2, <1>3, <2>3, MoveOfSale, Phases DEF Done
      <3>2. QED
        BY <1>1, <3>1, SalesUnchanged DEF Calls!Reject, Calls!Move
    <2>4. QED
      BY <2>1, <2>2, <2>3
  <1>4. CASE call[c] \in ProductCall
    <2>1. [call[c] EXCEPT !.pc = pc] \in ProductCall
      BY <1>2, <1>4 DEF ProductCall, Done
    <2>2. QED
      BY <1>1, <1>2, <1>4, <2>1, ProductIsUnseen, SalesUnchanged DEF Goto, Mapped
  <1>5. QED
    BY <1>1, <1>3, <1>4, KindOfPoint

LEMMA FindSaleOrderMaps ==
  ASSUME AdapterOK, NEW c \in Caller, FindSaleOrder(c)
  PROVE  Calls!Find(c)
  <1> DEFINE o == call[c].order
  <1>1. UNCHANGED <<sales, late>> /\ call[c].pc = "find" /\ call[c] \in SaleCall
    BY KindOfPoint DEF FindSaleOrder, At, odoo
  <1>2. Asks[c].phase = "find" /\ Asks[c].order = o /\ o \in Order
    BY <1>1, AskedOfSale, Phases
  <1>3. (Made[o] = <<>> <=> sales[o] = <<>>) /\ DOMAIN Made[o] = DOMAIN sales[o]
    BY <1>2, MadeOf
  <1>4. CASE sales[o] = <<>>
    <2>1. Goto(c, "partner")
      BY <1>4 DEF FindSaleOrder
    <2>2. Asks' = [Asks EXCEPT ![c].phase = "create"]
      BY <1>1, <2>1, MoveOfSale, Phases
    <2>3. QED
      BY <1>1, <1>2, <1>3, <1>4, <2>2, SalesUnchanged DEF Calls!Find, Calls!Move
  <1>5. CASE sales[o] # <<>>
    <2>1. PICK n \in DOMAIN sales[o] :
            call' = [call EXCEPT ![c].pc = "answered", ![c].sale = n]
      BY <1>5 DEF FindSaleOrder
    <2>2. Asks' = [Asks EXCEPT ![c].phase = "answered", ![c].sale = n]
      BY <1>1, <2>1, AnswerOfSale
    <2>3. QED
      BY <1>1, <1>2, <1>3, <1>5, <2>2, SalesUnchanged DEF Calls!Find, Calls!Answer
  <1>6. QED
    BY <1>4, <1>5

LEMMA PartnerMaps ==
  ASSUME AdapterOK, NEW c \in Caller, FindPartner(c) \/ CreatePartner(c)
  PROVE  UNCHANGED Mapped
  <1>1. UNCHANGED <<sales, late>> /\ PhaseOf(call[c].pc) = "create" /\ call[c] \in SaleCall
    BY KindOfPoint, Phases DEF FindPartner, CreatePartner, ServePartner, At, odoo
  <1>2. CASE Goto(c, "new_partner")
    BY <1>1, <1>2, MoveOfSale, Phases, SalesUnchanged DEF Mapped
  <1>3. ASSUME NEW n, call' = [call EXCEPT ![c].pc = "product", ![c].partner = n]
        PROVE  UNCHANGED Mapped
    <2> DEFINE t == [call[c] EXCEPT !.pc = "product", !.partner = n]
    <2>1. call' = [call EXCEPT ![c] = t]
      BY <1>3 DEF AdapterOK
    <2>2. /\ t.pc = "product" /\ t.order = call[c].order /\ t.ref = call[c].ref
          /\ t.sale = call[c].sale
      BY <1>1 DEF SaleCall
    <2>3. AskOf(t) = AskOf(call[c])
      BY <1>1, <2>2, Phases DEF AskOf
    <2>4. QED
      BY <1>1, <2>1, <2>3, AsksStay, SalesUnchanged DEF Mapped
  <1>4. QED
    BY <1>2, <1>3 DEF FindPartner, CreatePartner

LEMMA FindProductMaps ==
  ASSUME AdapterOK, NEW c \in Caller, FindProduct(c)
  PROVE  Calls!Reject(c) \/ UNCHANGED Mapped
  <1>1. UNCHANGED <<sales, late>> /\ call[c].pc = "product" /\ call[c] \in SaleCall
    BY KindOfPoint DEF FindProduct, At, odoo
  <1>2. CASE Goto(c, "new_sale")
    BY <1>1, <1>2, MoveOfSale, Phases, SalesUnchanged DEF Mapped
  <1>3. CASE Goto(c, "rejected")
    <2>1. Asks' = [Asks EXCEPT ![c].phase = "rejected"] /\ Asks[c].phase = "create"
      BY <1>1, <1>3, MoveOfSale, Phases DEF Done
    <2>2. QED
      BY <1>1, <2>1, SalesUnchanged DEF Calls!Reject, Calls!Move
  <1>4. QED
    BY <1>2, <1>3 DEF FindProduct

LEMMA CreateSaleMaps ==
  ASSUME AdapterOK, NEW c \in Caller, CreateSale(c)
  PROVE  Calls!Create(c)
  <1> DEFINE t == call[c]
             n == Len(sales[t.order]) + 1
  <1>1. call[c].pc = "new_sale" /\ call[c] \in SaleCall /\ UNCHANGED late
    BY KindOfPoint DEF CreateSale, At
  <1>2. /\ Asks[c].phase = "create" /\ Asks[c].order = t.order /\ Asks[c].ref = t.ref
        /\ t.order \in Order /\ t.ref \in Ref /\ t.partner \in Nat
    BY <1>1, AskedOfSale, Phases
  <1>3. Made' = [Made EXCEPT ![t.order] = Append(@, t.ref)]
    BY <1>2, MadeGrows DEF CreateSale
  <1>4. Asks' = [Asks EXCEPT ![c].phase = "answered", ![c].sale = n]
    BY <1>1, AnswerOfSale DEF CreateSale
  <1>5. n = Len(Made[t.order]) + 1
    BY <1>2, MadeOf
  <1>6. Pending' = Pending
    BY <1>1 DEF Pending
  <1>7. QED
    BY <1>2, <1>3, <1>4, <1>5, <1>6 DEF Calls!Create, Calls!Make, Calls!Answer

LEMMA ProductMaps ==
  ASSUME AdapterOK, NEW c \in Caller, FindUpserted(c) \/ CreateProduct(c)
  PROVE  UNCHANGED Mapped
  <1>1. UNCHANGED <<sales, late>> /\ call[c] \in ProductCall
    BY KindOfPoint DEF FindUpserted, CreateProduct, ServeProduct, At, odoo
  <1>2. PICK pc \in {"new_product", "answered"} : Goto(c, pc)
    BY DEF FindUpserted, CreateProduct
  <1>3. [call[c] EXCEPT !.pc = pc] \in ProductCall
    BY <1>1, <1>2 DEF ProductCall, Done
  <1>4. QED
    BY <1>1, <1>2, <1>3, ProductIsUnseen, SalesUnchanged DEF Goto, Mapped

\* A caller that forgets its call: it has returned or died.
LEMMA ForgetMaps ==
  ASSUME AdapterOK, NEW c \in Caller, call' = [call EXCEPT ![c] = Idle]
  PROVE  Asks' = [Asks EXCEPT ![c] = Calls!Idle]
  <1>1. AskOf(Idle) = Calls!Idle
    BY AsksOfNobody
  <1>2. Asks' = [Asks EXCEPT ![c] = AskOf(Idle)]
    BY AsksMove
  <1>3. QED
    BY <1>1, <1>2

LEMMA ReturnMaps ==
  ASSUME AdapterOK, NEW c \in Caller, Return(c)
  PROVE  Calls!Return(c) \/ UNCHANGED Mapped
  <1>1. call' = [call EXCEPT ![c] = Idle] /\ UNCHANGED <<sales, late>>
    BY DEF Return, odoo
  <1>2. CASE call[c] \in SaleCall
    <2>1. Asks[c].phase \in {"answered", "failed", "rejected"}
      BY <1>2, AskedOfSale, Phases DEF Return, Done
    <2>2. QED
      BY <1>1, <2>1, ForgetMaps, SalesUnchanged DEF Calls!Return
  <1>3. CASE call[c] \in ProductCall
    BY <1>1, <1>3, ProductIsUnseen, SalesUnchanged DEF Mapped
  <1>4. QED
    BY <1>2, <1>3, KindOfPoint DEF Return, Done

\* A failure that is not to be retried has left nothing behind.
LEMMA FailMaps ==
  ASSUME AdapterOK, NEW c \in Caller, NEW outcome \in Outcome, Fail(c, outcome)
  PROVE  Calls!Fail(c) \/ Calls!Reject(c) \/ UNCHANGED Mapped
  <1>1. call[c] \in SaleCall \cup ProductCall /\ call[c].pc \in Waiting /\ Lost(c)
    BY KindOfPoint DEF Fail, Waiting, Creating, Lost
  <1>2. CASE call[c] \in SaleCall
    <2>1. Asks[c].phase \in {"find", "create"}
      BY <1>1, <1>2, AskedOfSale, Phases DEF Waiting, Creating, SaleCall, Done
    <2>2. CASE Goto(c, "failed")
      <3>1. Asks' = [Asks EXCEPT ![c].phase = "failed"]
        BY <1>2, <2>2, MoveOfSale, Phases DEF Done
      <3>2. QED
        BY <1>1, <1>2, <2>1, <3>1, LostOfSale DEF Calls!Fail, Calls!Move
    <2>3. CASE Goto(c, "rejected") /\ ~IsRetryable(CodeOf(outcome))
      <3>1. outcome \notin Ambiguous
        BY <2>3 DEF IsRetryable, RetryableCodes, CodeOf, Ambiguous
      <3>2. UNCHANGED <<sales, late>>
        BY <3>1 DEF Fail, Unheard, odoo
      <3>3. Asks' = [Asks EXCEPT ![c].phase = "rejected"]
        BY <1>2, <2>3, MoveOfSale, Phases DEF Done
      <3>4. QED
        BY <2>1, <3>2, <3>3, SalesUnchanged DEF Calls!Reject, Calls!Move
    <2>4. QED
      BY <2>2, <2>3 DEF Fail
  <1>3. CASE call[c] \in ProductCall
    <2>1. PICK pc \in {"failed", "rejected"} : Goto(c, pc)
      BY DEF Fail
    <2>2. [call[c] EXCEPT !.pc = pc] \in ProductCall
      BY <1>3, <2>1 DEF ProductCall, Done
    <2>3. Asks' = Asks
      BY <1>3, <2>1, <2>2, ProductIsUnseen DEF Goto
    <2>4. QED
      BY <1>1, <1>3, <2>3, LostOfProduct DEF Mapped
  <1>4. QED
    BY <1>1, <1>2, <1>3

LEMMA DieMaps ==
  ASSUME AdapterOK, NEW c \in Caller, Die(c)
  PROVE  Calls!Die(c) \/ UNCHANGED Mapped
  <1>1. call' = [call EXCEPT ![c] = Idle] /\ Lost(c) /\ call[c] \in SaleCall \cup ProductCall
    BY CallKinds DEF Die
  <1>2. CASE call[c] \in SaleCall
    BY <1>1, <1>2, ForgetMaps, LostOfSale DEF Calls!Die
  <1>3. CASE call[c] \in ProductCall
    BY <1>1, <1>3, ProductIsUnseen, LostOfProduct DEF Mapped
  <1>4. QED
    BY <1>1, <1>2, <1>3

LEMMA ServeLateMaps ==
  ASSUME AdapterOK, NEW l \in late, ServeLate(l)
  PROVE  Calls!Next \/ UNCHANGED Mapped
  <1>1. l \in Creation /\ Serve(l) /\ late' = late \ {l} /\ call' = call
    BY DEF ServeLate, AdapterOK
  <1>2. Asks' = Asks
    BY <1>1 DEF Asks
  <1>3. CASE l.pc # "new_sale"
    <2>1. sales' = sales
      BY <1>1, <1>3 DEF Serve, ServePartner, ServeProduct
    <2>2. Pending' = Pending
      BY <1>1, <1>3 DEF Pending
    <2>3. QED
      BY <1>2, <2>1, <2>2 DEF Mapped, Made
  <1>4. CASE l.pc = "new_sale"
    <2> DEFINE ask == [order |-> l.order, ref |-> l.ref]
    <2>1. l.order \in Order /\ l.ref \in Ref /\ l.partner \in Nat
      BY <1>1, <1>4 DEF Creation
    <2>2. Made' = [Made EXCEPT ![ask.order] = Append(@, ask.ref)]
      BY <1>1, <1>4, <2>1, MadeGrows DEF Serve
    <2>3. ask \in Pending
      BY <1>4 DEF Pending
    <2>4. Pending' \in {Pending, Pending \ {ask}}
      <3>1. Pending' \subseteq Pending
        BY <1>1 DEF Pending
      <3>2. ASSUME NEW x \in Pending, x # ask PROVE x \in Pending'
        <4>1. PICK m \in late : m.pc = "new_sale" /\ x = [order |-> m.order, ref |-> m.ref]
          BY <3>2 DEF Pending
        <4>2. m # l
          BY <3>2, <4>1
        <4>3. QED
          BY <1>1, <4>1, <4>2 DEF Pending
      <3>3. QED
        <4> HIDE DEF ask
        <4> QED
          BY <3>1, <3>2
    <2>5. Calls!ServeLate(ask)
      <3> HIDE DEF ask
      <3> QED
        BY <1>2, <2>2, <2>4 DEF Calls!ServeLate, Calls!Make
    <2>6. QED
      BY <2>3, <2>5 DEF Calls!Next
  <1>5. QED
    BY <1>3, <1>4

LEMMA AdapterMaps ==
  ASSUME AdapterOK, NEW c \in Caller, Adapter(c)
  PROVE  Calls!Next \/ UNCHANGED Mapped
  <1>1. CASE Step(c)
    BY <1>1, AuthenticateMaps, FindSaleOrderMaps, PartnerMaps, FindProductMaps, CreateSaleMaps,
       ProductMaps, ReturnMaps DEF Step, Calls!Next
  <1>2. CASE StartProduct(c)
    BY <1>2, StartProductMaps
  <1>3. CASE \E o \in Order : StartSale(c, o, RefOf[o])
    BY <1>3, StartSaleMaps, SiteAssumption DEF Calls!Next
  <1>4. CASE \E outcome \in Outcome : Fail(c, outcome)
    BY <1>4, FailMaps DEF Calls!Next
  <1>5. CASE Die(c)
    BY <1>5, DieMaps DEF Calls!Next
  <1>6. QED
    BY <1>1, <1>2, <1>3, <1>4, <1>5 DEF Adapter

LEMMA NextMaps ==
  ASSUME AdapterOK, Next
  PROVE  Calls!Next \/ UNCHANGED Mapped
  <1>1. CASE UNCHANGED <<sales, late, call>>
    BY <1>1, SalesUnchanged DEF Mapped, Asks
  <1>2. QED
    BY <1>1, AdapterMaps, ServeLateMaps DEF Next

LEMMA InitMaps ==
  ASSUME Init
  PROVE  Calls!Init
  <1>1. AskOf(Idle) = Calls!Idle
    BY AsksOfNobody
  <1>2. Asks = [c \in Caller |-> Calls!Idle]
    BY <1>1 DEF Init, AdapterInit, Asks
  <1>3. Made = [o \in Order |-> <<>>]
    <2>1. ASSUME NEW o \in Order PROVE [n \in DOMAIN sales[o] |-> sales[o][n].ref] = <<>>
      BY DEF Init, AdapterInit
    <2>2. QED
      BY <2>1 DEF Made
  <1>4. Pending = {}
    BY DEF Init, AdapterInit, Pending
  <1>5. QED
    BY <1>2, <1>3, <1>4 DEF Calls!Init

\* For any number of adapters, orders and partners, HttpOdooAdapter.create_sale_order
\* keeps the promise of SaleOrderCalls: it finds the sale order of its order or
\* creates one, what is retried has perhaps been done, and what is refused has not
\* (is_retryable in errors.py decides which is which).
THEOREM ImplementsCalls == Spec => ImplementsSaleCalls
  <1>1. Init => Calls!Init
    BY InitMaps
  <1>2. TypeOK /\ [Next]_vars => [Calls!Next]_<<Made, Asks, Pending>>
    <2> SUFFICES ASSUME TypeOK, [Next]_vars
                 PROVE  Calls!Next \/ UNCHANGED Mapped
      BY DEF Mapped
    <2>1. CASE Next
      BY <2>1, NextMaps DEF TypeOK
    <2>2. CASE UNCHANGED vars
      <3>1. UNCHANGED <<sales, late, call>>
        BY <2>2 DEF vars, adapterVars, odoo
      <3>2. QED
        BY <3>1, SalesUnchanged DEF Mapped, Asks
    <2>3. QED
      BY <2>1, <2>2
  <1>3. QED
    BY <1>1, <1>2, TypeCorrect, PTL DEF Spec, ImplementsSaleCalls, Calls!Spec
=============================================================================
