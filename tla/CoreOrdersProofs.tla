------------------------- MODULE CoreOrdersProofs -------------------------
(***************************************************************************)
(* What holds of the orders of Core for every set of orders, ids and       *)
(* overlapping requests, and what holds besides of the orders on which     *)
(* every session has committed what it made of the row it found.           *)
(***************************************************************************)
EXTENDS CoreOrders, TLAPS

-----------------------------------------------------------------------------
(* The inductive invariant *)

\* The restore points an order may have.
Source == ORDER_RESUMABLE_STATES \cup {NoSource}

Legal(from, to) ==
  IF from = "sync_failed" THEN to \in ORDER_RESUMABLE_STATES
                          ELSE to \in ORDER_TRANSITIONS[from]

\* A request may be stale, but what it has loaded was an order once, and the
\* transition it is about to commit is one of the state machine from there.
RequestsSound ==
  \A s \in Session : request[s].open =>
    LET r == request[s] IN
    /\ orders[r.order].status # "absent"
    /\ r.loaded.status # "absent" /\ r.new.status # "absent"
    /\ r.new.sync_failed_from \in Source
    /\ r.new.status # r.loaded.status => Legal(r.loaded.status, r.new.status)

SourcesResumable == \A o \in Order : orders[o].sync_failed_from \in Source

IInv == TypeOK /\ TrailEndsAtStatus /\ LegalEvents /\ RequestsSound /\ SourcesResumable

-----------------------------------------------------------------------------
(* The state machine *)

LEMMA NoSourceIsSource == NoSource \in Source
  BY DEF Source

LEMMA StatusesAreStatuses ==
  ORDER_RESUMABLE_STATES \subseteq OrderStatus /\ "absent" \notin OrderStatus
  BY DEF ORDER_RESUMABLE_STATES, OrderStatus

LEMMA RowParts ==
  ASSUME NEW row \in Row
  PROVE  /\ row.status \in OrderStatus \cup {"absent"}
         /\ row.sync_failed_from \in OrderStatus \cup {NoSource}
  BY DEF Row

\* transition_to, when it does not raise, ends in the target by a transition that
\* the tables have, and leaves an order that can be resumed.
LEMMA LegalMove ==
  ASSUME NEW row \in Row, row.status # "absent", row.sync_failed_from \in Source,
         NEW target \in OrderStatus, CanTransition(row, target)
  PROVE  /\ TransitionTo(row, target) \in Row
         /\ TransitionTo(row, target).status = target
         /\ TransitionTo(row, target).sync_failed_from \in Source
         /\ target # row.status => Legal(row.status, target)
  <1>1. row.status \in OrderStatus
    BY DEF Row
  <1>2. target # row.status => Legal(row.status, target)
    BY <1>1 DEF CanTransition, AllowedTransitions, Legal, Source
  <1>3. target = "sync_failed" /\ target # row.status => row.status \in ORDER_RESUMABLE_STATES
    BY <1>1, <1>2 DEF Legal, ORDER_TRANSITIONS, ORDER_RESUMABLE_STATES, OrderStatus
  <1>4. RestorePoint(row, target) \in Source
    BY <1>3, NoSourceIsSource DEF RestorePoint, Source
  <1>5. RestorePoint(row, target) \in OrderStatus \cup {NoSource}
    BY <1>4, StatusesAreStatuses DEF Source
  <1>6. TransitionTo(row, target) \in Row
    BY <1>5 DEF TransitionTo, Row
  <1>7. /\ TransitionTo(row, target).status = target
        /\ TransitionTo(row, target).sync_failed_from = RestorePoint(row, target)
    BY DEF TransitionTo, Row
  <1>8. QED
    BY <1>2, <1>4, <1>6, <1>7

-----------------------------------------------------------------------------
(* Each action keeps the invariant *)

LEMMA PlaceOrderStep ==
  ASSUME IInv, NEW o \in Order, NEW woo \in WooId \cup {Null}, PlaceOrder(o, woo)
  PROVE  IInv'
  <1> DEFINE draft == [NoRow EXCEPT !.status = "draft", !.woo_order_id = woo]
             event == [from |-> "draft", to |-> "submitted"]
  <1>1. /\ draft \in Row /\ draft.status = "draft"
        /\ draft.sync_failed_from = NoSource
    BY DEF NoRow, Row, OrderStatus
  <1>2. CanTransition(draft, "submitted")
    BY <1>1 DEF CanTransition, AllowedTransitions, ORDER_TRANSITIONS
  <1>3. "submitted" \in OrderStatus /\ "draft" \in OrderStatus
    BY DEF OrderStatus
  <1> DEFINE row == TransitionTo(draft, "submitted")
  <1>4. /\ row \in Row /\ row.status = "submitted"
        /\ row.sync_failed_from \in Source
        /\ Legal("draft", "submitted")
    BY <1>1, <1>2, <1>3, NoSourceIsSource, LegalMove
  <1>5. /\ orders' = [orders EXCEPT ![o] = row]
        /\ trail' = [trail EXCEPT ![o] = <<event>>]
        /\ outbox' = [outbox EXCEPT ![o] = <<"order_created">>]
        /\ request' = request /\ stale' = stale /\ orders[o].status = "absent"
    BY DEF PlaceOrder
  <1> HIDE DEF row
  <1>6. <<event>> \in Seq(StatusEvent) /\ <<"order_created">> \in Seq(DomainEvent)
    BY <1>3 DEF StatusEvent, DomainEvent
  <1>7. TypeOK'
    BY <1>4, <1>5, <1>6 DEF IInv, TypeOK
  <1>8. TrailEndsAtStatus'
    <2>1. Last(<<event>>) = event /\ <<event>> # <<>>
      BY DEF Last
    <2>2. ASSUME NEW q \in Order
          PROVE  IF orders'[q].status = "absent"
                   THEN trail'[q] = <<>>
                   ELSE trail'[q] # <<>> /\ Last(trail'[q]).to = orders'[q].status
      <3>1. CASE q = o
        BY <1>4, <1>5, <2>1, <3>1 DEF IInv, TypeOK
      <3>2. CASE q # o
        BY <1>5, <3>2 DEF IInv, TypeOK, TrailEndsAtStatus
      <3>3. QED
        BY <3>1, <3>2
    <2>3. QED
      BY <2>2 DEF TrailEndsAtStatus
  <1>9. LegalEvents'
    <2>1. ASSUME NEW q \in Order, NEW i \in DOMAIN trail'[q]
          PROVE  Legal(trail'[q][i].from, trail'[q][i].to)
      <3>1. CASE q = o
        <4>1. trail'[q] = <<event>>
          BY <1>5, <3>1 DEF IInv, TypeOK
        <4>2. trail'[q][i] = event
          BY <4>1
        <4>3. QED
          BY <1>4, <4>2
      <3>2. CASE q # o
        BY <1>5, <3>2 DEF IInv, TypeOK, LegalEvents, Legal
      <3>3. QED
        BY <3>1, <3>2
    <2>2. QED
      BY <2>1 DEF LegalEvents, Legal
  <1>10. RequestsSound'
    <2>1. ASSUME NEW s \in Session, request[s].open
          PROVE  orders'[request[s].order].status # "absent"
      <3>1. request[s] \in Request
        BY <2>1 DEF IInv, TypeOK, NoRequest
      <3>2. request[s].order \in Order /\ orders[request[s].order].status # "absent"
        BY <2>1, <3>1 DEF IInv, RequestsSound, Request
      <3>3. QED
        BY <1>5, <3>2 DEF IInv, TypeOK
    <2>2. QED
      BY <1>5, <2>1 DEF IInv, RequestsSound, Legal
  <1>11. SourcesResumable'
    BY <1>4, <1>5 DEF IInv, TypeOK, SourcesResumable
  <1>12. QED
    BY <1>7, <1>8, <1>9, <1>10, <1>11 DEF IInv

\* A request that loads an order and prepares a sound change of it.
LEMMA PrepareStep ==
  ASSUME IInv, NEW s \in Session, NEW o \in Order, NEW new \in Row,
         NEW publish \in BOOLEAN, Load(s, o), Prepare(s, o, new, publish),
         new.status # "absent", new.sync_failed_from \in Source,
         new.status # orders[o].status => Legal(orders[o].status, new.status)
  PROVE  IInv'
  <1> DEFINE r == [open |-> TRUE, order |-> o, loaded |-> orders[o],
                   new |-> new, publish |-> publish]
  <1>1. r \in Request
    BY DEF Request, IInv, TypeOK
  <1>2. /\ request' = [request EXCEPT ![s] = r]
        /\ orders' = orders /\ trail' = trail /\ outbox' = outbox /\ stale' = stale
        /\ orders[o].status # "absent"
    BY DEF Prepare, Load
  <1>3. TypeOK'
    BY <1>1, <1>2 DEF IInv, TypeOK
  <1>4. RequestsSound'
    BY <1>2 DEF IInv, TypeOK, RequestsSound, Legal
  <1>5. QED
    BY <1>2, <1>3, <1>4 DEF IInv, TrailEndsAtStatus, LegalEvents, SourcesResumable

LEMMA ReportFulfillmentStep ==
  ASSUME IInv, NEW s \in Session, NEW o \in Order, NEW target \in OrderStatus,
         NEW sale \in SaleId \cup {Null}, NEW delivery \in DeliveryId \cup {Null},
         ReportFulfillment(s, o, target, sale, delivery)
  PROVE  IInv'
  <1> DEFINE row == [orders[o] EXCEPT !.odoo_sale_order_id = Given(sale, @),
                                      !.odoo_delivery_id = Given(delivery, @)]
  <1>1. Load(s, o) /\ CanTransition(orders[o], target)
    BY DEF ReportFulfillment
  <1>2. orders[o] \in Row /\ orders[o].status # "absent" /\ orders[o].sync_failed_from \in Source
    BY <1>1 DEF Load, IInv, TypeOK, SourcesResumable
  <1>3. /\ row \in Row /\ row.status = orders[o].status
        /\ row.sync_failed_from = orders[o].sync_failed_from
    BY <1>2 DEF Row, Given
  <1>4. CanTransition(row, target)
    BY <1>1, <1>3 DEF CanTransition, AllowedTransitions
  <1>5. Prepare(s, o, TransitionTo(row, target), TRUE)
    BY DEF ReportFulfillment
  <1> HIDE DEF row
  <1>6. /\ TransitionTo(row, target) \in Row
        /\ TransitionTo(row, target).status = target
        /\ TransitionTo(row, target).sync_failed_from \in Source
        /\ target # row.status => Legal(row.status, target)
    BY <1>2, <1>3, <1>4, LegalMove
  <1>7. target # "absent"
    BY StatusesAreStatuses
  <1>8. QED
    BY <1>1, <1>3, <1>5, <1>6, <1>7, PrepareStep

LEMMA RecordOdooSaleOrderStep ==
  ASSUME IInv, NEW s \in Session, NEW o \in Order, NEW sale \in SaleId,
         RecordOdooSaleOrder(s, o, sale)
  PROVE  IInv'
  <1> DEFINE mapped == [orders[o] EXCEPT !.odoo_sale_order_id = sale]
             new == IF CanTransition(mapped, "sent_to_odoo")
                      THEN TransitionTo(mapped, "sent_to_odoo") ELSE mapped
  <1>1. Load(s, o) /\ Prepare(s, o, new, FALSE)
    BY DEF RecordOdooSaleOrder
  <1>2. orders[o] \in Row /\ orders[o].status # "absent" /\ orders[o].sync_failed_from \in Source
    BY <1>1 DEF Load, IInv, TypeOK, SourcesResumable
  <1>3. /\ mapped \in Row /\ mapped.status = orders[o].status
        /\ mapped.sync_failed_from = orders[o].sync_failed_from
    BY <1>2 DEF Row
  <1>4. "sent_to_odoo" \in OrderStatus
    BY DEF OrderStatus
  <1> HIDE DEF mapped
  <1>5. /\ new \in Row /\ new.status # "absent" /\ new.sync_failed_from \in Source
        /\ new.status # orders[o].status => Legal(orders[o].status, new.status)
    BY <1>2, <1>3, <1>4, LegalMove, StatusesAreStatuses
  <1> HIDE DEF new
  <1>6. QED
    BY <1>1, <1>5, PrepareStep

LEMMA RecordWooOrderStep ==
  ASSUME IInv, NEW s \in Session, NEW o \in Order, NEW woo \in WooId,
         RecordWooOrder(s, o, woo)
  PROVE  IInv'
  <1> DEFINE new == [orders[o] EXCEPT !.woo_order_id = woo]
  <1>1. Load(s, o) /\ Prepare(s, o, new, FALSE)
    BY DEF RecordWooOrder
  <1>2. orders[o] \in Row /\ orders[o].status # "absent" /\ orders[o].sync_failed_from \in Source
    BY <1>1 DEF Load, IInv, TypeOK, SourcesResumable
  <1>3. /\ new \in Row /\ new.status = orders[o].status
        /\ new.sync_failed_from = orders[o].sync_failed_from
    BY <1>2 DEF Row
  <1> HIDE DEF new
  <1>4. QED
    BY <1>1, <1>2, <1>3, PrepareStep

-----------------------------------------------------------------------------
(* COMMIT: the row of another session with the changes of this one *)

LEMMA FlushParts ==
  ASSUME NEW row \in Row, NEW r \in Request
  PROVE  /\ Flush(row, r) \in Row
         /\ Flush(row, r).status =
              IF Changed(r) THEN r.new.status ELSE row.status
         /\ Flush(row, r).sync_failed_from \in {r.new.sync_failed_from, row.sync_failed_from}
  <1> DEFINE F == DOMAIN row
  <1>1. F = {"status", "sync_failed_from", "woo_order_id",
             "odoo_sale_order_id", "odoo_delivery_id"}
    BY DEF Row
  <1>2. r.new \in Row
    BY DEF Request
  <1>3. Flush(row, r) = [f \in F |-> IF r.new[f] # r.loaded[f] THEN r.new[f] ELSE row[f]]
    BY DEF Flush
  <1>4. /\ Flush(row, r).status \in {r.new.status, row.status}
        /\ Flush(row, r).sync_failed_from \in {r.new.sync_failed_from, row.sync_failed_from}
        /\ Flush(row, r).woo_order_id \in {r.new.woo_order_id, row.woo_order_id}
        /\ Flush(row, r).odoo_sale_order_id \in {r.new.odoo_sale_order_id, row.odoo_sale_order_id}
        /\ Flush(row, r).odoo_delivery_id \in {r.new.odoo_delivery_id, row.odoo_delivery_id}
    BY <1>1, <1>3
  <1>5. Flush(row, r).status = IF Changed(r) THEN r.new.status ELSE row.status
    BY <1>1, <1>3 DEF Changed
  <1>6. Flush(row, r) = [status |-> Flush(row, r).status,
                         sync_failed_from |-> Flush(row, r).sync_failed_from,
                         woo_order_id |-> Flush(row, r).woo_order_id,
                         odoo_sale_order_id |-> Flush(row, r).odoo_sale_order_id,
                         odoo_delivery_id |-> Flush(row, r).odoo_delivery_id]
    BY <1>1, <1>3
  <1>7. Flush(row, r) \in Row
    BY <1>2, <1>4, <1>6 DEF Row
  <1>8. QED
    BY <1>4, <1>5, <1>7

\* What a session that commits knows.
LEMMA OpenRequest ==
  ASSUME IInv, NEW s \in Session, request[s].open
  PROVE  LET r == request[s] IN
         /\ r \in Request /\ r.order \in Order
         /\ orders[r.order] \in Row /\ orders[r.order].status \in OrderStatus
         /\ r.loaded.status \in OrderStatus /\ r.new.status \in OrderStatus
         /\ r.new.sync_failed_from \in Source
         /\ Changed(r) => Legal(r.loaded.status, r.new.status)
  <1>1. request[s] \in Request
    BY DEF IInv, TypeOK, NoRequest
  <1>2. /\ request[s].order \in Order
        /\ request[s].loaded \in Row /\ request[s].new \in Row
    BY <1>1 DEF Request
  <1>3. orders[request[s].order] \in Row
    BY <1>2 DEF IInv, TypeOK
  <1>4. /\ orders[request[s].order].status # "absent"
        /\ request[s].loaded.status # "absent" /\ request[s].new.status # "absent"
        /\ request[s].new.sync_failed_from \in Source
        /\ request[s].new.status # request[s].loaded.status
             => Legal(request[s].loaded.status, request[s].new.status)
    BY DEF IInv, RequestsSound, Legal
  <1>5. QED
    BY <1>1, <1>2, <1>3, <1>4, RowParts DEF Changed

LEMMA LastOfAppend ==
  ASSUME NEW S, NEW seq \in Seq(S), NEW e \in S
  PROVE  /\ Append(seq, e) \in Seq(S) /\ Append(seq, e) # <<>>
         /\ Last(Append(seq, e)) = e
         /\ DOMAIN Append(seq, e) = 1 .. Len(seq) + 1
         /\ \A i \in DOMAIN Append(seq, e) :
              Append(seq, e)[i] = IF i \in DOMAIN seq THEN seq[i] ELSE e
  BY DEF Last

LEMMA CommitStep ==
  ASSUME IInv, NEW s \in Session, Commit(s)
  PROVE  IInv'
  <1> DEFINE r == request[s]
             event == [from |-> r.loaded.status, to |-> r.new.status]
             row == Flush(orders[r.order], r)
             events == IF Changed(r) THEN Append(trail[r.order], event) ELSE trail[r.order]
             published == IF Changed(r) /\ r.publish
                            THEN Append(outbox[r.order], "order_status_changed")
                            ELSE outbox[r.order]
  <1>1. /\ r.open
        /\ orders' = [orders EXCEPT ![r.order] = row]
        /\ trail' = [trail EXCEPT ![r.order] = events]
        /\ outbox' = [outbox EXCEPT ![r.order] = published]
        /\ request' = [request EXCEPT ![s] = NoRequest]
        /\ stale' \in {stale, stale \cup {r.order}}
    BY DEF Commit, Outdated
  <1>2. /\ r \in Request /\ r.order \in Order
        /\ orders[r.order] \in Row /\ orders[r.order].status \in OrderStatus
        /\ r.loaded.status \in OrderStatus /\ r.new.status \in OrderStatus
        /\ r.new.sync_failed_from \in Source
        /\ Changed(r) => Legal(r.loaded.status, r.new.status)
    BY <1>1, OpenRequest
  <1>3. /\ row \in Row
        /\ row.status = IF Changed(r) THEN r.new.status ELSE orders[r.order].status
        /\ row.sync_failed_from \in {r.new.sync_failed_from, orders[r.order].sync_failed_from}
    BY <1>2, FlushParts
  <1>4. row.status # "absent" /\ row.sync_failed_from \in Source
    BY <1>2, <1>3, StatusesAreStatuses DEF IInv, SourcesResumable
  <1>5. event \in StatusEvent
    BY <1>2 DEF StatusEvent
  <1>6. trail[r.order] \in Seq(StatusEvent) /\ outbox[r.order] \in Seq(DomainEvent)
    BY <1>2 DEF IInv, TypeOK
  <1>7. events \in Seq(StatusEvent)
    BY <1>5, <1>6, LastOfAppend
  <1>8. published \in Seq(DomainEvent)
    BY <1>6 DEF DomainEvent
  <1>9. events # <<>> /\ Last(events).to = row.status
    <2>1. CASE Changed(r)
      BY <1>3, <1>5, <1>6, <2>1, LastOfAppend
    <2>2. CASE ~Changed(r)
      <3>1. trail[r.order] # <<>> /\ Last(trail[r.order]).to = orders[r.order].status
        BY <1>2, StatusesAreStatuses DEF IInv, TrailEndsAtStatus
      <3>2. QED
        BY <1>3, <2>2, <3>1
    <2>3. QED
      BY <2>1, <2>2
  <1>10. ASSUME NEW i \in DOMAIN events
         PROVE  Legal(events[i].from, events[i].to)
    <2>1. ASSUME NEW j \in DOMAIN trail[r.order]
          PROVE  Legal(trail[r.order][j].from, trail[r.order][j].to)
      BY <1>2 DEF IInv, LegalEvents, Legal
    <2>2. CASE Changed(r)
      <3>1. events[i] = IF i \in DOMAIN trail[r.order] THEN trail[r.order][i] ELSE event
        BY <1>5, <1>6, <2>2, LastOfAppend
      <3>2. CASE i \in DOMAIN trail[r.order]
        BY <2>1, <3>1, <3>2
      <3>3. CASE i \notin DOMAIN trail[r.order]
        BY <1>2, <2>2, <3>1, <3>3
      <3>4. QED
        BY <3>2, <3>3
    <2>3. CASE ~Changed(r)
      BY <2>1, <2>3
    <2>4. QED
      BY <2>2, <2>3
  <1> HIDE DEF r, row, events, published, event
  <1>11. TypeOK'
    BY <1>1, <1>2, <1>3, <1>7, <1>8 DEF IInv, TypeOK
  <1>12. TrailEndsAtStatus'
    BY <1>1, <1>2, <1>4, <1>9 DEF IInv, TypeOK, TrailEndsAtStatus
  <1>13. LegalEvents'
    <2>1. ASSUME NEW o \in Order, NEW i \in DOMAIN trail'[o]
          PROVE  Legal(trail'[o][i].from, trail'[o][i].to)
      <3>1. CASE o = r.order
        <4>1. trail'[o] = events
          BY <1>1, <1>2, <3>1 DEF IInv, TypeOK
        <4>2. QED
          BY <1>10, <4>1
      <3>2. CASE o # r.order
        <4>1. trail'[o] = trail[o]
          BY <1>1, <3>2 DEF IInv, TypeOK
        <4>2. QED
          BY <4>1 DEF IInv, LegalEvents, Legal
      <3>3. QED
        BY <3>1, <3>2
    <2>2. QED
      BY <2>1 DEF LegalEvents, Legal
  <1>14. RequestsSound'
    <2>1. ASSUME NEW q \in Session, request'[q].open
          PROVE  request'[q] = request[q] /\ request[q].open
      BY <1>1, <2>1 DEF IInv, TypeOK, NoRequest
    <2>2. ASSUME NEW q \in Session, request'[q].open
          PROVE  orders'[request'[q].order].status # "absent"
      <3>1. request[q].order \in Order /\ orders[request[q].order].status # "absent"
        BY <2>1, <2>2, OpenRequest, StatusesAreStatuses
      <3>2. QED
        BY <1>1, <1>2, <1>4, <2>1, <2>2, <3>1 DEF IInv, TypeOK
    <2>3. QED
      BY <2>1, <2>2 DEF IInv, RequestsSound, Legal
  <1>15. SourcesResumable'
    BY <1>1, <1>2, <1>4 DEF IInv, TypeOK, SourcesResumable
  <1>16. QED
    BY <1>11, <1>12, <1>13, <1>14, <1>15 DEF IInv

LEMMA AbandonStep ==
  ASSUME IInv, NEW s \in Session, Abandon(s)
  PROVE  IInv'
  <1>1. /\ request' = [request EXCEPT ![s] = NoRequest]
        /\ orders' = orders /\ trail' = trail /\ outbox' = outbox /\ stale' = stale
    BY DEF Abandon
  <1>2. TypeOK'
    BY <1>1 DEF IInv, TypeOK
  <1>3. RequestsSound'
    BY <1>1 DEF IInv, TypeOK, RequestsSound, Legal, NoRequest
  <1>4. QED
    BY <1>1, <1>2, <1>3 DEF IInv, TrailEndsAtStatus, LegalEvents, SourcesResumable

-----------------------------------------------------------------------------
(* The invariant and what it says *)

LEMMA IInvInit == Init => IInv
  <1> SUFFICES ASSUME Init PROVE IInv
    OBVIOUS
  <1>1. NoRow \in Row /\ NoRow.status = "absent" /\ NoRow.sync_failed_from \in Source
    BY NoSourceIsSource DEF NoRow, Row
  <1>2. TypeOK /\ TrailEndsAtStatus /\ LegalEvents
    BY <1>1 DEF Init, TypeOK, TrailEndsAtStatus, LegalEvents
  <1>3. RequestsSound /\ SourcesResumable
    BY <1>1 DEF Init, RequestsSound, SourcesResumable, NoRequest
  <1>4. QED
    BY <1>2, <1>3 DEF IInv

LEMMA IInvStep == IInv /\ [Next]_vars => IInv'
  <1> SUFFICES ASSUME IInv, [Next]_vars PROVE IInv'
    OBVIOUS
  <1>1. ASSUME NEW o \in Order, NEW woo \in WooId \cup {Null}, PlaceOrder(o, woo)
        PROVE  IInv'
    BY <1>1, PlaceOrderStep
  <1>2. ASSUME NEW s \in Session, NEW o \in Order, NEW target \in OrderStatus,
               NEW sale \in SaleId \cup {Null}, NEW delivery \in DeliveryId \cup {Null},
               ReportFulfillment(s, o, target, sale, delivery)
        PROVE  IInv'
    BY <1>2, ReportFulfillmentStep
  <1>3. ASSUME NEW s \in Session, NEW o \in Order, NEW sale \in SaleId,
               RecordOdooSaleOrder(s, o, sale)
        PROVE  IInv'
    BY <1>3, RecordOdooSaleOrderStep
  <1>4. ASSUME NEW s \in Session, NEW o \in Order, NEW woo \in WooId,
               RecordWooOrder(s, o, woo)
        PROVE  IInv'
    BY <1>4, RecordWooOrderStep
  <1>5. ASSUME NEW s \in Session, Commit(s) PROVE IInv'
    BY <1>5, CommitStep
  <1>6. ASSUME NEW s \in Session, Abandon(s) PROVE IInv'
    BY <1>6, AbandonStep
  <1>7. CASE UNCHANGED vars
    BY <1>7 DEF vars, IInv, TypeOK, TrailEndsAtStatus, LegalEvents, RequestsSound,
                SourcesResumable, Legal
  <1>8. QED
    BY <1>1, <1>2, <1>3, <1>4, <1>5, <1>6, <1>7 DEF Next

LEMMA IInvariance == Spec => []IInv
  <1>1. QED
    BY IInvInit, IInvStep, PTL DEF Spec

\* Rows, audit events, domain events and open requests are always well formed,
\* in particular no audit event of models/order.py comes from or leads to a
\* status that is none of OrderStatus.
THEOREM TypeCorrect == Spec => []TypeOK
  <1>1. IInv => TypeOK
    BY DEF IInv
  <1>2. QED
    BY <1>1, IInvariance, PTL

\* Whatever requests overlap, commit late or are lost, the audit trail of an
\* order ends at the status of its row: transition_to writes both in one
\* transaction, and the UPDATE carries the status only if it has changed.
THEOREM TrailFollowsStatus == Spec => []TrailEndsAtStatus
  <1>1. IInv => TrailEndsAtStatus
    BY DEF IInv
  <1>2. QED
    BY <1>1, IInvariance, PTL

\* However stale the row a request decided on, it records only transitions that
\* ORDER_TRANSITIONS and ORDER_RESUMABLE_STATES have.
THEOREM EventsAreLegal == Spec => []LegalEvents
  <1>1. IInv => LegalEvents
    BY DEF IInv
  <1>2. QED
    BY <1>1, IInvariance, PTL

-----------------------------------------------------------------------------
(* The orders on which nobody has committed what it made of an older row *)

\* Only a placed order has mappings; an order in sync_failed has its restore
\* point; no order stays a draft.
RowFit(row) ==
  /\ row.status = "absent" => row.woo_order_id = Null /\ row.odoo_sale_order_id = Null
  /\ row.status = "sync_failed" => row.sync_failed_from \in ORDER_RESUMABLE_STATES
  /\ row.status # "draft"

RowsFit == \A o \in Order \ stale : RowFit(orders[o])

\* What a request makes of the row it has loaded.
Exact(r) ==
  /\ CanTransition(r.loaded, r.new.status)
  /\ r.new.sync_failed_from = RestorePoint(r.loaded, r.new.status)
  /\ r.loaded.woo_order_id # Null => r.new.woo_order_id = r.loaded.woo_order_id
  /\ r.loaded.odoo_sale_order_id # Null /\ ~r.publish
       => r.new.odoo_sale_order_id = r.loaded.odoo_sale_order_id

RequestsExact == \A s \in Session : request[s].open => Exact(request[s])

FreshInv == IInv /\ RowsFit /\ RequestsExact /\ TrailIsPath

-----------------------------------------------------------------------------
(* A transition of the state machine in the life of the order *)

\* A transition of an order with a fit row leaves a fit row.
LEMMA MoveFits ==
  ASSUME NEW row \in Row, row.status \in OrderStatus, RowFit(row),
         NEW new \in Row, new.status \in OrderStatus,
         CanTransition(row, new.status), new.sync_failed_from = RestorePoint(row, new.status)
  PROVE  RowFit(new)
  <1>1. CASE new.status = row.status
    <2>1. new.sync_failed_from = row.sync_failed_from
      BY <1>1 DEF RestorePoint
    <2>2. QED
      BY <1>1, <2>1, StatusesAreStatuses DEF RowFit
  <1>2. CASE new.status # row.status
    <2>1. new.status \in AllowedTransitions(row)
      BY <1>2 DEF CanTransition
    <2>2. CASE row.status = "sync_failed"
      <3>1. new.status \in ORDER_RESUMABLE_STATES
        BY <2>1, <2>2 DEF AllowedTransitions, RowFit
      <3>2. QED
        BY <3>1, StatusesAreStatuses DEF RowFit, ORDER_RESUMABLE_STATES
    <2>3. CASE row.status # "sync_failed"
      <3>1. new.status \in ORDER_TRANSITIONS[row.status]
        BY <2>1, <2>3 DEF AllowedTransitions
      <3>2. new.status # "draft" /\ (new.status = "sync_failed" => row.status \in ORDER_RESUMABLE_STATES)
        BY <3>1 DEF ORDER_TRANSITIONS, ORDER_RESUMABLE_STATES, OrderStatus
      <3>3. new.status = "sync_failed" => new.sync_failed_from = row.status
        BY <1>2 DEF RestorePoint
      <3>4. QED
        BY <3>2, <3>3, StatusesAreStatuses DEF RowFit
    <2>4. QED
      BY <2>2, <2>3
  <1>3. QED
    BY <1>1, <1>2

\* The moves of OrderLifecycle, from the life a to the life b.
Advances(a, b) == a.mode = "active" /\ a.stage < 7 /\ b = [a EXCEPT !.stage = @ + 1]
Suspends(a, b) == a.mode = "active" /\ a.stage \in 2 .. 5 /\ b = [a EXCEPT !.mode = "suspended"]
Continues(a, b) == a.mode = "suspended" /\ b = [a EXCEPT !.mode = "active"]
Cancels(a, b) ==
  a.mode = "active" /\ a.stage \in 1 .. 5 /\ b = [mode |-> "cancelled", stage |-> 0]

LEMMA StagesOfStatuses ==
  /\ Stage("submitted") = 1 /\ Stage("sent_to_odoo") = 2 /\ Stage("odoo_confirmed") = 3
  /\ Stage("inventory_reserved") = 4 /\ Stage("picking_ready") = 5
  /\ Stage("shipped") = 6 /\ Stage("completed") = 7
  BY DEF Stage

\* A transition is one move of the life, or none.
LEMMA MoveOfLife ==
  ASSUME NEW row \in Row, row.status \in OrderStatus, RowFit(row),
         NEW new \in Row, new.status \in OrderStatus, new.status # row.status,
         CanTransition(row, new.status), new.sync_failed_from = RestorePoint(row, new.status)
  PROVE  \/ Advances(LifeOf(row), LifeOf(new)) \/ Suspends(LifeOf(row), LifeOf(new))
         \/ Continues(LifeOf(row), LifeOf(new)) \/ Cancels(LifeOf(row), LifeOf(new))
  <1>1. new.status \in AllowedTransitions(row)
    BY DEF CanTransition
  <1>2. CASE row.status = "sync_failed"
    <2>1. /\ row.sync_failed_from \in ORDER_RESUMABLE_STATES
          /\ new.status = row.sync_failed_from
      BY <1>1, <1>2, StatusesAreStatuses
      DEF RowFit, AllowedTransitions, ORDER_RESUMABLE_STATES, NoSource
    <2>2. /\ LifeOf(row) = [mode |-> "suspended", stage |-> Stage(new.status)]
          /\ LifeOf(new) = [mode |-> "active", stage |-> Stage(new.status)]
      BY <1>2, <2>1 DEF LifeOf, ORDER_RESUMABLE_STATES
    <2>3. QED
      BY <2>2 DEF Continues
  <1>3. CASE row.status # "sync_failed"
    <2>1. new.status \in ORDER_TRANSITIONS[row.status] /\ row.status # "draft"
      BY <1>1, <1>3 DEF AllowedTransitions, RowFit
    <2>2. new.status = "sync_failed" => new.sync_failed_from = row.status
      BY <1>3 DEF RestorePoint
    <2>3. row.status # "cancelled"
      BY <2>1 DEF ORDER_TRANSITIONS
    <2>4. LifeOf(row) = [mode |-> "active", stage |-> Stage(row.status)]
      BY <1>3, <2>3 DEF LifeOf
    <2>5. CASE new.status = "cancelled"
      <3>1. Stage(row.status) \in 1 .. 5
        BY <2>1, <2>5, StagesOfStatuses DEF ORDER_TRANSITIONS, OrderStatus
      <3>2. LifeOf(new) = [mode |-> "cancelled", stage |-> 0]
        BY <2>5 DEF LifeOf
      <3>3. QED
        BY <2>4, <3>1, <3>2 DEF Cancels
    <2>6. CASE new.status = "sync_failed"
      <3>1. Stage(row.status) \in 2 .. 5
        BY <2>1, <2>6, StagesOfStatuses DEF ORDER_TRANSITIONS, OrderStatus
      <3>2. LifeOf(new) = [mode |-> "suspended", stage |-> Stage(row.status)]
        BY <2>2, <2>6 DEF LifeOf
      <3>3. QED
        BY <2>4, <3>1, <3>2 DEF Suspends
    <2>7. CASE new.status \notin {"cancelled", "sync_failed"}
      <3>1. Stage(row.status) \in 1 .. 6 /\ Stage(new.status) = Stage(row.status) + 1
        BY <2>1, <2>7, StagesOfStatuses DEF ORDER_TRANSITIONS, OrderStatus
      <3>2. LifeOf(new) = [mode |-> "active", stage |-> Stage(new.status)]
        BY <2>7 DEF LifeOf
      <3>3. QED
        BY <2>4, <3>1, <3>2 DEF Advances
    <2>8. QED
      BY <2>5, <2>6, <2>7
  <1>4. QED
    BY <1>2, <1>3

-----------------------------------------------------------------------------
(* What each action makes of the orders that are not stale *)

LEMMA PlaceOrderFresh ==
  ASSUME FreshInv, NEW o \in Order, NEW woo \in WooId \cup {Null}, PlaceOrder(o, woo)
  PROVE  /\ FreshInv'
         /\ LifeOf(orders[o]) = [mode |-> "active", stage |-> 0]
         /\ LifeOf(orders'[o]) = [mode |-> "active", stage |-> 1]
         /\ o \notin stale =>
              orders[o].woo_order_id = Null /\ orders[o].odoo_sale_order_id = Null
         /\ orders' = [orders EXCEPT ![o] = orders'[o]] /\ stale' = stale
  <1> DEFINE draft == [NoRow EXCEPT !.status = "draft", !.woo_order_id = woo]
             row == TransitionTo(draft, "submitted")
             event == [from |-> "draft", to |-> "submitted"]
  <1>1. IInv'
    BY PlaceOrderStep DEF FreshInv
  <1>2. /\ orders' = [orders EXCEPT ![o] = row] /\ trail' = [trail EXCEPT ![o] = <<event>>]
        /\ request' = request /\ stale' = stale /\ orders[o].status = "absent"
    BY DEF PlaceOrder
  <1>3. draft \in Row
    BY DEF NoRow, Row, OrderStatus
  <1>4. row.status = "submitted"
    BY <1>3 DEF TransitionTo, Row
  <1> HIDE DEF row, draft
  <1>5. /\ orders \in [Order -> Row] /\ trail \in [Order -> Seq(StatusEvent)]
        /\ orders'[o] = row /\ \A q \in Order \ {o} : orders'[q] = orders[q]
    BY <1>2 DEF FreshInv, IInv, TypeOK
  <1>6. RowsFit'
    BY <1>2, <1>4, <1>5 DEF FreshInv, RowsFit, RowFit
  <1>7. RequestsExact'
    BY <1>2 DEF FreshInv, RequestsExact
  <1>8. TrailIsPath'
    <2>1. trail'[o] = <<event>> /\ \A q \in Order \ {o} : trail'[q] = trail[q]
      BY <1>2, <1>5
    <2>2. Len(<<event>>) - 1 = 0
      OBVIOUS
    <2>3. QED
      BY <1>2, <2>1, <2>2 DEF FreshInv, TrailIsPath
  <1>9. /\ LifeOf(orders[o]) = [mode |-> "active", stage |-> 0]
        /\ LifeOf(orders'[o]) = [mode |-> "active", stage |-> 1]
    BY <1>2, <1>4, <1>5 DEF LifeOf, Stage
  <1>10. o \notin stale =>
           orders[o].woo_order_id = Null /\ orders[o].odoo_sale_order_id = Null
    BY <1>2 DEF FreshInv, RowsFit, RowFit
  <1>11. orders' = [orders EXCEPT ![o] = orders'[o]]
    BY <1>2, <1>5
  <1>12. QED
    BY <1>1, <1>2, <1>6, <1>7, <1>8, <1>9, <1>10, <1>11 DEF FreshInv

\* A request that has loaded its order and prepares an exact change.
LEMMA PrepareFresh ==
  ASSUME FreshInv, NEW s \in Session, NEW o \in Order, NEW new, NEW publish,
         Prepare(s, o, new, publish), IInv',
         Exact([open |-> TRUE, order |-> o, loaded |-> orders[o],
                new |-> new, publish |-> publish])
  PROVE  FreshInv' /\ orders' = orders
  <1> DEFINE r == [open |-> TRUE, order |-> o, loaded |-> orders[o],
                   new |-> new, publish |-> publish]
  <1>1. /\ request' = [request EXCEPT ![s] = r]
        /\ orders' = orders /\ trail' = trail /\ stale' = stale
    BY DEF Prepare
  <1>2. Exact(r)
    OBVIOUS
  <1> HIDE DEF r
  <1>3. \A q \in Session : request'[q] = IF q = s THEN r ELSE request[q]
    BY <1>1 DEF FreshInv, IInv, TypeOK
  <1>4. RequestsExact'
    BY <1>2, <1>3 DEF FreshInv, RequestsExact
  <1>5. QED
    BY <1>1, <1>4 DEF FreshInv, RowsFit, TrailIsPath

LEMMA TransitionParts ==
  ASSUME NEW row \in Row, NEW target
  PROVE  /\ TransitionTo(row, target).status = target
         /\ TransitionTo(row, target).sync_failed_from = RestorePoint(row, target)
         /\ TransitionTo(row, target).woo_order_id = row.woo_order_id
         /\ TransitionTo(row, target).odoo_sale_order_id = row.odoo_sale_order_id
  BY DEF TransitionTo, Row

LEMMA ReportFresh ==
  ASSUME FreshInv, NEW s \in Session, NEW o \in Order, NEW target \in OrderStatus,
         NEW sale \in SaleId \cup {Null}, NEW delivery \in DeliveryId \cup {Null},
         ReportFulfillment(s, o, target, sale, delivery)
  PROVE  FreshInv' /\ orders' = orders
  <1> DEFINE row == [orders[o] EXCEPT !.odoo_sale_order_id = Given(sale, @),
                                      !.odoo_delivery_id = Given(delivery, @)]
             new == TransitionTo(row, target)
             r == [open |-> TRUE, order |-> o, loaded |-> orders[o],
                   new |-> new, publish |-> TRUE]
  <1>1. CanTransition(orders[o], target) /\ Prepare(s, o, new, TRUE)
    BY DEF ReportFulfillment
  <1>2. orders[o] \in Row
    BY DEF FreshInv, IInv, TypeOK
  <1>3. /\ row \in Row /\ row.status = orders[o].status
        /\ row.sync_failed_from = orders[o].sync_failed_from
        /\ row.woo_order_id = orders[o].woo_order_id
    BY <1>2 DEF Row, Given
  <1> HIDE DEF row
  <1>4. /\ new.status = target /\ new.sync_failed_from = RestorePoint(row, target)
        /\ new.woo_order_id = row.woo_order_id
    BY <1>3, TransitionParts
  <1>5. RestorePoint(row, target) = RestorePoint(orders[o], target)
    BY <1>3 DEF RestorePoint
  <1> HIDE DEF new
  <1>6. Exact(r)
    BY <1>1, <1>3, <1>4, <1>5 DEF Exact
  <1>7. IInv'
    BY ReportFulfillmentStep DEF FreshInv
  <1> HIDE DEF r
  <1>8. QED
    BY <1>1, <1>6, <1>7, PrepareFresh DEF r

LEMMA SaleOrderFresh ==
  ASSUME FreshInv, NEW s \in Session, NEW o \in Order, NEW sale \in SaleId,
         RecordOdooSaleOrder(s, o, sale)
  PROVE  FreshInv' /\ orders' = orders
  <1> DEFINE mapped == [orders[o] EXCEPT !.odoo_sale_order_id = sale]
             new == IF CanTransition(mapped, "sent_to_odoo")
                      THEN TransitionTo(mapped, "sent_to_odoo") ELSE mapped
             r == [open |-> TRUE, order |-> o, loaded |-> orders[o],
                   new |-> new, publish |-> FALSE]
  <1>1. orders[o].odoo_sale_order_id = Null /\ Prepare(s, o, new, FALSE)
    BY DEF RecordOdooSaleOrder
  <1>2. orders[o] \in Row
    BY DEF FreshInv, IInv, TypeOK
  <1>3. /\ mapped \in Row /\ mapped.status = orders[o].status
        /\ mapped.sync_failed_from = orders[o].sync_failed_from
        /\ mapped.woo_order_id = orders[o].woo_order_id
    BY <1>2 DEF Row
  <1> HIDE DEF mapped
  <1>4. /\ new.woo_order_id = orders[o].woo_order_id
        /\ CanTransition(mapped, new.status)
        /\ new.sync_failed_from = RestorePoint(mapped, new.status)
    <2>1. CASE CanTransition(mapped, "sent_to_odoo")
      BY <1>3, <2>1, TransitionParts
    <2>2. CASE ~CanTransition(mapped, "sent_to_odoo")
      BY <1>3, <2>2 DEF CanTransition, RestorePoint
    <2>3. QED
      BY <2>1, <2>2
  <1> HIDE DEF new
  <1>5. /\ RestorePoint(mapped, new.status) = RestorePoint(orders[o], new.status)
        /\ CanTransition(orders[o], new.status)
    BY <1>3, <1>4 DEF RestorePoint, CanTransition, AllowedTransitions
  <1>6. Exact(r)
    BY <1>1, <1>4, <1>5 DEF Exact
  <1>7. IInv'
    BY RecordOdooSaleOrderStep DEF FreshInv
  <1> HIDE DEF r
  <1>8. QED
    BY <1>1, <1>6, <1>7, PrepareFresh DEF r

LEMMA WooOrderFresh ==
  ASSUME FreshInv, NEW s \in Session, NEW o \in Order, NEW woo \in WooId,
         RecordWooOrder(s, o, woo)
  PROVE  FreshInv' /\ orders' = orders
  <1> DEFINE new == [orders[o] EXCEPT !.woo_order_id = woo]
             r == [open |-> TRUE, order |-> o, loaded |-> orders[o],
                   new |-> new, publish |-> FALSE]
  <1>1. orders[o].woo_order_id = Null /\ Prepare(s, o, new, FALSE)
    BY DEF RecordWooOrder
  <1>2. orders[o] \in Row
    BY DEF FreshInv, IInv, TypeOK
  <1>3. /\ new.status = orders[o].status
        /\ new.sync_failed_from = orders[o].sync_failed_from
        /\ new.odoo_sale_order_id = orders[o].odoo_sale_order_id
    BY <1>2 DEF Row
  <1> HIDE DEF new
  <1>4. Exact(r)
    BY <1>1, <1>3 DEF Exact, CanTransition, RestorePoint
  <1>5. IInv'
    BY RecordWooOrderStep DEF FreshInv
  <1> HIDE DEF r
  <1>6. QED
    BY <1>1, <1>4, <1>5, PrepareFresh DEF r

\* A session that commits over the row it has loaded stores what it has made of it.
LEMMA FlushFresh ==
  ASSUME NEW row \in Row, NEW r \in Request, r.loaded = row
  PROVE  /\ Flush(row, r).status = r.new.status
         /\ Flush(row, r).sync_failed_from = r.new.sync_failed_from
         /\ Flush(row, r).woo_order_id = r.new.woo_order_id
         /\ Flush(row, r).odoo_sale_order_id = r.new.odoo_sale_order_id
  <1>1. DOMAIN row = {"status", "sync_failed_from", "woo_order_id",
                      "odoo_sale_order_id", "odoo_delivery_id"}
    BY DEF Row
  <1>2. QED
    BY <1>1 DEF Flush

\* What a commit makes of the row it has loaded, if that is still the row.
LEMMA CommitFacts ==
  ASSUME FreshInv, NEW s \in Session, Commit(s), request[s].order \notin stale'
  PROVE  LET r == request[s]
             o == r.order IN
         /\ o \in Order \ stale /\ r.open /\ r \in Request /\ Exact(r)
         /\ orders[o] \in Row /\ orders[o].status \in OrderStatus
         /\ r.loaded = orders[o]
         /\ orders'[o] \in Row /\ orders'[o].status = r.new.status
         /\ r.new.status \in OrderStatus
         /\ CanTransition(orders[o], orders'[o].status)
         /\ orders'[o].sync_failed_from = RestorePoint(orders[o], orders'[o].status)
         /\ orders'[o].woo_order_id = r.new.woo_order_id
         /\ orders'[o].odoo_sale_order_id = r.new.odoo_sale_order_id
         /\ orders' = [orders EXCEPT ![o] = orders'[o]]
         /\ \A q \in Order \ {o} : orders'[q] = orders[q]
  <1> DEFINE r == request[s]
             o == r.order
             row == Flush(orders[o], r)
  <1>1. r.open /\ orders' = [orders EXCEPT ![o] = row]
    BY DEF Commit
  <1>2. /\ r \in Request /\ o \in Order
        /\ orders[o] \in Row /\ orders[o].status \in OrderStatus
        /\ r.new.status \in OrderStatus
    BY <1>1, OpenRequest DEF FreshInv
  <1>3. r.loaded = orders[o] /\ o \notin stale /\ Exact(r)
    BY <1>1 DEF Commit, Outdated, FreshInv, RequestsExact
  <1>4. /\ row \in Row /\ row.status = r.new.status
        /\ row.sync_failed_from = r.new.sync_failed_from
        /\ row.woo_order_id = r.new.woo_order_id
        /\ row.odoo_sale_order_id = r.new.odoo_sale_order_id
    BY <1>2, <1>3, FlushParts, FlushFresh
  <1>5. /\ CanTransition(orders[o], r.new.status)
        /\ r.new.sync_failed_from = RestorePoint(orders[o], r.new.status)
    BY <1>3 DEF Exact
  <1> HIDE DEF row, r
  <1>6. /\ orders'[o] = row /\ orders' = [orders EXCEPT ![o] = orders'[o]]
        /\ \A q \in Order \ {o} : orders'[q] = orders[q]
    BY <1>1, <1>2 DEF FreshInv, IInv, TypeOK
  <1>7. QED
    BY <1>1, <1>2, <1>3, <1>4, <1>5, <1>6 DEF r

LEMMA CommitFresh ==
  ASSUME FreshInv, NEW s \in Session, Commit(s)
  PROVE  /\ FreshInv'
         /\ \A q \in Order \ {request[s].order} : orders'[q] = orders[q]
  <1> DEFINE r == request[s]
             o == r.order
             event == [from |-> r.loaded.status, to |-> r.new.status]
  <1>1. IInv'
    BY CommitStep DEF FreshInv
  <1>2. /\ r.open /\ o \in Order
        /\ stale \subseteq stale' /\ stale' \subseteq stale \cup {o}
        /\ request' = [request EXCEPT ![s] = NoRequest]
        /\ trail' = [trail EXCEPT ![o] = IF Changed(r) THEN Append(trail[o], event) ELSE trail[o]]
        /\ \A q \in Order \ {o} : orders'[q] = orders[q]
    <2>1. r.open /\ orders' = [orders EXCEPT ![o] = Flush(orders[o], r)]
      BY DEF Commit
    <2>2. o \in Order
      BY <2>1, OpenRequest DEF FreshInv
    <2>3. \A q \in Order \ {o} : orders'[q] = orders[q]
      BY <2>1 DEF FreshInv, IInv, TypeOK
    <2>4. QED
      BY <2>1, <2>2, <2>3 DEF Commit, Outdated
  <1>3. RowsFit'
    <2>1. ASSUME o \notin stale' PROVE RowFit(orders'[o])
      <3>1. RowFit(orders[o])
        BY <2>1, CommitFacts DEF FreshInv, RowsFit
      <3>2. QED
        BY <2>1, <3>1, CommitFacts, MoveFits
    <2>2. QED
      BY <1>2, <2>1 DEF FreshInv, RowsFit
  <1>4. RequestsExact'
    BY <1>2 DEF FreshInv, IInv, TypeOK, RequestsExact, NoRequest
  <1>5. TrailIsPath'
    <2>1. ASSUME o \notin stale', NEW i \in 1 .. Len(Append(trail[o], event)) - 1
          PROVE  Append(trail[o], event)[i].to = Append(trail[o], event)[i + 1].from
      <3>1. /\ o \in Order \ stale /\ orders[o].status \in OrderStatus
            /\ r.loaded.status = orders[o].status /\ r.new.status \in OrderStatus
        BY <2>1, CommitFacts
      <3>2. /\ trail \in [Order -> Seq(StatusEvent)] /\ event \in StatusEvent
            /\ trail[o] # <<>> /\ Last(trail[o]).to = orders[o].status
        BY <3>1, StatusesAreStatuses
        DEF FreshInv, IInv, TypeOK, TrailEndsAtStatus, StatusEvent
      <3>3. CASE i < Len(trail[o])
        <4>1. i \in 1 .. Len(trail[o]) - 1
          BY <2>1, <3>1, <3>2, <3>3
        <4>2. trail[o][i].to = trail[o][i + 1].from
          BY <3>1, <4>1 DEF FreshInv, TrailIsPath
        <4>3. /\ Append(trail[o], event)[i] = trail[o][i]
              /\ Append(trail[o], event)[i + 1] = trail[o][i + 1]
          BY <3>1, <3>2, <4>1
        <4>4. QED
          BY <4>2, <4>3
      <3>4. CASE ~(i < Len(trail[o]))
        <4>1. i = Len(trail[o]) /\ i \in 1 .. Len(trail[o])
          BY <2>1, <3>1, <3>2, <3>4
        <4>2. /\ Append(trail[o], event)[i] = trail[o][i]
              /\ Append(trail[o], event)[i + 1] = event
          BY <3>1, <3>2, <4>1
        <4>3. trail[o][i].to = orders[o].status
          BY <3>2, <4>1 DEF Last
        <4>4. event.from = orders[o].status
          BY <3>1
        <4>5. QED
          BY <4>2, <4>3, <4>4
      <3>5. QED
        BY <3>3, <3>4
    <2> HIDE DEF event, r
    <2>2. /\ stale \subseteq stale'
          /\ \A q \in Order : \/ trail'[q] = trail[q]
                              \/ q = o /\ trail'[q] = Append(trail[o], event)
      BY <1>2 DEF FreshInv, IInv, TypeOK
    <2>3. QED
      BY <2>1, <2>2 DEF FreshInv, TrailIsPath
  <1>6. QED
    BY <1>1, <1>2, <1>3, <1>4, <1>5 DEF FreshInv

LEMMA AbandonFresh ==
  ASSUME FreshInv, NEW s \in Session, Abandon(s)
  PROVE  FreshInv' /\ orders' = orders
  <1>1. /\ request' = [request EXCEPT ![s] = NoRequest]
        /\ orders' = orders /\ trail' = trail /\ stale' = stale
    BY DEF Abandon
  <1>2. RequestsExact'
    BY <1>1 DEF FreshInv, IInv, TypeOK, RequestsExact, NoRequest
  <1>3. IInv'
    BY AbandonStep DEF FreshInv
  <1>4. QED
    BY <1>1, <1>2, <1>3 DEF FreshInv, RowsFit, TrailIsPath

\* What changes a row: the placement of an order or a commit.
LEMMA FreshStep ==
  FreshInv /\ [Next]_vars =>
    /\ FreshInv'
    /\ \/ orders' = orders
       \/ \E o \in Order, woo \in WooId \cup {Null} : PlaceOrder(o, woo)
       \/ \E s \in Session : Commit(s)
  <1> SUFFICES ASSUME FreshInv, [Next]_vars
               PROVE  /\ FreshInv'
                      /\ \/ orders' = orders
                         \/ \E o \in Order, woo \in WooId \cup {Null} : PlaceOrder(o, woo)
                         \/ \E s \in Session : Commit(s)
    OBVIOUS
  <1>1. CASE \E o \in Order, woo \in WooId \cup {Null} : PlaceOrder(o, woo)
    BY <1>1, PlaceOrderFresh
  <1>2. CASE \E s \in Session : Commit(s)
    BY <1>2, CommitFresh
  <1>3. CASE \E s \in Session, o \in Order :
               \/ \E target \in OrderStatus, sale \in SaleId \cup {Null},
                     delivery \in DeliveryId \cup {Null} :
                    ReportFulfillment(s, o, target, sale, delivery)
               \/ \E sale \in SaleId : RecordOdooSaleOrder(s, o, sale)
               \/ \E woo \in WooId : RecordWooOrder(s, o, woo)
    BY <1>3, ReportFresh, SaleOrderFresh, WooOrderFresh
  <1>4. CASE \E s \in Session : Abandon(s)
    BY <1>4, AbandonFresh
  <1>5. CASE UNCHANGED vars
    <2>1. IInv'
      BY <1>5, IInvStep DEF FreshInv
    <2>2. QED
      BY <1>5, <2>1 DEF vars, FreshInv, RowsFit, RequestsExact, TrailIsPath
  <1>6. QED
    BY <1>1, <1>2, <1>3, <1>4, <1>5, Zenon DEF Next

LEMMA FreshInit == Init => FreshInv
  <1>1. NoRow.status = "absent" /\ RowFit(NoRow)
    BY DEF NoRow, RowFit
  <1>2. Init => RowsFit /\ RequestsExact /\ TrailIsPath
    BY <1>1 DEF Init, RowsFit, RequestsExact, NoRequest, TrailIsPath
  <1>3. QED
    BY <1>2, IInvInit DEF FreshInv

LEMMA FreshInvariance == Spec => []FreshInv
  BY FreshInit, FreshStep, PTL DEF Spec

-----------------------------------------------------------------------------
(* What holds of the orders that are not stale *)

\* The audit trail of an order is an unbroken path, whatever requests overlap, until
\* one of them commits what it made of a row that another has changed meanwhile.
THEOREM TrailUnbroken == Spec => []TrailIsPath
  <1>1. FreshInv => TrailIsPath
    BY DEF FreshInv
  <1>2. QED
    BY <1>1, FreshInvariance, PTL

\* A mapping to Woo is written once, and a mapping to Odoo is replaced by a
\* fulfillment report only, unless a COMMIT meets another row than was loaded.
THEOREM MappingsStay == Spec => MappingsKept
  <1> DEFINE Kept == \A o \in Order \ stale' :
               /\ orders[o].woo_order_id # Null
                    => orders'[o].woo_order_id = orders[o].woo_order_id
               /\ orders[o].odoo_sale_order_id \notin {Null, orders'[o].odoo_sale_order_id}
                    => \E s \in Session : request[s].open /\ request[s].publish
  <1>1. FreshInv /\ [Next]_vars => [Kept]_vars
    <2> SUFFICES ASSUME FreshInv, [Next]_vars PROVE Kept
      OBVIOUS
    <2>1. CASE orders' = orders
      BY <2>1
    <2>2. ASSUME NEW o \in Order, NEW woo \in WooId \cup {Null}, PlaceOrder(o, woo)
          PROVE  Kept
      <3>1. /\ o \notin stale =>
                 orders[o].woo_order_id = Null /\ orders[o].odoo_sale_order_id = Null
            /\ orders' = [orders EXCEPT ![o] = orders'[o]] /\ stale' = stale
        BY <2>2, PlaceOrderFresh
      <3>2. \A q \in Order : q # o => orders'[q] = orders[q]
        BY <3>1 DEF FreshInv, IInv, TypeOK
      <3>3. QED
        BY <3>1, <3>2
    <2>3. ASSUME NEW s \in Session, Commit(s) PROVE Kept
      <3> DEFINE r == request[s]
      <3>0. \A q \in Order \ {r.order} : orders'[q] = orders[q]
        BY <2>3, CommitFresh
      <3> SUFFICES ASSUME r.order \notin stale' PROVE Kept
        BY <3>0
      <3>1. /\ r.open /\ r \in Request /\ Exact(r) /\ r.loaded = orders[r.order]
            /\ orders'[r.order].woo_order_id = r.new.woo_order_id
            /\ orders'[r.order].odoo_sale_order_id = r.new.odoo_sale_order_id
            /\ \A q \in Order \ {r.order} : orders'[q] = orders[q]
        BY <2>3, CommitFacts
      <3>2. r.publish \in BOOLEAN
        BY <3>1 DEF Request
      <3>3. /\ r.loaded.woo_order_id # Null => r.new.woo_order_id = r.loaded.woo_order_id
            /\ r.loaded.odoo_sale_order_id # Null /\ ~r.publish
                 => r.new.odoo_sale_order_id = r.loaded.odoo_sale_order_id
        BY <3>1 DEF Exact
      <3>4. QED
        BY <3>1, <3>2, <3>3
    <2>4. QED
      BY <2>1, <2>2, <2>3, FreshStep
  <1>2. QED
    BY <1>1, FreshInvariance, PTL DEF Spec, MappingsKept

LEMMA AdvanceOfLife ==
  ASSUME NEW o \in Order, NEW b, Lives' = [Lives EXCEPT ![o] = b], Advances(Lives[o], b)
  PROVE  Lifecycle!Advance(o)
  BY DEF Advances, Lifecycle!Advance, Lifecycle!Completed

LEMMA LifeStep ==
  FreshInv /\ [Next]_vars => [stale' = {} => Lifecycle!Next]_Lives
  <1> SUFFICES ASSUME FreshInv, [Next]_vars, stale' = {} PROVE [Lifecycle!Next]_Lives
    OBVIOUS
  <1>1. CASE orders' = orders
    BY <1>1 DEF Lives
  <1>2. ASSUME NEW o \in Order, orders' = [orders EXCEPT ![o] = orders'[o]]
        PROVE  /\ Lives' = [Lives EXCEPT ![o] = LifeOf(orders'[o])]
               /\ Lives[o] = LifeOf(orders[o])
    BY <1>2 DEF Lives, FreshInv, IInv, TypeOK
  <1>3. ASSUME NEW o \in Order, NEW woo \in WooId \cup {Null}, PlaceOrder(o, woo)
        PROVE  Lifecycle!Next
    <2>1. /\ Lives' = [Lives EXCEPT ![o] = [mode |-> "active", stage |-> 1]]
          /\ Lives[o] = [mode |-> "active", stage |-> 0]
      BY <1>2, <1>3, PlaceOrderFresh
    <2>2. [Lives[o] EXCEPT !.stage = Lives[o].stage + 1] = [mode |-> "active", stage |-> 1]
      BY <2>1
    <2>3. Advances(Lives[o], [mode |-> "active", stage |-> 1])
      BY <2>1, <2>2 DEF Advances
    <2>4. QED
      BY <2>1, <2>3, AdvanceOfLife DEF Lifecycle!Next
  <1>4. ASSUME NEW s \in Session, Commit(s) PROVE [Lifecycle!Next]_Lives
    <2> DEFINE o == request[s].order
    <2>1. /\ o \in Order \ stale /\ orders[o] \in Row /\ orders[o].status \in OrderStatus
          /\ orders'[o] \in Row /\ orders'[o].status \in OrderStatus
          /\ CanTransition(orders[o], orders'[o].status)
          /\ orders'[o].sync_failed_from = RestorePoint(orders[o], orders'[o].status)
          /\ orders' = [orders EXCEPT ![o] = orders'[o]]
      BY <1>4, CommitFacts
    <2>2. RowFit(orders[o])
      BY <2>1 DEF FreshInv, RowsFit
    <2> HIDE DEF o
    <2>3. /\ Lives' = [Lives EXCEPT ![o] = LifeOf(orders'[o])]
          /\ Lives[o] = LifeOf(orders[o])
      BY <1>2, <2>1
    <2>4. CASE orders'[o].status = orders[o].status
      <3>1. orders'[o].sync_failed_from = orders[o].sync_failed_from
        BY <2>1, <2>4 DEF RestorePoint
      <3>2. LifeOf(orders'[o]) = Lives[o]
        BY <2>3, <2>4, <3>1 DEF LifeOf
      <3>3. QED
        BY <2>3, <3>2 DEF Lives
    <2>5. CASE orders'[o].status # orders[o].status
      <3>1. \/ Advances(Lives[o], LifeOf(orders'[o])) \/ Suspends(Lives[o], LifeOf(orders'[o]))
            \/ Continues(Lives[o], LifeOf(orders'[o])) \/ Cancels(Lives[o], LifeOf(orders'[o]))
        BY <2>1, <2>2, <2>3, <2>5, MoveOfLife
      <3>2. Advances(Lives[o], LifeOf(orders'[o])) => Lifecycle!Advance(o)
        BY <2>1, <2>3, AdvanceOfLife
      <3>3. Suspends(Lives[o], LifeOf(orders'[o])) => Lifecycle!Suspend(o)
        BY <2>3 DEF Suspends, Lifecycle!Suspend, Lifecycle!Shipped
      <3>4. Continues(Lives[o], LifeOf(orders'[o])) => Lifecycle!Continue(o)
        BY <2>3 DEF Continues, Lifecycle!Continue
      <3>5. Cancels(Lives[o], LifeOf(orders'[o])) => Lifecycle!Cancel(o)
        BY <2>3 DEF Cancels, Lifecycle!Cancel, Lifecycle!Shipped
      <3>6. QED
        BY <2>1, <3>1, <3>2, <3>3, <3>4, <3>5 DEF Lifecycle!Next
    <2>6. QED
      BY <2>4, <2>5
  <1>5. QED
    BY <1>1, <1>3, <1>4, FreshStep

\* Until a COMMIT meets another row than was loaded, Core keeps what it promises of an
\* order: one stage at a time and never back, a failed synchronisation continues where
\* it was suspended, and a shipped order is not cancelled.
THEOREM KeepsOrderLifecycle == Spec => ImplementsLifecycle
  <1>1. Init => Lifecycle!Init
    BY DEF Init, Lifecycle!Init, Lives, LifeOf, NoRow, Stage
  <1>2. QED
    BY <1>1, LifeStep, FreshInvariance, PTL DEF Spec, ImplementsLifecycle
=============================================================================
