---------------------------- MODULE CoreOrders ----------------------------
(***************************************************************************)
(* The orders of Core (services/orders.py, models/order.py) as the         *)
(* requests that change them run: each request loads the order in its own  *)
(* session, decides on what it has loaded, and commits later.  There is no *)
(* row lock and no version column, so that a request that is served by     *)
(* another thread or process may commit in between; the UPDATE of a        *)
(* session writes only the attributes it has changed.                      *)
(***************************************************************************)
EXTENDS OrderStateMachine, Sequences, SequencesExt

CONSTANTS Order,        \* orders that may be placed
          Session,      \* requests under way at once
          SaleId,       \* Odoo sale order ids
          DeliveryId,   \* Odoo delivery ids
          WooId,        \* Woo order ids
          Null,         \* NULL of the id columns
          MaxEvents     \* bound: audit events of an order explored

ASSUME IdAssumption == Null \notin SaleId \cup DeliveryId \cup WooId
ASSUME EventsAssumption == MaxEvents \in Nat

VARIABLES orders,   \* the table: order -> row
          trail,    \* order_status_events: order -> events in commit order
          outbox,   \* order -> domain events published in commit order
          request,  \* what each session is about to commit
          stale     \* history: orders on which a session has committed that had
                    \* loaded another row than the one it found

vars == <<orders, trail, outbox, request, stale>>

\* A row; an order that was never placed has the status "absent".
Row == [ status             : OrderStatus \cup {"absent"},
         sync_failed_from   : OrderStatus \cup {NoSource},
         woo_order_id       : WooId \cup {Null},
         odoo_sale_order_id : SaleId \cup {Null},
         odoo_delivery_id   : DeliveryId \cup {Null} ]

NoRow == [ status |-> "absent", sync_failed_from |-> NoSource,
           woo_order_id |-> Null, odoo_sale_order_id |-> Null,
           odoo_delivery_id |-> Null ]

StatusEvent == [from : OrderStatus, to : OrderStatus]

DomainEvent == {"order_created", "order_status_changed"}

\* A session that has loaded and changed an order; publish says that the
\* handler also publishes order_status_changed when the status has changed.
Request == [open : {TRUE}, order : Order, loaded : Row, new : Row, publish : BOOLEAN]

NoRequest == [open |-> FALSE]

Init ==
  /\ orders = [o \in Order |-> NoRow]
  /\ trail = [o \in Order |-> <<>>]
  /\ outbox = [o \in Order |-> <<>>]
  /\ request = [s \in Session |-> NoRequest]
  /\ stale = {}

-----------------------------------------------------------------------------
(* place_order *)

(* Operators named M_... are faulty variants of the definition that follows
   them, as a slip of the code would have it; no specification uses them. *)

M_PlaceOrderUnflushed(o, woo) ==
  /\ orders[o].status = "absent"
  /\ orders' = [orders EXCEPT ![o] =
                  [NoRow EXCEPT !.status = "submitted", !.woo_order_id = woo]]
  /\ trail' = [trail EXCEPT ![o] = <<[from |-> NoRow.status, to |-> "submitted"]>>]
  /\ outbox' = [outbox EXCEPT ![o] = <<"order_created">>]
  /\ UNCHANGED <<request, stale>>

\* A valid cart becomes an order in one transaction: the row is inserted as a
\* draft, submitted, and announced.  (A cart with an unknown, unpublished or
\* mixed-currency product or below its minimum quantity changes nothing.)
PlaceOrder(o, woo) ==
  /\ orders[o].status = "absent"
  /\ orders' = [orders EXCEPT ![o] =
                  TransitionTo([NoRow EXCEPT !.status = "draft", !.woo_order_id = woo],
                               "submitted")]
  /\ trail' = [trail EXCEPT ![o] = <<[from |-> "draft", to |-> "submitted"]>>]
  /\ outbox' = [outbox EXCEPT ![o] = <<"order_created">>]
  /\ UNCHANGED <<request, stale>>

-----------------------------------------------------------------------------
(* The requests: what each makes of the row it loads, when it does not return
   early or answer 409. *)

\* get_order: an unknown order is answered 404.
Load(s, o) ==
  /\ ~request[s].open
  /\ orders[o].status # "absent"
  /\ Len(trail[o]) < MaxEvents

Prepare(s, o, new, publish) ==
  /\ request' = [request EXCEPT ![s] =
                   [open |-> TRUE, order |-> o, loaded |-> orders[o],
                    new |-> new, publish |-> publish]]
  /\ UNCHANGED <<orders, trail, outbox, stale>>

Given(id, old) == IF id = Null THEN old ELSE id

\* A repeated report (target = current status) keeps the status and still
\* writes the ids.
ReportFulfillment(s, o, target, sale, delivery) ==
  /\ Load(s, o)
  /\ CanTransition(orders[o], target)
  /\ Prepare(s, o,
          TransitionTo([orders[o] EXCEPT !.odoo_sale_order_id = Given(sale, @),
                                         !.odoo_delivery_id = Given(delivery, @)],
                       target),
          TRUE)

\* An order that is past sent_to_odoo keeps its status and takes the mapping.
RecordOdooSaleOrder(s, o, sale) ==
  /\ Load(s, o)
  /\ orders[o].odoo_sale_order_id = Null
  /\ LET mapped == [orders[o] EXCEPT !.odoo_sale_order_id = sale] IN
     Prepare(s, o,
          IF CanTransition(mapped, "sent_to_odoo")
            THEN TransitionTo(mapped, "sent_to_odoo") ELSE mapped,
          FALSE)

M_RecordWooOrderAgain(s, o, woo) ==
  /\ Load(s, o)
  /\ Prepare(s, o, [orders[o] EXCEPT !.woo_order_id = woo], FALSE)

RecordWooOrder(s, o, woo) ==
  /\ Load(s, o)
  /\ orders[o].woo_order_id = Null
  /\ Prepare(s, o, [orders[o] EXCEPT !.woo_order_id = woo], FALSE)

-----------------------------------------------------------------------------
(* COMMIT *)

M_ChangedAlways(r) == r.open

Changed(r) == r.new.status # r.loaded.status

\* The attributes the session has changed, over whatever the row holds by now.
Flush(row, r) ==
  [f \in DOMAIN row |-> IF r.new[f] # r.loaded[f] THEN r.new[f] ELSE row[f]]

\* The orders whose row somebody has changed between a load and the COMMIT.
Outdated(r) == IF orders[r.order] = r.loaded THEN stale ELSE stale \cup {r.order}

M_CommitLateOld(s) ==
  LET r == request[s]
      event == [from |-> r.new.status, to |-> r.new.status]
  IN
  /\ r.open
  /\ orders' = [orders EXCEPT ![r.order] = Flush(@, r)]
  /\ trail' = [trail EXCEPT ![r.order] = IF Changed(r) THEN Append(@, event) ELSE @]
  /\ outbox' = [outbox EXCEPT ![r.order] =
                  IF Changed(r) /\ r.publish THEN Append(@, "order_status_changed") ELSE @]
  /\ request' = [request EXCEPT ![s] = NoRequest]
  /\ stale' = Outdated(r)

Commit(s) ==
  LET r == request[s]
      event == [from |-> r.loaded.status, to |-> r.new.status]
  IN
  /\ r.open
  /\ orders' = [orders EXCEPT ![r.order] = Flush(@, r)]
  /\ trail' = [trail EXCEPT ![r.order] = IF Changed(r) THEN Append(@, event) ELSE @]
  /\ outbox' = [outbox EXCEPT ![r.order] =
                  IF Changed(r) /\ r.publish THEN Append(@, "order_status_changed") ELSE @]
  /\ request' = [request EXCEPT ![s] = NoRequest]
  /\ stale' = Outdated(r)

\* The process is stopped, or its connection lost, before the COMMIT.
Abandon(s) ==
  /\ request[s].open
  /\ request' = [request EXCEPT ![s] = NoRequest]
  /\ UNCHANGED <<orders, trail, outbox, stale>>

Next ==
  \/ \E o \in Order, woo \in WooId \cup {Null} : PlaceOrder(o, woo)
  \/ \E s \in Session, o \in Order :
       \/ \E target \in OrderStatus, sale \in SaleId \cup {Null},
             delivery \in DeliveryId \cup {Null} :
            ReportFulfillment(s, o, target, sale, delivery)
       \/ \E sale \in SaleId : RecordOdooSaleOrder(s, o, sale)
       \/ \E woo \in WooId : RecordWooOrder(s, o, woo)
  \/ \E s \in Session : Commit(s) \/ Abandon(s)

Spec == Init /\ [][Next]_vars

-----------------------------------------------------------------------------
(* Properties of any number of overlapping requests *)

\* Rows, audit events, domain events and open requests are well formed.
TypeOK ==
  /\ orders \in [Order -> Row]
  /\ trail \in [Order -> Seq(StatusEvent)]
  /\ outbox \in [Order -> Seq(DomainEvent)]
  /\ request \in [Session -> Request \cup {NoRequest}]
  /\ stale \subseteq Order

\* The audit trail always ends where the order is, whoever committed last.
TrailEndsAtStatus ==
  \A o \in Order :
    IF orders[o].status = "absent"
      THEN trail[o] = <<>>
      ELSE trail[o] # <<>> /\ Last(trail[o]).to = orders[o].status

\* No request, however stale what it decided on, records a transition that the
\* state machine does not have.
LegalEvents ==
  \A o \in Order : \A i \in DOMAIN trail[o] :
    LET e == trail[o][i] IN
    IF e.from = "sync_failed" THEN e.to \in ORDER_RESUMABLE_STATES
                              ELSE e.to \in ORDER_TRANSITIONS[e.from]

-----------------------------------------------------------------------------
(* Properties of the orders on which every session has committed what it made of
   the row it found: with overlapping requests, those are not all of them *)

\* The audit trail is one unbroken path through the state machine.
TrailIsPath ==
  \A o \in Order \ stale : \A i \in 1 .. Len(trail[o]) - 1 :
    trail[o][i].to = trail[o][i + 1].from

\* A mapping to a Woo order is never replaced, one to an Odoo sale order only by
\* a fulfillment report that names another.
MappingsKept ==
  [][\A o \in Order \ stale' :
       /\ orders[o].woo_order_id # Null
            => orders'[o].woo_order_id = orders[o].woo_order_id
       /\ orders[o].odoo_sale_order_id \notin {Null, orders'[o].odoo_sale_order_id}
            => \E s \in Session : request[s].open /\ request[s].publish]_vars

Stage(status) ==
  CASE status = "submitted"          -> 1
    [] status = "sent_to_odoo"       -> 2
    [] status = "odoo_confirmed"     -> 3
    [] status = "inventory_reserved" -> 4
    [] status = "picking_ready"      -> 5
    [] status = "shipped"            -> 6
    [] status = "completed"          -> 7
    [] OTHER                         -> 0

LifeOf(row) ==
  IF row.status = "cancelled" THEN [mode |-> "cancelled", stage |-> 0]
  ELSE IF row.status = "sync_failed"
    THEN [mode |-> "suspended", stage |-> Stage(row.sync_failed_from)]
    ELSE [mode |-> "active", stage |-> Stage(row.status)]

Lives == [o \in Order |-> LifeOf(orders[o])]

Lifecycle == INSTANCE OrderLifecycle WITH life <- Lives

\* Core keeps every promise of OrderLifecycle until a session commits on a row
\* that another has changed since it was loaded, and in that COMMIT it may not.
ImplementsLifecycle ==
  Lifecycle!Init /\ [][stale' = {} => Lifecycle!Next]_Lives

-----------------------------------------------------------------------------
(* What the documentation says, and overlapping requests break *)

\* A shipped order cannot be cancelled and never moves back.
ShippedIsFinal ==
  [][\A o \in Order : orders[o].status \in {"shipped", "completed"}
       => orders'[o].status \in {"shipped", "completed"}]_vars
=============================================================================
