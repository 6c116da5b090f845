------------------------- MODULE OrderStateMachine -------------------------
(***************************************************************************)
(* The order state machine of Core: the transition tables of               *)
(* models/state_machine.py and the methods of models/order.py that read    *)
(* them.  An order is a record with (at least) the fields "status" and     *)
(* "sync_failed_from", the restore point of an order in sync_failed.       *)
(***************************************************************************)

OrderStatus == { "draft", "submitted", "sent_to_odoo", "odoo_confirmed",
                 "inventory_reserved", "picking_ready", "shipped", "completed",
                 "cancelled", "sync_failed" }

\* The value NULL of the column sync_failed_from.
NoSource == "none"

ORDER_TRANSITIONS ==
  [ draft              |-> {"submitted", "cancelled"},
    submitted          |-> {"sent_to_odoo", "cancelled"},
    sent_to_odoo       |-> {"odoo_confirmed", "sync_failed", "cancelled"},
    odoo_confirmed     |-> {"inventory_reserved", "sync_failed", "cancelled"},
    inventory_reserved |-> {"picking_ready", "sync_failed", "cancelled"},
    picking_ready      |-> {"shipped", "sync_failed", "cancelled"},
    shipped            |-> {"completed"},
    completed          |-> {},
    cancelled          |-> {},
    sync_failed        |-> {} ]

\* The states an order in sync_failed may return to when it has no restore point.
ORDER_RESUMABLE_STATES ==
  {"sent_to_odoo", "odoo_confirmed", "inventory_reserved", "picking_ready"}

AllowedTransitions(order) ==
  IF order.status = "sync_failed"
    THEN IF order.sync_failed_from = NoSource
           THEN ORDER_RESUMABLE_STATES
           ELSE {order.sync_failed_from}
    ELSE ORDER_TRANSITIONS[order.status]

(* Operators named M_... are faulty variants of the definition that follows
   them, as a slip of the code would have it; no specification uses them. *)

M_CanTransitionAny(order, target) ==
  target = order.status \/ ORDER_TRANSITIONS[order.status] # {}

\* transition_to does not raise: the target is the current state or allowed.
CanTransition(order, target) ==
  target = order.status \/ target \in AllowedTransitions(order)

M_RestorePointForgotten(order, target) ==
  IF target # order.status THEN NoSource ELSE order.sync_failed_from

\* The value of sync_failed_from after a transition that does not raise.
RestorePoint(order, target) ==
  CASE target = order.status           -> order.sync_failed_from
    [] target # order.status /\ target = "sync_failed"        -> order.status
    [] target # order.status /\ order.status = "sync_failed"  -> NoSource
    [] OTHER                           -> order.sync_failed_from

\* The order after transition_to(target).
TransitionTo(order, target) ==
  [order EXCEPT !.status = target,
                !.sync_failed_from = RestorePoint(order, target)]
=============================================================================
