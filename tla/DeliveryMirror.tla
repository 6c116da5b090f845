-------------------------- MODULE DeliveryMirror --------------------------
(***************************************************************************)
(* What the fulfillment synchronisation promises, without polls, jobs and  *)
(* retries: Core shows for each exported order a rung of the ladder        *)
(* exported (0), confirmed (1), reserved (2), ready (3), shipped (4).  It  *)
(* climbs one rung at a time and only as far as the delivery in Odoo has   *)
(* come, and drops the order only after Odoo has cancelled the delivery    *)
(* of an order Core does not show as shipped.                              *)
(***************************************************************************)
EXTENDS Naturals

CONSTANT Order

VARIABLES picked,    \* order -> rung the delivery has come to in Odoo
          shown,     \* order -> rung Core shows
          called_off,\* orders whose delivery Odoo has cancelled
          dropped    \* orders Core shows as cancelled

Shipped == 4

Init ==
  /\ picked = [o \in Order |-> 0]
  /\ shown = [o \in Order |-> 0]
  /\ called_off = {}
  /\ dropped = {}

Progress(o, rung) ==
  /\ o \notin called_off
  /\ rung \in (picked[o] + 1) .. Shipped
  /\ picked' = [picked EXCEPT ![o] = rung]
  /\ UNCHANGED <<shown, called_off, dropped>>

CallOff(o) ==
  /\ picked[o] < Shipped
  /\ called_off' = called_off \cup {o}
  /\ UNCHANGED <<picked, shown, dropped>>

Climb(o) ==
  /\ o \notin dropped
  /\ shown[o] < picked[o]
  /\ shown' = [shown EXCEPT ![o] = @ + 1]
  /\ UNCHANGED <<picked, called_off, dropped>>

Drop(o) ==
  /\ o \in called_off
  /\ shown[o] < Shipped
  /\ dropped' = dropped \cup {o}
  /\ shown' = [shown EXCEPT ![o] = 0]
  /\ UNCHANGED <<picked, called_off>>

Next ==
  \E o \in Order :
    \/ \E rung \in 1 .. Shipped : Progress(o, rung)
    \/ CallOff(o) \/ Climb(o) \/ Drop(o)

Spec == Init /\ [][Next]_<<picked, shown, called_off, dropped>>
=============================================================================
