-------------------------- MODULE OrderLifecycle --------------------------
(***************************************************************************)
(* What Core promises of an order, without requests and tables: it moves   *)
(* one stage at a time from checkout (1) to completed (7) and never back;  *)
(* while it is with Odoo (2..5) it may be suspended by a failed            *)
(* synchronisation and then continues at the stage it was suspended in;    *)
(* it may be cancelled until it is shipped (6), and that is final.         *)
(***************************************************************************)
EXTENDS Naturals

CONSTANT Order

VARIABLE life       \* order -> its mode and stage; stage 0 before it is placed

Shipped == 6
Completed == 7

Life == [mode : {"active", "suspended"}, stage : 0..Completed]
          \cup {[mode |-> "cancelled", stage |-> 0]}

Init == life = [o \in Order |-> [mode |-> "active", stage |-> 0]]

Advance(o) ==
  /\ life[o].mode = "active"
  /\ life[o].stage < Completed
  /\ life' = [life EXCEPT ![o].stage = @ + 1]

Suspend(o) ==
  /\ life[o].mode = "active"
  /\ life[o].stage \in 2 .. (Shipped - 1)
  /\ life' = [life EXCEPT ![o].mode = "suspended"]

Continue(o) ==
  /\ life[o].mode = "suspended"
  /\ life' = [life EXCEPT ![o].mode = "active"]

Cancel(o) ==
  /\ life[o].mode = "active"
  /\ life[o].stage \in 1 .. (Shipped - 1)
  /\ life' = [life EXCEPT ![o] = [mode |-> "cancelled", stage |-> 0]]

Next == \E o \in Order : Advance(o) \/ Suspend(o) \/ Continue(o) \/ Cancel(o)

Spec == Init /\ [][Next]_life
=============================================================================
