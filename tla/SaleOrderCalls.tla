-------------------------- MODULE SaleOrderCalls --------------------------
(***************************************************************************)
(* What create_sale_order of the Odoo adapter promises its callers, with   *)
(* partners, products, sessions and the single calls to Odoo left out: a   *)
(* call finds the sale order of its order or creates one, made out to the  *)
(* partner it names; it may fail after it has created the sale order, but  *)
(* a call that is refused for good has created none; a call that Odoo      *)
(* serves after its caller has given up creates one, too.                  *)
(***************************************************************************)
EXTENDS Naturals, Sequences

CONSTANTS Caller, Order, Ref, Null

VARIABLES made,     \* order -> the refs its sale orders are made out to
          asks,     \* what each caller is asking for
          pending   \* creations on their way that nobody waits for

Phase == {"find", "create", "answered", "failed", "rejected"}

Idle == [phase |-> "idle", order |-> Null, ref |-> Null, sale |-> 0]

Init ==
  /\ made = [o \in Order |-> <<>>]
  /\ asks = [c \in Caller |-> Idle]
  /\ pending = {}

Start(c) ==
  /\ asks[c] = Idle
  /\ \E o \in Order, r \in Ref :
       asks' = [asks EXCEPT ![c] = [phase |-> "find", order |-> o, ref |-> r, sale |-> 0]]
  /\ UNCHANGED <<made, pending>>

Move(c, phase) == asks' = [asks EXCEPT ![c].phase = phase]

Answer(c, n) == asks' = [asks EXCEPT ![c].phase = "answered", ![c].sale = n]

Find(c) ==
  LET o == asks[c].order IN
  /\ asks[c].phase = "find"
  /\ IF made[o] = <<>>
       THEN Move(c, "create")
       ELSE \E n \in DOMAIN made[o] : Answer(c, n)
  /\ UNCHANGED <<made, pending>>

Make(o, r) == made' = [made EXCEPT ![o] = Append(@, r)]

Create(c) ==
  LET o == asks[c].order IN
  /\ asks[c].phase = "create"
  /\ Make(o, asks[c].ref)
  /\ Answer(c, Len(made[o]) + 1)
  /\ UNCHANGED pending

\* What has become of the creation a caller asked for and did not hear of.
Lost(c) ==
  \/ UNCHANGED <<made, pending>>
  \/ /\ asks[c].phase = "create"
     /\ Make(asks[c].order, asks[c].ref)
     /\ UNCHANGED pending
  \/ /\ asks[c].phase = "create"
     /\ pending' = pending \cup {[order |-> asks[c].order, ref |-> asks[c].ref]}
     /\ UNCHANGED made

Fail(c) ==
  /\ asks[c].phase \in {"find", "create"}
  /\ Move(c, "failed")
  /\ Lost(c)

Reject(c) ==
  /\ asks[c].phase \in {"find", "create"}
  /\ Move(c, "rejected")
  /\ UNCHANGED <<made, pending>>

ServeLate(call) ==
  /\ Make(call.order, call.ref)
  /\ pending' \in {pending, pending \ {call}}
  /\ UNCHANGED asks

Return(c) ==
  /\ asks[c].phase \in {"answered", "failed", "rejected"}
  /\ asks' = [asks EXCEPT ![c] = Idle]
  /\ UNCHANGED <<made, pending>>

Die(c) ==
  /\ asks' = [asks EXCEPT ![c] = Idle]
  /\ Lost(c)

Next ==
  \/ \E c \in Caller : Start(c) \/ Find(c) \/ Create(c) \/ Fail(c) \/ Reject(c)
                         \/ Return(c) \/ Die(c)
  \/ \E call \in pending : ServeLate(call)

Spec == Init /\ [][Next]_<<made, asks, pending>>
=============================================================================
