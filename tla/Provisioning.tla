---------------------------- MODULE Provisioning ----------------------------
(***************************************************************************)
(* The three scripts an operator runs in `odoo shell` while Odoo serves:   *)
(* provision_odoo.py sets the database up, verify_odoo.py and              *)
(* verify_fulfillment.py check it with a demo order each.  A script is one *)
(* transaction of the database: it works on the snapshot it has seen       *)
(* first, and commits at its end or, when it raises or dies, not at all.   *)
(*                                                                         *)
(* The printed checks are left out, and what they read with them.          *)
(***************************************************************************)
EXTENDS Naturals

CONSTANTS Ref, Demo,    \* values of res.partner.ref, those of the demo partners
          Customer,     \* the demo partner the demo orders are made out to
          InitialQty    \* initial stock of the SKU

VARIABLES partners,     \* ref -> how many partners have it
          templates,    \* how many products have the SKU
          login,        \* whether the users have the configured password
          configured,   \* company, warehouse and the fields of all records are as they should
          stock,        \* units of the SKU on hand
          demo,         \* the demo order of each of the two checks
          script        \* the script that runs, and the snapshot it works on

Script == {"provision", "verify", "fulfill"}

DemoOrder == {"none", "empty", "open", "shipped"}

Snapshot == [partners : [Ref -> Nat], templates : Nat, configured : BOOLEAN,
             stock : Nat, demo : [{"verify", "fulfill"} -> DemoOrder]]

Running == [name : Script, seen : Snapshot]

NoScript == [name |-> "none"]

Init ==
  /\ configured = FALSE
  /\ stock = 0
  /\ demo = [s \in {"verify", "fulfill"} |-> "none"]
  /\ script = NoScript

Now == [partners |-> partners, templates |-> templates, configured |-> configured,
        stock |-> stock, demo |-> demo]

\* run.sh feeds the script to the shell; its first query takes the snapshot.
Run(s) ==
  /\ script = NoScript
  /\ script' = [name |-> s, seen |-> Now]
  /\ UNCHANGED <<partners, templates, login, configured, stock, demo>>

\* The script raises, is killed, or its COMMIT is refused.
Abort ==
  /\ script # NoScript
  /\ script' = NoScript
  /\ UNCHANGED <<partners, templates, login, configured, stock, demo>>

Ends(s) == script.name = s /\ script' = NoScript

-----------------------------------------------------------------------------
(* provision_odoo.py *)

(* Operators named M_... are faulty variants of the definition that follows
   them, as a slip of the code would have it; no specification uses them. *)

M_RefillsToInitial(seen) == seen.stock < InitialQty

\* set_initial_stock skips a product of which there is anything on hand.
Refills(seen) == seen.stock = 0

\* get_or_create of the partners, ensure_storable_product.
MissingRefs(seen) == {r \in Demo : seen.partners[r] = 0}

MissingProduct(seen) == seen.templates = 0

\* Company, warehouse and users, and the fields of all records it has seen; what
\* others have created since may lack some.
Configure(seen) ==
  /\ configured' \in IF partners = seen.partners /\ templates = seen.templates
                       THEN {TRUE}
                       ELSE IF seen.configured THEN {configured} ELSE BOOLEAN
  /\ login' = TRUE

\* The script raises if it finds the SKU twice.
Provision ==
  LET seen == script.seen IN
  /\ Ends("provision")
  /\ seen.templates <= 1
  /\ partners' = [r \in Ref |-> IF r \in MissingRefs(seen) THEN partners[r] + 1 ELSE partners[r]]
  /\ templates' = IF MissingProduct(seen) THEN templates + 1 ELSE templates
  /\ stock' = IF Refills(seen) THEN InitialQty ELSE stock
  /\ Configure(seen)
  /\ UNCHANGED demo

-----------------------------------------------------------------------------
(* verify_odoo.py and verify_fulfillment.py *)

\* The demo order of a check is made once, in whatever state it is.
Due(seen, s) == seen.demo[s] = "none"

\* PostgreSQL refuses a COMMIT that changes quants changed since the snapshot.
StockUntouched == stock = script.seen.stock

\* SO-DEMO-001 of whatever products there are, confirmed, which reserves stock;
\* without a customer its creation raises.
Verify ==
  LET seen == script.seen IN
  /\ Ends("verify")
  /\ IF Due(seen, "verify")
       THEN /\ seen.partners[Customer] > 0
            /\ seen.templates > 0 => StockUntouched
            /\ demo' = [demo EXCEPT !["verify"] =
                          IF seen.templates = 0 THEN "empty" ELSE "open"]
       ELSE UNCHANGED demo
  /\ UNCHANGED <<partners, templates, login, configured, stock>>

DueToShip(seen) ==
  Due(seen, "fulfill") /\ seen.partners[Customer] = 1 /\ seen.templates = 1

\* SO-DEMO-SHIP-001 is created, confirmed and shipped, all or nothing: Odoo does
\* not validate a delivery of nothing.  A customer or a product that is missing
\* fails the check, one that is ambiguous raises.
Fulfill ==
  LET seen == script.seen IN
  /\ Ends("fulfill")
  /\ seen.partners[Customer] <= 1 /\ seen.templates <= 1
  /\ IF DueToShip(seen)
       THEN /\ seen.stock > 0 /\ StockUntouched
            /\ stock' = stock - 1
            /\ demo' = [demo EXCEPT !["fulfill"] = "shipped"]
       ELSE UNCHANGED <<stock, demo>>
  /\ UNCHANGED <<partners, templates, login, configured>>

-----------------------------------------------------------------------------

\* The warehouse ships units of other orders.
Consume ==
  /\ stock > 0
  /\ stock' = stock - 1
  /\ UNCHANGED <<partners, templates, login, configured, demo, script>>

Complete == Provision \/ Verify \/ Fulfill

ScriptOK ==
  /\ configured \in BOOLEAN
  /\ stock \in 0..InitialQty
  /\ demo \in [{"verify", "fulfill"} -> DemoOrder]
  /\ script \in {NoScript} \cup Running
=============================================================================
