----------------------------- MODULE OdooSite -----------------------------
(***************************************************************************)
(* One Odoo database with everybody who creates records in it: the         *)
(* adapters of the workers and the provisioning scripts of the operator.   *)
(***************************************************************************)
EXTENDS OdooAdapter

CONSTANTS RefOf,        \* order -> the ref of its buyer's partner
          Demo,         \* refs of the demo partners
          Customer,     \* the one the demo orders are made out to
          InitialQty,   \* initial stock of the SKU
          MaxCalls,     \* bound: calls of the adapters' methods
          MaxFaults,    \* bound: requests that fail and processes that die
          MaxRuns       \* bound: runs of a script

ASSUME SiteAssumption ==
  /\ RefOf \in [Order -> Ref]
  /\ Demo \subseteq Ref /\ Customer \in Demo
  /\ InitialQty \in Nat \ {0}
  /\ Null \notin Order \cup Ref

ASSUME BoundAssumption == {MaxCalls, MaxFaults, MaxRuns} \subseteq Nat

SKU == "sku"

ASSUME KeyAssumption == SKU \notin Ref

VARIABLES configured, stock, demo, script,   \* see Provisioning
          raced,    \* history: keys two creations of which were under way at once
          used      \* history: how much of each bound is used

siteVars == <<configured, stock, demo, script>>
vars == <<adapterVars, siteVars, raced, used>>

Scripts == INSTANCE Provisioning

Bounds == [calls |-> MaxCalls, faults |-> MaxFaults, runs |-> MaxRuns]

Spend(bound) ==
  /\ used[bound] < Bounds[bound]
  /\ used' = [used EXCEPT ![bound] = @ + 1]

\* The keys that are to be unique: the refs of partners, and the SKU.
Key == Ref \cup {SKU}

RecordsOf(key) == IF key = SKU THEN templates ELSE partners[key]

Creates(creation, key) ==
  \/ creation.pc = "new_product" /\ key = SKU
  \/ creation.pc = "new_partner" /\ key = creation.ref

ScriptCreates(key) ==
  /\ script.name = "provision"
  /\ \/ key = SKU /\ Scripts!MissingProduct(script.seen)
     \/ key \in Scripts!MissingRefs(script.seen)

\* Everybody who has found no record of the key and is about to create one.
Creators(key) ==
  {<<"caller", c>> : c \in {d \in Caller : Creates(CreationOf(d), key)}}
    \cup {<<"late", creation>> : creation \in {l \in late : Creates(l, key)}}
    \cup {<<"script", s>> : s \in {t \in {"provision"} : ScriptCreates(key)}}

Racing(key) == \E a, b \in Creators(key) : a # b

Init ==
  /\ AdapterInit
  /\ Scripts!Init
  /\ raced = {}
  /\ used = [bound \in DOMAIN Bounds |-> 0]

\* Every step looks whether it has made two creators of a key.
Watch == raced' = raced \cup {key \in Key : Racing(key)'}

-----------------------------------------------------------------------------

\* The adapter creates products that are not storable, and partners without an
\* e-mail address when the command has none.
KeepsUp ==
  configured' \in
    IF templates' # templates THEN {FALSE}
    ELSE IF \E r \in Demo : partners'[r] # partners[r] THEN {configured, FALSE}
    ELSE {configured}

Adapter(c) ==
  \/ Step(c) /\ UNCHANGED used
  \/ StartProduct(c) /\ Spend("calls")
  \/ \E o \in Order : StartSale(c, o, RefOf[o]) /\ Spend("calls")
  \/ \E outcome \in Outcome : Fail(c, outcome) /\ Spend("faults")
  \/ Die(c) /\ Spend("faults")

Operator ==
  \/ Scripts!Complete /\ UNCHANGED used
  \/ \E s \in Scripts!Script : Scripts!Run(s) /\ Spend("runs")
  \/ Scripts!Abort /\ UNCHANGED used

Next ==
  /\ \/ /\ \/ \E c \in Caller : Adapter(c)
           \/ \E creation \in late : ServeLate(creation) /\ UNCHANGED used
        /\ KeepsUp
        /\ UNCHANGED <<stock, demo, script>>
     \/ /\ Operator \/ (Scripts!Consume /\ UNCHANGED used)
        /\ UNCHANGED <<sales, late, uid, call>>
  /\ Watch

Spec == Init /\ [][Next]_vars

-----------------------------------------------------------------------------
(* Properties *)

\* The database, the calls and the script are well formed, and the partners that
\* calls and sale orders name are partners that exist.
TypeOK ==
  /\ AdapterOK
  /\ Scripts!ScriptOK
  /\ raced \subseteq Key
  /\ used \in [DOMAIN Bounds -> Nat]

\* A retailer has one partner and the SKU one product, whatever calls fail, are
\* repeated or served late and however often the scripts run, as long as no two
\* creations of the record have been under way at the same time.
OneRecordPerKey == \A key \in Key \ raced : RecordsOf(key) <= 1

\* The state a script has found is the one it is to bring about.
TargetReached ==
  LET seen == script.seen IN
  CASE script.name = "provision" ->
         /\ \A r \in Demo : seen.partners[r] > 0
         /\ seen.templates = 1 /\ seen.configured /\ seen.stock > 0
    [] script.name = "verify" -> seen.demo["verify"] # "none"
    [] script.name = "fulfill" -> seen.demo["fulfill"] = "shipped"

\* A script that finds its work done changes nothing, whoever created the records
\* it finds and whatever the adapters do while it runs.
RerunChangesNothing ==
  [][script # Scripts!NoScript /\ script' = Scripts!NoScript /\ TargetReached
       => UNCHANGED <<odoo, login, configured, stock, demo>>]_vars

-----------------------------------------------------------------------------
(* Implementation of SaleOrderCalls *)

\* What a call looks like to a caller that knows of sale orders only.
PhaseOf(pc) ==
  CASE pc \in {"auth", "find"} -> "find"
    [] pc \in {"partner", "new_partner", "product", "new_sale"} -> "create"
    [] OTHER -> pc

AskOf(t) ==
  IF t.order = Null
    THEN [phase |-> "idle", order |-> Null, ref |-> Null, sale |-> 0]
    ELSE [phase |-> PhaseOf(t.pc), order |-> t.order, ref |-> t.ref, sale |-> t.sale]

Made == [o \in Order |-> [n \in DOMAIN sales[o] |-> sales[o][n].ref]]

Asks == [c \in Caller |-> AskOf(call[c])]

Pending == {[order |-> l.order, ref |-> l.ref] : l \in {m \in late : m.pc = "new_sale"}}

Calls == INSTANCE SaleOrderCalls WITH made <- Made, asks <- Asks, pending <- Pending

\* A call to create_sale_order finds the sale order of its order or creates one
\* for the partner it names; what is retried has perhaps been done, what is
\* refused for good has not.
ImplementsSaleCalls == Calls!Spec
=============================================================================
