----------------------------- MODULE Retailers -----------------------------
(***************************************************************************)
(* The retailers of Core (services/retailers.py): their registration and   *)
(* their review by operators, each review a request that loads the         *)
(* retailer and commits later.  Of the domain events only                  *)
(* retailer.approved is kept.  (record_odoo_partner is in OrderExport.)    *)
(***************************************************************************)

CONSTANTS Retailer,   \* retailers, each with an e-mail address of its own
          Reviewer    \* reviews under way at once

VARIABLES retailers,  \* retailer -> status
          review,     \* what each reviewer is about to commit
          welcomed    \* outbox: retailers whose approval was announced

registry == <<retailers, review, welcomed>>

RetailerStatus == {"pending", "approved", "rejected", "suspended"}

RETAILER_TRANSITIONS ==
  [ pending   |-> {"approved", "rejected"},
    approved  |-> {"suspended"},
    suspended |-> {"approved"},
    rejected  |-> {} ]

Verdict == {"approved", "rejected"}

NoReview == [open |-> FALSE]

Review == {NoReview}
  \cup [open : {TRUE}, retailer : Retailer, loaded : RetailerStatus, target : Verdict]

Init ==
  /\ retailers = [r \in Retailer |-> "absent"]
  /\ review = [v \in Reviewer |-> NoReview]
  /\ welcomed = {}

\* An e-mail address is registered once; the second request is answered 409.
Register(r) ==
  /\ retailers[r] = "absent"
  /\ retailers' = [retailers EXCEPT ![r] = "pending"]
  /\ UNCHANGED <<review, welcomed>>

\* The API offers approve and reject; repeating a verdict is accepted.
Allowed(r, target) ==
  target = retailers[r] \/ target \in RETAILER_TRANSITIONS[retailers[r]]

ReviewRetailer(v, r, target) ==
  /\ ~review[v].open
  /\ retailers[r] # "absent"
  /\ Allowed(r, target)
  /\ review' = [review EXCEPT ![v] = [open |-> TRUE, retailer |-> r,
                                      loaded |-> retailers[r], target |-> target]]
  /\ UNCHANGED <<retailers, welcomed>>

CommitReview(v) ==
  LET c == review[v] IN
  /\ c.open
  /\ retailers' = [retailers EXCEPT ![c.retailer] =
                     IF c.target # c.loaded THEN c.target ELSE @]
  /\ welcomed' = IF c.target = "approved" THEN welcomed \cup {c.retailer} ELSE welcomed
  /\ review' = [review EXCEPT ![v] = NoReview]

Next ==
  \/ \E r \in Retailer : Register(r)
  \/ \E v \in Reviewer :
       \/ \E r \in Retailer, target \in Verdict : ReviewRetailer(v, r, target)
       \/ CommitReview(v)

-----------------------------------------------------------------------------
(* Properties *)

\* Retailers and reviews are well formed.
TypeOK ==
  /\ retailers \in [Retailer -> RetailerStatus \cup {"absent"}]
  /\ review \in [Reviewer -> Review]
  /\ welcomed \subseteq Retailer
=============================================================================
