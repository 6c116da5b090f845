--------------------------- MODULE JobLifecycle ---------------------------
(***************************************************************************)
(* What the idempotency store promises of a key, with the sessions, the    *)
(* clock and the processes left out: the execution of a key is claimed by  *)
(* one caller at a time and at most MaxAttempts times before it is either  *)
(* done or dead; done is for ever; an operator may give the rest a fresh   *)
(* budget.                                                                 *)
(***************************************************************************)
EXTENDS Naturals

CONSTANTS Key, MaxAttempts

VARIABLES phase,    \* key -> where its execution stands
          claims    \* key -> claims of the current budget

Phase == {"new", "running", "backoff", "done", "dead"}

Init ==
  /\ phase = [k \in Key |-> "new"]
  /\ claims = [k \in Key |-> 0]

Claim(k) ==
  /\ phase[k] \in {"new", "backoff"}
  /\ claims[k] < MaxAttempts
  /\ phase' = [phase EXCEPT ![k] = "running"]
  /\ claims' = [claims EXCEPT ![k] = @ + 1]

Finish(k, outcome) ==
  /\ phase[k] = "running"
  /\ outcome = "backoff" => claims[k] < MaxAttempts
  /\ phase' = [phase EXCEPT ![k] = outcome]
  /\ UNCHANGED claims

Reopen(k) ==
  /\ phase[k] \in {"backoff", "dead"}
  /\ phase' = [phase EXCEPT ![k] = "backoff"]
  /\ claims' = [claims EXCEPT ![k] = 0]

Next ==
  \E k \in Key :
    \/ Claim(k)
    \/ \E outcome \in {"done", "backoff", "dead"} : Finish(k, outcome)
    \/ Reopen(k)

Spec == Init /\ [][Next]_<<phase, claims>>
=============================================================================
