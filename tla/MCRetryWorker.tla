--------------------------- MODULE MCRetryWorker ---------------------------
(* RetryWorker and one other process on two keys. *)
EXTENDS RetryWorker

\* The dispatcher has no task for the command type of one key.
OneForeign ==
  [segments |-> [k \in Key |-> 4], registered |-> {"own"}]

\* One key has a dot in its source_id.
OneDotted ==
  [segments |-> [k \in Key |-> IF k = "own" THEN 4 ELSE 5], registered |-> Key]

EitherSetup == {OneForeign, OneDotted}
=============================================================================
