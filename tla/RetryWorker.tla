---------------------------- MODULE RetryWorker ----------------------------
(***************************************************************************)
(* RetryWorker.run_retries (retry.py) on a job store that other processes  *)
(* use at the same time: a round lists the failed jobs that are due and    *)
(* dispatches them one after the other.                                    *)
(*                                                                         *)
(* A row whose key cannot be parsed raises a ValueError, which the round   *)
(* survives.  A row whose command type the dispatcher does not know raises *)
(* an IntegrationError, which it does not.  The SELECT of the round has no *)
(* ORDER BY, so that the rows come in any order; its limit, which no       *)
(* caller gives, is left out.                                              *)
(***************************************************************************)
EXTENDS SyncJobs

CONSTANTS Retrier,      \* the process that runs the rounds
          Setups,       \* what keys the table may have, and which of them have a task
          MaxUpsets     \* bound: operator retries and deaths together

\* segments: key -> how many dot-separated segments it has;
\* registered: the keys whose command type has a task.
ASSUME SetupAssumption ==
  /\ Retrier \in Proc
  /\ Setups \subseteq [segments : [Key -> Nat], registered : SUBSET Key]
  /\ MaxUpsets \in Nat

VARIABLES setup,    \* which of the setups it is
          round,    \* keys listed in this round and not yet dispatched
          orphaned  \* history: keys whose executor has died

sweep == <<vars, setup, round, orphaned>>

\* What p has begun is the execution of k.
Executing(p, k) ==
  task[p].key = k /\ task[p].pc \notin {"idle", "insert", "retrying"}

SweepInit == Init /\ setup \in Setups /\ round = {} /\ orphaned = {}

-----------------------------------------------------------------------------
(* run_retries *)

\* list_jobs(due_only=True).
List ==
  /\ At(Retrier, "idle") /\ round = {}
  /\ round' = {k \in Key : IsListed(jobs[k])}
  /\ UNCHANGED <<vars, setup, orphaned>>

IsTurn(k) == At(Retrier, "idle") /\ k \in round

(* Operators named M_... are faulty variants of the definition that follows
   them, as a slip of the code would have it; no specification uses them. *)

M_CanParseShorter(k) == setup.segments[k] < 4

\* IdempotencyKey.parse: scope, entity, action and a source_id without a dot.
CanParse(k) == setup.segments[k] = 4

\* The command rebuilt from the row carries the payload of the row.  begin() has
\* the last word on whether the job is still due.
Dispatch(k) ==
  /\ IsTurn(k) /\ CanParse(k) /\ k \in setup.registered
  /\ \/ Begin(Retrier, k, jobs[k].payload_hash)
     \/ /\ BeginReply(jobs[k], jobs[k].payload_hash) \notin {"insert", "resume"}
        /\ UNCHANGED vars
  /\ round' = round \ {k}
  /\ UNCHANGED <<setup, orphaned>>

\* ValueError: the row is logged and passed over.
Skip(k) ==
  /\ IsTurn(k) /\ ~CanParse(k)
  /\ round' = round \ {k}
  /\ UNCHANGED <<vars, setup, orphaned>>

\* IntegrationError: nobody catches it and the rest of the round is lost.
Unknown(k) ==
  /\ IsTurn(k) /\ CanParse(k) /\ k \notin setup.registered
  /\ round' = {}
  /\ UNCHANGED <<vars, setup, orphaned>>

-----------------------------------------------------------------------------
(* the job store under the round, and the other processes *)

Execute(p) == Proceed(p) /\ UNCHANGED <<setup, round, orphaned>>

Pass(k) == Elapse(k) /\ UNCHANGED <<setup, round, orphaned>>

\* Another worker begins a task, or an operator retries a job.
Others(p) ==
  /\ p # Retrier
  /\ \E k \in Key : \/ retries + crashes < MaxUpsets /\ RetryLoad(p, k)
                    \/ \E h \in Payload : Begin(p, k, h)
  /\ UNCHANGED <<setup, round, orphaned>>

\* A process dies, or an exception other than an IntegrationError leaves
\* execute(); the round goes on if it is a ValueError.
Die(p) ==
  /\ retries + crashes < MaxUpsets
  /\ Crash(p)
  /\ orphaned' = orphaned \cup {k \in Key : Executing(p, k)}
  /\ round' \in IF p = Retrier THEN {{}, round} ELSE {round}
  /\ UNCHANGED setup

-----------------------------------------------------------------------------

Turn(k) == Dispatch(k) \/ Skip(k) \/ Unknown(k)

SweepNext ==
  \/ List
  \/ \E k \in Key : Turn(k) \/ Pass(k)
  \/ \E p \in Proc : Execute(p) \/ Others(p) \/ Die(p)

\* What is begun is finished (every call has a timeout), time passes, and a round
\* goes through its rows.
SweepFairness ==
  /\ \A p \in Proc : WF_sweep(Execute(p))
  /\ \A k \in Key : WF_sweep(Pass(k))
  /\ WF_sweep(\E k \in Key : Turn(k))

FairSweep == SweepInit /\ [][SweepNext]_sweep /\ SweepFairness

\* An assumption about the deployment and none about the code, for no command of
\* the repository starts a RetryWorker: somebody calls run_retries again and
\* again, whether it has raised or not.
Swept == WF_sweep(List)

-----------------------------------------------------------------------------
(* Properties *)

\* The process that was executing the job died, and nobody else has it.
Stranded(k) ==
  /\ k \in orphaned
  /\ jobs[k].status = "running"
  /\ \A p \in Proc : ~Executing(p, k)

\* Failed without a time for the retry, which list_jobs passes over.
Unlisted(k) == jobs[k].status = "failed" /\ jobs[k].next_retry_at = "none"

\* The round cannot dispatch the job, whose source_id has a dot or whose command
\* type is unknown.
ForOperator(k) == setup.segments[k] # 4 \/ k \notin setup.registered

\* Sooner or later no row is due any more that ends the round it is in.
RoundsEnd ==
  <>[](\A k \in Key \ setup.registered : CanParse(k) => ~IsListed(jobs[k]))

\* If run_retries is called again and again, every job that was started is
\* completed or dead-lettered in the end, whoever else executes it, resets it or
\* dies: unless the round cannot dispatch it, its executor died, its retry has lost
\* its time, or rows of unknown command types keep ending the rounds.
SettledIfSwept ==
  Swept /\ RoundsEnd =>
    \A k \in Key :
      jobs[k].status \in {"running", "failed"} /\ ~ForOperator(k)
        ~> jobs[k].status \in {"completed", "dead"} \/ Stranded(k) \/ Unlisted(k)

=============================================================================
