----------------------------- MODULE SyncJobs -----------------------------
(***************************************************************************)
(* The idempotency store of the integration layer (sync_jobs.py) as the    *)
(* processes that share it use it: the polling workers, the retry worker   *)
(* and the operator's command line all run SyncTask.execute(command),      *)
(* which calls begin(), the handler, and then commit() or mark_failed().   *)
(*                                                                         *)
(* Every method opens its own session, SELECTs the row without a lock and  *)
(* COMMITs later, so a read and the write that follows from it are two     *)
(* steps.  Time passes on its own (Elapse).  A process may die between any *)
(* two steps, or leave execute() through an exception that is not an       *)
(* IntegrationError: Crash covers both.                                    *)
(***************************************************************************)
EXTENDS SyncJobTable

CONSTANTS Key,          \* idempotency keys
          Proc,         \* processes that execute sync tasks
          MaxRetries,   \* bound: operator retries explored
          MaxCrashes    \* bound: deaths of a process in the middle of a task

ASSUME BoundAssumption == MaxRetries \in Nat /\ MaxCrashes \in Nat

VARIABLES jobs,     \* the table: key -> row
          task,     \* what each process is doing
          applied,  \* history: the handler's external effect has happened for this key
          calls,    \* history: handler calls since the key's attempts were last reset
          retries,  \* history: operator retries so far
          crashes,  \* history: crashes so far
          contended \* history: keys that two tasks have had at once

vars == <<jobs, task, applied, calls, retries, crashes, contended>>

\* The point each process has reached in execute() or retry():
\*   insert, resume        begin() has read the row and is about to write it
\*   handle                begin() answered "new", the handler runs
\*   commit, fail          the handler has returned or raised
\*   committing, failing   commit() or mark_failed() has read the row
\*   retrying              retry() has read the row
Point == {"idle", "insert", "resume", "handle", "commit", "committing",
          "fail", "failing", "retrying"}

Task == [ pc : Point, key : Key \cup {Null}, payload : Payload \cup {Null},
          loaded : Job, outcome : Result \cup BOOLEAN \cup {Null} ]

Idle == [ pc |-> "idle", key |-> Null, payload |-> Null,
          loaded |-> NoJob, outcome |-> Null ]

At(p, point) == task[p].pc = point

Become(p, t) == task' = [task EXCEPT ![p] = t]

Init ==
  /\ jobs = [k \in Key |-> NoJob]
  /\ task = [p \in Proc |-> Idle]
  /\ applied = [k \in Key |-> FALSE]
  /\ calls = [k \in Key |-> 0]
  /\ retries = 0
  /\ crashes = 0
  /\ contended = {}

-----------------------------------------------------------------------------
(* begin() *)

\* A task has the key from the SELECT of begin() or retry() to its end.
Has(p, k) == ~At(p, "idle") /\ task[p].key = k

Take(k) ==
  contended' = contended \cup {q \in {k} : \E p \in Proc : Has(p, q)}

\* The SELECT of begin().  The other replies end the task and change nothing.
Begin(p, k, h) ==
  /\ At(p, "idle")
  /\ BeginReply(jobs[k], h) \in {"insert", "resume"}
  /\ Become(p, [Idle EXCEPT !.pc = BeginReply(jobs[k], h), !.key = k, !.payload = h])
  /\ Take(k)
  /\ UNCHANGED <<jobs, applied, calls, retries, crashes>>

M_InsertOrReplace(p) ==
  /\ At(p, "insert")
  /\ jobs' = [jobs EXCEPT ![task[p].key] = NewJob(task[p].payload)]
  /\ Become(p, [task[p] EXCEPT !.pc = "handle"])
  /\ UNCHANGED <<applied, calls, retries, crashes, contended>>

\* The unique index admits one INSERT of a key; the IntegrityError of the
\* others is nobody's to catch and ends the task.
Insert(p) ==
  LET k == task[p].key IN
  /\ At(p, "insert")
  /\ IF jobs[k].status = "absent"
       THEN /\ jobs' = [jobs EXCEPT ![k] = NewJob(task[p].payload)]
            /\ Become(p, [task[p] EXCEPT !.pc = "handle"])
       ELSE /\ Become(p, Idle)
            /\ UNCHANGED jobs
  /\ UNCHANGED <<applied, calls, retries, crashes, contended>>

\* UPDATE ... SET status = 'running': the row may have changed since it was read.
Resume(p) ==
  /\ At(p, "resume")
  /\ jobs' = [jobs EXCEPT ![task[p].key].status = "running"]
  /\ Become(p, [task[p] EXCEPT !.pc = "handle"])
  /\ UNCHANGED <<applied, calls, retries, crashes, contended>>

-----------------------------------------------------------------------------
(* the handler: one call to Core or Odoo *)

Called(k) == calls' = [calls EXCEPT ![k] = @ + 1]

HandleReturns(p) ==
  LET k == task[p].key IN
  /\ At(p, "handle")
  /\ \E r \in Result : Become(p, [task[p] EXCEPT !.pc = "commit", !.outcome = r])
  /\ applied' = [applied EXCEPT ![k] = TRUE]
  /\ Called(k)
  /\ UNCHANGED <<jobs, retries, crashes, contended>>

\* The outcome is whether the error is retryable: the upstream timed out or
\* failed, perhaps after it had applied the call, or it rejected the call.
HandleRaises(p) ==
  LET k == task[p].key IN
  /\ At(p, "handle")
  /\ \E retryable, reached \in BOOLEAN :
       /\ reached => retryable
       /\ Become(p, [task[p] EXCEPT !.pc = "fail", !.outcome = retryable])
       /\ applied' = [applied EXCEPT ![k] = @ \/ reached]
  /\ Called(k)
  /\ UNCHANGED <<jobs, retries, crashes, contended>>

-----------------------------------------------------------------------------
(* commit(), mark_failed() and retry(): SELECT, then UPDATE *)

Load(p, from, to) ==
  /\ At(p, from)
  /\ Become(p, [task[p] EXCEPT !.pc = to, !.loaded = jobs[task[p].key]])
  /\ UNCHANGED <<jobs, applied, calls, retries, crashes, contended>>

Store(p, new) ==
  /\ jobs' = [jobs EXCEPT ![task[p].key] = Flush(@, task[p].loaded, new)]
  /\ Become(p, Idle)

CommitLoad(p) == Load(p, "commit", "committing")

CommitStore(p) ==
  /\ At(p, "committing")
  /\ Store(p, CommitJob(task[p].loaded, task[p].outcome))
  /\ UNCHANGED <<applied, calls, retries, crashes, contended>>

FailLoad(p) == Load(p, "fail", "failing")

FailStore(p) ==
  /\ At(p, "failing")
  /\ Store(p, FailJob(task[p].loaded, task[p].outcome))
  /\ UNCHANGED <<applied, calls, retries, crashes, contended>>

\* retry() refuses every other status with a ValueError.
RetryLoad(p, k) ==
  /\ At(p, "idle")
  /\ CanRetry(jobs[k])
  /\ retries < MaxRetries
  /\ Become(p, [Idle EXCEPT !.pc = "retrying", !.key = k, !.loaded = jobs[k],
                            !.payload = jobs[k].payload_hash])
  /\ retries' = retries + 1
  /\ Take(k)
  /\ UNCHANGED <<jobs, applied, calls, crashes>>

RetryStore(p) ==
  /\ At(p, "retrying")
  /\ Store(p, RetryJob(task[p].loaded))
  /\ calls' = [calls EXCEPT ![task[p].key] = 0]
  /\ UNCHANGED <<applied, retries, crashes, contended>>

-----------------------------------------------------------------------------
(* the environment *)

Elapse(k) ==
  /\ jobs[k].next_retry_at = "waiting"
  /\ jobs' = [jobs EXCEPT ![k].next_retry_at = "due"]
  /\ UNCHANGED <<task, applied, calls, retries, crashes, contended>>

Crash(p) ==
  /\ ~At(p, "idle")
  /\ crashes < MaxCrashes
  /\ Become(p, Idle)
  /\ crashes' = crashes + 1
  /\ UNCHANGED <<jobs, applied, calls, retries, contended>>

-----------------------------------------------------------------------------

\* The rest of execute() once begin() has read the row, and of retry().
Proceed(p) ==
  \/ Insert(p) \/ Resume(p)
  \/ HandleReturns(p) \/ HandleRaises(p)
  \/ CommitLoad(p) \/ CommitStore(p)
  \/ FailLoad(p) \/ FailStore(p)
  \/ RetryStore(p)

Next ==
  \/ \E p \in Proc : Proceed(p) \/ Crash(p)
  \/ \E p \in Proc, k \in Key, h \in Payload : Begin(p, k, h)
  \/ \E p \in Proc, k \in Key : RetryLoad(p, k)
  \/ \E k \in Key : Elapse(k)

Spec == Init /\ [][Next]_vars

-----------------------------------------------------------------------------
(* Properties of any number of processes *)

\* Every row and every task is well formed; a task that has begun has a key.
TypeOK ==
  /\ jobs \in [Key -> Job]
  /\ task \in [Proc -> Task]
  /\ applied \in [Key -> BOOLEAN]
  /\ calls \in [Key -> Nat]
  /\ retries \in Nat
  /\ crashes \in Nat
  /\ contended \subseteq Key
  /\ \A p \in Proc : ~At(p, "idle") => task[p].key \in Key

\* Whoever runs the handler of a key runs it with the payload the key was first
\* used with (the hash check of begin(), against racing inserts and retries).
PayloadBinding ==
  \A p \in Proc : task[p].pc \notin {"idle", "insert"} =>
    /\ jobs[task[p].key].status # "absent"
    /\ jobs[task[p].key].payload_hash = task[p].payload

\* A key is reported completed only after the effect has really happened, and
\* then carries the result that later callers are answered with, whatever stale
\* writes of other processes come in between.
CompletedIsApplied ==
  \A k \in Key : jobs[k].status = "completed" => applied[k] /\ jobs[k].result # Null

\* The first call of a key has no rival, however many processes find the table
\* empty at once: only a failure or an operator lets a second one in.
FirstCallAlone ==
  \A p, q \in Proc :
    /\ At(p, "handle") /\ At(q, "handle") /\ task[p].key = task[q].key
    /\ calls[task[p].key] = 0 /\ retries = 0
    => p = q

-----------------------------------------------------------------------------
(* Properties of the keys that one task has had at a time, whichever process ran
   it: begin() and retry() do not keep two apart, and overlapping tasks break them *)

\* The handler of a key is called at most max_attempts times between two
\* operator retries, crashes included.
RetryBudget == \A k \in Key \ contended : calls[k] <= MaxAttempts

\* The table implements the promise of JobLifecycle as long as no two tasks have a
\* key at once: the attempts recorded plus the one under way are the claims of the
\* current budget.
PhaseOf(job) ==
  CASE job.status = "absent"    -> "new"
    [] job.status = "failed"    -> "backoff"
    [] job.status = "completed" -> "done"
    [] OTHER                    -> job.status

ClaimsOf(job) ==
  job.attempts + (IF job.status \in {"running", "completed"} THEN 1 ELSE 0)

Phases == [k \in Key |-> PhaseOf(jobs[k])]

Claims == [k \in Key |-> ClaimsOf(jobs[k])]

Lifecycle == INSTANCE JobLifecycle WITH phase <- Phases, claims <- Claims

ImplementsLifecycle ==
  Lifecycle!Init /\ [][contended' = {} => Lifecycle!Next]_<<Phases, Claims>>

\* As long as that is so, the table keeps what the in-memory store keeps, which
\* knows a failed job only as a key that is free again (sync_jobs.py: "the same
\* semantics").
EntryOf(job) ==
  IF job.status \in {"running", "completed"}
    THEN [status |-> job.status, payload_hash |-> job.payload_hash, result |-> job.result]
    ELSE [status |-> "absent", payload_hash |-> Null, result |-> Null]

Entries == [k \in Key |-> EntryOf(jobs[k])]

Memory == INSTANCE MemoryStore WITH entries <- Entries

ImplementsMemory ==
  Memory!Init /\ [][contended' = {} => Memory!Next]_Entries
=============================================================================
