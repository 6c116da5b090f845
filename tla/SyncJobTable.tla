--------------------------- MODULE SyncJobTable ---------------------------
(***************************************************************************)
(* One row of the table sync_jobs of the integration layer, and what each  *)
(* method of SyncJobsStore makes of a row it has read.                     *)
(*                                                                         *)
(* next_retry_at is kept relative to the clock: "waiting" is a time still  *)
(* to come, "due" a time that has passed, "none" is NULL.  A key that has  *)
(* no row yet is a row with status "absent".  command_type and trace_id    *)
(* (copied, never branched on) and last_error (diagnostics) are left out.  *)
(***************************************************************************)
EXTENDS Naturals

CONSTANTS Payload,      \* payload hashes
          Result,       \* external-id maps a handler may return
          MaxAttempts,  \* RetryConfig.max_attempts
          Null          \* NULL in payload_hash and result

ASSUME MaxAttemptsAssumption == MaxAttempts \in Nat \ {0}
ASSUME NullAssumption == Null \notin Payload /\ Null \notin Result

JobStatus == {"absent", "running", "completed", "failed", "dead"}

Job == [ status        : JobStatus,
         payload_hash  : Payload \cup {Null},
         attempts      : Nat,
         next_retry_at : {"none", "waiting", "due"},
         result        : Result \cup {Null} ]

NoJob == [ status |-> "absent", payload_hash |-> Null, attempts |-> 0,
           next_retry_at |-> "none", result |-> Null ]

(* Operators named M_... are faulty variants of the definition that follows
   them, as a slip of the code would have it; no specification uses them. *)

M_NewJobPending(h) == [NoJob EXCEPT !.status = "pending", !.payload_hash = h]

\* The row begin() inserts for a new key.
NewJob(h) == [NoJob EXCEPT !.status = "running", !.payload_hash = h]

IsDue(job) == job.status = "failed" /\ job.next_retry_at # "waiting"

\* list_jobs(due_only), from which the retry worker takes its rows, passes over a
\* failed row whose next_retry_at is NULL.
IsListed(job) == job.status = "failed" /\ job.next_retry_at = "due"

M_BeginReplyAnyPayload(job, h) ==
  IF job.status = "absent" THEN "insert"
  ELSE IF IsDue(job) THEN "resume"
  ELSE IF job.status = "failed" THEN "deferred"
  ELSE job.status

M_BeginReplyDeadToo(job, h) ==
  IF job.status = "absent" THEN "insert"
  ELSE IF job.payload_hash # h THEN "conflict"
  ELSE IF IsDue(job) \/ job.status = "dead" THEN "resume"
  ELSE IF job.status = "failed" THEN "deferred"
  ELSE job.status

\* What begin() decides from the row it has read.  "insert" and "resume" are
\* followed by a COMMIT and then answered "new"; "conflict" is the raised
\* IdempotencyConflictError; the others are returned as they are.
BeginReply(job, h) ==
  IF job.status = "absent" THEN "insert"
  ELSE IF job.payload_hash # h THEN "conflict"
  ELSE IF IsDue(job) THEN "resume"
  ELSE IF job.status = "failed" THEN "deferred"
  ELSE job.status

\* The attributes of a loaded row as commit(), mark_failed() and retry() set them.
CommitJob(job, r) ==
  [job EXCEPT !.status = "completed", !.result = r, !.next_retry_at = "none"]

M_FailJobCloses(job, retryable) ==
  [job EXCEPT !.attempts = @ + 1,
              !.status = IF retryable /\ job.attempts + 1 < MaxAttempts
                           THEN "failed" ELSE "completed",
              !.next_retry_at = "waiting"]

M_FailJobOnceMore(job, retryable) ==
  LET n == job.attempts + 1
      exhausted == ~retryable \/ n > MaxAttempts
  IN  [job EXCEPT !.attempts = n,
                  !.status = IF exhausted THEN "dead" ELSE "failed",
                  !.next_retry_at = IF exhausted THEN "none" ELSE "waiting"]

FailJob(job, retryable) ==
  LET n == job.attempts + 1
      exhausted == ~retryable \/ n >= MaxAttempts
  IN  [job EXCEPT !.attempts = n,
                  !.status = IF exhausted THEN "dead" ELSE "failed",
                  !.next_retry_at = IF exhausted THEN "none" ELSE "waiting"]

M_CanRetryAny(job) == job.status # "absent"

CanRetry(job) == job.status \in {"failed", "dead"}

RetryJob(job) ==
  [job EXCEPT !.status = "failed", !.next_retry_at = "due", !.attempts = 0]

\* The UPDATE the session flushes: only the attributes whose value differs from
\* the loaded one are written, to whatever the row holds by then.  A time that
\* is set is a new timestamp, hence always written.
Stamped(new) == new.next_retry_at # "none"

Flush(row, loaded, new) ==
  [ status        |-> IF new.status # loaded.status THEN new.status ELSE row.status,
    payload_hash  |-> row.payload_hash,
    attempts      |-> IF new.attempts # loaded.attempts THEN new.attempts ELSE row.attempts,
    next_retry_at |-> IF Stamped(new) \/ loaded.next_retry_at # "none"
                        THEN new.next_retry_at ELSE row.next_retry_at,
    result        |-> IF new.result # loaded.result THEN new.result ELSE row.result ]
=============================================================================
