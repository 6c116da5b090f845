------------------------- MODULE SyncJobTableProofs -------------------------
(***************************************************************************)
(* What the methods of the idempotency store make of a row, for every set  *)
(* of payloads and results and every retry limit: lemmas for the proofs    *)
(* about the processes that share the table.                               *)
(***************************************************************************)
EXTENDS SyncJobTable, TLAPS

-----------------------------------------------------------------------------
(* Rows stay well formed *)

LEMMA NoJobType == NoJob \in Job
  BY DEF NoJob, Job, JobStatus

LEMMA NewJobType ==
  ASSUME NEW h \in Payload PROVE NewJob(h) \in Job
  BY DEF NewJob, NoJob, Job, JobStatus

\* begin() takes a row up again; its clock runs out.
LEMMA ResumeType ==
  ASSUME NEW job \in Job PROVE [job EXCEPT !.status = "running"] \in Job
  BY DEF Job, JobStatus

LEMMA ElapseType ==
  ASSUME NEW job \in Job PROVE [job EXCEPT !.next_retry_at = "due"] \in Job
  BY DEF Job

LEMMA CommitJobType ==
  ASSUME NEW job \in Job, NEW r \in Result PROVE CommitJob(job, r) \in Job
  BY DEF CommitJob, Job, JobStatus

LEMMA FailJobType ==
  ASSUME NEW job \in Job, NEW e PROVE FailJob(job, e) \in Job
  <1> DEFINE n == job.attempts + 1
             exhausted == ~e \/ n >= MaxAttempts
  <1>1. n \in Nat
    BY DEF Job
  <1>2. CASE exhausted
    BY <1>1, <1>2 DEF FailJob, Job, JobStatus
  <1>3. CASE ~exhausted
    BY <1>1, <1>3 DEF FailJob, Job, JobStatus
  <1>4. QED
    BY <1>2, <1>3

LEMMA RetryJobType ==
  ASSUME NEW job \in Job PROVE RetryJob(job) \in Job
  BY DEF RetryJob, Job, JobStatus

LEMMA FlushType ==
  ASSUME NEW row \in Job, NEW loaded \in Job, NEW new \in Job
  PROVE  Flush(row, loaded, new) \in Job
  BY DEF Flush, Job

-----------------------------------------------------------------------------
(* What a method makes of a row *)

\* begin() answers "new" only for the payload the row holds; a row keeps its
\* payload and is never deleted.
LEMMA BeginChecksPayload ==
  ASSUME NEW job, NEW h, BeginReply(job, h) = "resume"
  PROVE  job.status # "absent" /\ job.payload_hash = h
  BY DEF BeginReply

LEMMA FlushKeepsPayload ==
  ASSUME NEW row \in Job, NEW loaded \in Job, NEW new \in Job,
         row.status # "absent", new.status # "absent"
  PROVE  /\ Flush(row, loaded, new).status # "absent"
         /\ Flush(row, loaded, new).payload_hash = row.payload_hash
  BY DEF Flush, Job

\* The status each of the closing methods leaves, and retry().
LEMMA StoredStatus ==
  ASSUME NEW job \in Job, NEW x
  PROVE  /\ CommitJob(job, x).status = "completed"
         /\ FailJob(job, x).status \in {"failed", "dead"}
         /\ RetryJob(job).status = "failed"
  BY DEF CommitJob, FailJob, RetryJob, Job
=============================================================================
