-------------------------- MODULE SyncJobsProofs --------------------------
(***************************************************************************)
(* What holds of the idempotency store for every set of keys, processes,   *)
(* payloads and results and every retry limit, with its proofs.            *)
(***************************************************************************)
EXTENDS SyncJobs, SyncJobTableProofs

-----------------------------------------------------------------------------
(* Type correctness *)

\* What commit() and mark_failed() are called with.
OutcomeOK ==
  \A p \in Proc :
    task[p].pc \in {"commit", "committing"} => task[p].outcome \in Result

TypeInv == TypeOK /\ OutcomeOK

LEMMA IdleIsTask == Idle \in Task
  BY NoJobType DEF Idle, Task, Point

\* The steps of begin() and retry() that only read.
LEMMA BeginType ==
  ASSUME TypeInv, NEW p \in Proc, NEW k \in Key, NEW h \in Payload, Begin(p, k, h)
  PROVE  TypeInv'
  <1>1. [Idle EXCEPT !.pc = BeginReply(jobs[k], h), !.key = k, !.payload = h] \in Task
    BY IdleIsTask DEF Begin, Task, Point, Idle
  <1>2. QED
    BY <1>1 DEF TypeInv, TypeOK, OutcomeOK, Begin, Take, Become, At, Idle

LEMMA RetryLoadType ==
  ASSUME TypeInv, NEW p \in Proc, NEW k \in Key, RetryLoad(p, k)
  PROVE  TypeInv'
  <1> DEFINE t == [Idle EXCEPT !.pc = "retrying", !.key = k, !.loaded = jobs[k],
                               !.payload = jobs[k].payload_hash]
  <1>1. jobs[k] \in Job
    BY DEF TypeInv, TypeOK
  <1>2. t \in Task /\ t.pc = "retrying" /\ t.key = k
    BY <1>1, IdleIsTask DEF Task, Point, Idle, Job
  <1>3. task' = [task EXCEPT ![p] = t]
    BY DEF RetryLoad, Become
  <1>4. QED
    BY <1>2, <1>3 DEF TypeInv, TypeOK, OutcomeOK, RetryLoad, Take, At

LEMMA LoadType ==
  ASSUME TypeInv, NEW p \in Proc,
         NEW from \in {"commit", "fail"}, NEW to \in {"committing", "failing"},
         to = "committing" => from = "commit", Load(p, from, to)
  PROVE  TypeInv'
  <1> DEFINE t == [task[p] EXCEPT !.pc = to, !.loaded = jobs[task[p].key]]
  <1>1. task[p] \in Task /\ task[p].key \in Key /\ jobs[task[p].key] \in Job
    BY DEF TypeInv, TypeOK, Load, At
  <1>2. t \in Task /\ t.pc = to /\ t.key = task[p].key /\ t.outcome = task[p].outcome
    BY <1>1 DEF Task, Point
  <1>3. task' = [task EXCEPT ![p] = t]
    BY DEF Load, Become
  <1>4. QED
    BY <1>1, <1>2, <1>3 DEF TypeInv, TypeOK, OutcomeOK, Load, At

LEMMA StoreType ==
  ASSUME TypeInv, NEW p \in Proc, ~At(p, "idle"), NEW new \in Job, Store(p, new),
         applied' = applied, calls' \in [Key -> Nat], UNCHANGED <<retries, crashes, contended>>
  PROVE  TypeInv'
  <1>1. task[p] \in Task /\ task[p].key \in Key
    BY DEF TypeInv, TypeOK
  <1>2. Flush(jobs[task[p].key], task[p].loaded, new) \in Job
    BY <1>1, FlushType DEF TypeInv, TypeOK, Task
  <1>3. jobs' \in [Key -> Job]
    BY <1>1, <1>2 DEF Store, TypeInv, TypeOK
  <1>4. QED
    BY <1>3, IdleIsTask DEF TypeInv, TypeOK, OutcomeOK, Store, Become, At, Idle

LEMMA HandleType ==
  ASSUME TypeInv, NEW p \in Proc, HandleReturns(p) \/ HandleRaises(p)
  PROVE  TypeInv'
  <1>1. task[p] \in Task /\ task[p].key \in Key
    BY DEF TypeInv, TypeOK, HandleReturns, HandleRaises, At
  <1>2. calls' \in [Key -> Nat]
    <2>1. calls' = [calls EXCEPT ![task[p].key] = calls[task[p].key] + 1]
      BY DEF HandleReturns, HandleRaises, Called
    <2>2. calls \in [Key -> Nat]
      BY DEF TypeInv, TypeOK
    <2>3. QED
      BY <1>1, <2>1, <2>2
  <1>3. CASE HandleReturns(p)
    <2>1. PICK r \in Result :
            task' = [task EXCEPT ![p] = [task[p] EXCEPT !.pc = "commit", !.outcome = r]]
      BY <1>3 DEF HandleReturns, Become
    <2>2. applied' \in [Key -> BOOLEAN]
      BY <1>1, <1>3 DEF TypeInv, TypeOK, HandleReturns
    <2>3. [task[p] EXCEPT !.pc = "commit", !.outcome = r] \in Task
      BY <1>1 DEF Task, Point
    <2>4. QED
      BY <1>1, <1>2, <1>3, <2>1, <2>2, <2>3
      DEF TypeInv, TypeOK, OutcomeOK, HandleReturns, At, Task
  <1>4. CASE HandleRaises(p)
    <2>1. PICK retryable \in BOOLEAN, reached \in BOOLEAN :
            /\ task' = [task EXCEPT ![p] =
                         [task[p] EXCEPT !.pc = "fail", !.outcome = retryable]]
            /\ applied' = [applied EXCEPT ![task[p].key] = @ \/ reached]
      BY <1>4 DEF HandleRaises, Become
    <2>2. applied' \in [Key -> BOOLEAN]
      BY <1>1, <2>1 DEF TypeInv, TypeOK
    <2>3. [task[p] EXCEPT !.pc = "fail", !.outcome = retryable] \in Task
      BY <1>1 DEF Task, Point
    <2>4. QED
      BY <1>1, <1>2, <1>4, <2>1, <2>2, <2>3
      DEF TypeInv, TypeOK, OutcomeOK, HandleRaises, At, Task
  <1>5. QED
    BY <1>3, <1>4

LEMMA TypeStep == TypeInv /\ [Next]_vars => TypeInv'
  <1> SUFFICES ASSUME TypeInv, [Next]_vars PROVE TypeInv'
    OBVIOUS
  <1>1. ASSUME NEW p \in Proc, Proceed(p) PROVE TypeInv'
    <2>1. task[p] \in Task
      BY DEF TypeInv, TypeOK
    <2>2. CASE Insert(p)
      <3>1. task[p].key \in Key /\ task[p].payload \in Payload \cup {Null}
        BY <2>1, <2>2 DEF TypeInv, TypeOK, Insert, At, Task
      <3>2. NewJob(task[p].payload) \in Job
        BY <3>1 DEF NewJob, NoJob, Job, JobStatus
      <3>3. [task[p] EXCEPT !.pc = "handle"] \in Task
        BY <2>1 DEF Task, Point
      <3>4. QED
        BY <2>1, <2>2, <3>1, <3>2, <3>3, IdleIsTask
        DEF TypeInv, TypeOK, OutcomeOK, Insert, Become, At, Task, Idle
    <2>3. CASE Resume(p)
      <3>1. task[p].key \in Key /\ jobs[task[p].key] \in Job
        BY <2>3 DEF TypeInv, TypeOK, Resume, At
      <3>2. [jobs[task[p].key] EXCEPT !.status = "running"] \in Job
        BY <3>1 DEF Job, JobStatus
      <3>3. [task[p] EXCEPT !.pc = "handle"] \in Task
        BY <2>1 DEF Task, Point
      <3>4. QED
        BY <2>1, <2>3, <3>1, <3>2, <3>3
        DEF TypeInv, TypeOK, OutcomeOK, Resume, Become, At, Task
    <2>4. CASE HandleReturns(p) \/ HandleRaises(p)
      BY <2>4, HandleType
    <2>5. CASE CommitLoad(p)
      BY <2>5, LoadType DEF CommitLoad
    <2>6. CASE CommitStore(p)
      <3>1. CommitJob(task[p].loaded, task[p].outcome) \in Job
        BY <2>1, <2>6, CommitJobType DEF Task, CommitStore, At, TypeInv, OutcomeOK
      <3>2. QED
        BY <2>6, <3>1, StoreType DEF CommitStore, At, TypeInv, TypeOK
    <2>7. CASE FailLoad(p)
      BY <2>7, LoadType DEF FailLoad
    <2>8. CASE FailStore(p)
      <3>1. FailJob(task[p].loaded, task[p].outcome) \in Job
        BY <2>1, FailJobType DEF Task
      <3>2. QED
        BY <2>8, <3>1, StoreType DEF FailStore, At, TypeInv, TypeOK
    <2>9. CASE RetryStore(p)
      <3>1. RetryJob(task[p].loaded) \in Job
        BY <2>1, RetryJobType DEF Task
      <3>2. calls' \in [Key -> Nat]
        BY <2>9 DEF RetryStore, At, TypeInv, TypeOK
      <3>3. QED
        BY <2>9, <3>1, <3>2, StoreType DEF RetryStore, At
    <2>10. QED
      BY <1>1, <2>2, <2>3, <2>4, <2>5, <2>6, <2>7, <2>8, <2>9 DEF Proceed
  <1>2. ASSUME NEW p \in Proc, Crash(p) PROVE TypeInv'
    BY <1>2, IdleIsTask DEF TypeInv, TypeOK, OutcomeOK, Crash, Become, At, Idle
  <1>3. ASSUME NEW k \in Key, Elapse(k) PROVE TypeInv'
    <2>1. [jobs[k] EXCEPT !.next_retry_at = "due"] \in Job
      BY DEF TypeInv, TypeOK, Job
    <2>2. QED
      BY <1>3, <2>1 DEF TypeInv, TypeOK, OutcomeOK, Elapse, At
  <1>4. CASE UNCHANGED vars
    BY <1>4 DEF vars, TypeInv, TypeOK, OutcomeOK, At
  <1>5. QED
    BY <1>1, <1>2, <1>3, <1>4, BeginType, RetryLoadType DEF Next

LEMMA TypeInvariance == Spec => []TypeInv
  <1>1. Init => TypeInv
    BY NoJobType, IdleIsTask DEF Init, TypeInv, TypeOK, OutcomeOK, At, Idle
  <1>2. QED
    BY <1>1, TypeStep, PTL DEF Spec

\* The rows, the tasks and the history stay well formed whatever the processes do.
THEOREM TypeCorrect == Spec => []TypeOK
  BY TypeInvariance, PTL DEF TypeInv

-----------------------------------------------------------------------------
(* The payload of an execution *)

\* A row that exists keeps its payload in every step.
LEMMA PayloadKept ==
  ASSUME TypeInv, PayloadBinding, [Next]_vars, NEW k \in Key, jobs[k].status # "absent"
  PROVE  jobs'[k].status # "absent" /\ jobs'[k].payload_hash = jobs[k].payload_hash
  <1>1. ASSUME NEW p \in Proc, NEW new \in Job, new.status # "absent", ~At(p, "idle"),
               Store(p, new)
        PROVE  jobs'[k].status # "absent" /\ jobs'[k].payload_hash = jobs[k].payload_hash
    <2>1. task[p].loaded \in Job /\ task[p].key \in Key /\ jobs[k] \in Job
      BY <1>1 DEF TypeInv, TypeOK, Task
    <2>2. jobs' = [jobs EXCEPT ![task[p].key] = Flush(jobs[task[p].key], task[p].loaded, new)]
      BY <1>1 DEF Store
    <2>3. CASE task[p].key = k
      BY <1>1, <2>1, <2>2, <2>3, FlushKeepsPayload DEF TypeInv, TypeOK
    <2>4. CASE task[p].key # k
      BY <2>2, <2>4 DEF TypeInv, TypeOK
    <2>5. QED
      BY <2>3, <2>4
  <1>2. ASSUME NEW p \in Proc, Proceed(p)
        PROVE  jobs'[k].status # "absent" /\ jobs'[k].payload_hash = jobs[k].payload_hash
    <2>1. task[p] \in Task /\ task[p].loaded \in Job
      BY DEF TypeInv, TypeOK, Task
    <2>2. CASE Insert(p)
      BY <2>2 DEF Insert, TypeInv, TypeOK
    <2>3. CASE Resume(p)
      BY <2>3 DEF Resume, TypeInv, TypeOK, Job
    <2>4. CASE CommitStore(p)
      <3>1. task[p].outcome \in Result
        BY <2>4 DEF TypeInv, OutcomeOK, CommitStore, At
      <3>2. QED
        BY <1>1, <2>1, <2>4, <3>1, CommitJobType, StoredStatus DEF CommitStore, At
    <2>5. CASE FailStore(p)
      BY <1>1, <2>1, <2>5, FailJobType, StoredStatus DEF FailStore, At
    <2>6. CASE RetryStore(p)
      BY <1>1, <2>1, <2>6, RetryJobType, StoredStatus DEF RetryStore, At
    <2>7. CASE UNCHANGED jobs
      BY <2>7
    <2>8. QED
      BY <1>2, <2>2, <2>3, <2>4, <2>5, <2>6, <2>7
      DEF Proceed, HandleReturns, HandleRaises, CommitLoad, FailLoad, Load
  <1>3. ASSUME NEW k2 \in Key, Elapse(k2)
        PROVE  jobs'[k].status # "absent" /\ jobs'[k].payload_hash = jobs[k].payload_hash
    BY <1>3 DEF Elapse, TypeInv, TypeOK, Job
  <1>4. CASE UNCHANGED jobs
    BY <1>4
  <1>5. QED
    BY <1>2, <1>3, <1>4 DEF Next, Crash, Begin, RetryLoad, vars

LEMMA PayloadStep == TypeInv /\ PayloadBinding /\ [Next]_vars => PayloadBinding'
  <1> SUFFICES ASSUME TypeInv, PayloadBinding, [Next]_vars,
                      NEW q \in Proc, task'[q].pc \notin {"idle", "insert"}
               PROVE  /\ jobs'[task'[q].key].status # "absent"
                      /\ jobs'[task'[q].key].payload_hash = task'[q].payload
    BY DEF PayloadBinding
  \* Every process that has got past the insert points at a row of its payload,
  \* and rows keep their payload.
  <1>1. ASSUME task[q].pc \notin {"idle", "insert"},
               task'[q].key = task[q].key, task'[q].payload = task[q].payload
        PROVE  /\ jobs'[task'[q].key].status # "absent"
               /\ jobs'[task'[q].key].payload_hash = task'[q].payload
    <2>1. task[q].key \in Key
      BY <1>1 DEF TypeInv, TypeOK, At
    <2>2. QED
      BY <1>1, <2>1, PayloadKept DEF PayloadBinding
  <1>2. ASSUME UNCHANGED task
        PROVE  /\ jobs'[task'[q].key].status # "absent"
               /\ jobs'[task'[q].key].payload_hash = task'[q].payload
    BY <1>1, <1>2
  <1>3. ASSUME NEW p \in Proc, Proceed(p)
        PROVE  /\ jobs'[task'[q].key].status # "absent"
               /\ jobs'[task'[q].key].payload_hash = task'[q].payload
    <2>1. CASE p # q
      <3>1. task'[q] = task[q]
        BY <1>3, <2>1
        DEF Proceed, Insert, Resume, HandleReturns, HandleRaises, CommitLoad, FailLoad, Load,
            CommitStore, FailStore, RetryStore, Store, Become, TypeInv, TypeOK
      <3>2. QED
        BY <1>1, <3>1
    <2>2. CASE p = q /\ Insert(p)
      <3>1. task[q] \in Task /\ task[q].key \in Key
        BY <2>2 DEF TypeInv, TypeOK, Insert, At
      <3>2. CASE jobs[task[q].key].status = "absent"
        <4>1. jobs'[task[q].key] = NewJob(task[q].payload)
          BY <2>2, <3>1, <3>2 DEF Insert, TypeInv, TypeOK
        <4>2. task'[q] = [task[q] EXCEPT !.pc = "handle"]
          BY <2>2, <3>1, <3>2 DEF Insert, Become, TypeInv, TypeOK
        <4>3. task'[q].key = task[q].key /\ task'[q].payload = task[q].payload
          BY <3>1, <4>2 DEF Task
        <4>4. QED
          BY <4>1, <4>3 DEF NewJob, NoJob
      <3>3. CASE jobs[task[q].key].status # "absent"
        BY <2>2, <3>3 DEF Insert, Become, Idle, TypeInv, TypeOK
      <3>4. QED
        BY <3>2, <3>3
    <2>3. CASE p = q /\ (CommitStore(p) \/ FailStore(p) \/ RetryStore(p))
      BY <2>3 DEF CommitStore, FailStore, RetryStore, Store, Become, Idle, TypeInv, TypeOK
    <2>4. CASE p = q /\ (Resume(p) \/ HandleReturns(p) \/ HandleRaises(p))
      <3>1. task[q] \in Task
        BY DEF TypeInv, TypeOK
      <3>2. task'[q].key = task[q].key /\ task'[q].payload = task[q].payload
        <4>1. CASE Resume(p)
          BY <2>4, <3>1, <4>1 DEF Resume, Become, Task, TypeInv, TypeOK
        <4>2. CASE HandleReturns(p)
          <5>1. PICK r \in Result :
                  task' = [task EXCEPT ![q] = [task[q] EXCEPT !.pc = "commit", !.outcome = r]]
            BY <2>4, <4>2 DEF HandleReturns, Become
          <5>2. QED
            BY <3>1, <5>1 DEF Task, TypeInv, TypeOK
        <4>3. CASE HandleRaises(p)
          <5>1. PICK e \in BOOLEAN :
                  task' = [task EXCEPT ![q] = [task[q] EXCEPT !.pc = "fail", !.outcome = e]]
            BY <2>4, <4>3 DEF HandleRaises, Become
          <5>2. QED
            BY <3>1, <5>1 DEF Task, TypeInv, TypeOK
        <4>4. QED
          BY <2>4, <4>1, <4>2, <4>3
      <3>3. task[q].pc \notin {"idle", "insert"}
        BY <2>4 DEF Resume, HandleReturns, HandleRaises, At
      <3>4. QED
        BY <1>1, <3>2, <3>3
    <2>5. CASE p = q /\ (CommitLoad(p) \/ FailLoad(p))
      <3>1. task[q] \in Task
        BY DEF TypeInv, TypeOK
      <3>2. task'[q].key = task[q].key /\ task'[q].payload = task[q].payload
        <4>1. PICK to \in {"committing", "failing"} :
                task' = [task EXCEPT ![q] =
                         [task[q] EXCEPT !.pc = to, !.loaded = jobs[task[q].key]]]
          BY <2>5 DEF CommitLoad, FailLoad, Load, Become
        <4>2. QED
          BY <3>1, <4>1 DEF Task, TypeInv, TypeOK
      <3>3. task[q].pc \notin {"idle", "insert"}
        BY <2>5 DEF CommitLoad, FailLoad, Load, At
      <3>4. QED
        BY <1>1, <3>2, <3>3
    <2>6. QED
      BY <1>3, <2>1, <2>2, <2>3, <2>4, <2>5 DEF Proceed
  <1>4. ASSUME NEW p \in Proc, Crash(p)
        PROVE  /\ jobs'[task'[q].key].status # "absent"
               /\ jobs'[task'[q].key].payload_hash = task'[q].payload
    <2>1. CASE p = q
      BY <1>4, <2>1 DEF Crash, Become, Idle, TypeInv, TypeOK
    <2>2. CASE p # q
      BY <1>1, <1>4, <2>2 DEF Crash, Become, TypeInv, TypeOK
    <2>3. QED
      BY <2>1, <2>2
  <1>5. ASSUME NEW p \in Proc, NEW k \in Key, NEW h \in Payload, Begin(p, k, h)
        PROVE  /\ jobs'[task'[q].key].status # "absent"
               /\ jobs'[task'[q].key].payload_hash = task'[q].payload
    <2>1. CASE p = q
      <3>1. /\ task'[q].pc = BeginReply(jobs[k], h)
            /\ task'[q].key = k /\ task'[q].payload = h
        BY <1>5, <2>1 DEF Begin, Become, Idle, TypeInv, TypeOK
      <3>2. BeginReply(jobs[k], h) = "resume"
        BY <1>5, <3>1 DEF Begin
      <3>3. QED
        BY <1>5, <3>1, <3>2, BeginChecksPayload DEF Begin
    <2>2. CASE p # q
      BY <1>1, <1>5, <2>2 DEF Begin, Become, TypeInv, TypeOK
    <2>3. QED
      BY <2>1, <2>2
  <1>6. ASSUME NEW p \in Proc, NEW k \in Key, RetryLoad(p, k)
        PROVE  /\ jobs'[task'[q].key].status # "absent"
               /\ jobs'[task'[q].key].payload_hash = task'[q].payload
    <2>1. CASE p = q
      BY <1>6, <2>1 DEF RetryLoad, CanRetry, Become, Idle, TypeInv, TypeOK
    <2>2. CASE p # q
      BY <1>1, <1>6, <2>2 DEF RetryLoad, Become, TypeInv, TypeOK
    <2>3. QED
      BY <2>1, <2>2
  <1>7. QED
    BY <1>2, <1>3, <1>4, <1>5, <1>6 DEF Next, Elapse, vars

\* Racing inserts, resumptions and operator retries never run the handler of a
\* key with a payload other than the one stored for it.
THEOREM PayloadBound == Spec => []PayloadBinding
  <1>1. Init => PayloadBinding
    BY DEF Init, PayloadBinding, Idle
  <1>2. QED
    BY <1>1, PayloadStep, TypeInvariance, PTL DEF Spec

-----------------------------------------------------------------------------
(* A completed key has had its effect *)

\* A process about to commit has had its call applied, and a result it has read
\* in the row is not taken back by anyone.
EffectInv ==
  \A p \in Proc :
    /\ task[p].pc \in {"commit", "committing"} => applied[task[p].key]
    /\ task[p].pc = "committing" /\ task[p].loaded.result # Null
         => jobs[task[p].key].result # Null

RealInv == TypeInv /\ PayloadBinding /\ EffectInv /\ CompletedIsApplied

LEMMA FlushCommit ==
  ASSUME NEW row \in Job, NEW loaded \in Job, NEW r \in Result,
         loaded.result # Null => row.result # Null
  PROVE  Flush(row, loaded, CommitJob(loaded, r)).result # Null
  <1>1. CommitJob(loaded, r).result = r
    BY DEF CommitJob, Job
  <1>2. r # Null
    BY NullAssumption
  <1>3. QED
    BY <1>1, <1>2 DEF Flush

LEMMA FlushOther ==
  ASSUME NEW row \in Job, NEW loaded \in Job, NEW x, NEW new,
         new = FailJob(loaded, x) \/ new = RetryJob(loaded)
  PROVE  /\ Flush(row, loaded, new).result = row.result
         /\ Flush(row, loaded, new).status = "completed" => row.status = "completed"
  <1>1. new.result = loaded.result /\ new.status # "completed"
    BY DEF FailJob, RetryJob, Job
  <1>2. QED
    BY <1>1 DEF Flush

\* What a step of the table does to a row with a result and to a completed row.
LEMMA ResultStep ==
  ASSUME RealInv, [Next]_vars, NEW k \in Key
  PROVE  /\ jobs[k].status # "absent" /\ jobs[k].result # Null => jobs'[k].result # Null
         /\ applied[k] => applied'[k]
         /\ jobs'[k].status = "completed" => applied'[k] /\ jobs'[k].result # Null
  <1> DEFINE Goal ==
        /\ jobs[k].status # "absent" /\ jobs[k].result # Null => jobs'[k].result # Null
        /\ applied[k] => applied'[k]
        /\ jobs'[k].status = "completed" => applied'[k] /\ jobs'[k].result # Null
  <1> USE DEF RealInv
  <1>1. /\ jobs \in [Key -> Job] /\ task \in [Proc -> Task] /\ applied \in [Key -> BOOLEAN]
        /\ jobs[k] \in Job
        /\ jobs[k].status = "completed" => applied[k] /\ jobs[k].result # Null
    BY DEF TypeInv, TypeOK, CompletedIsApplied
  <1>2. ASSUME UNCHANGED jobs, applied[k] => applied'[k] PROVE Goal
    BY <1>1, <1>2
  <1>3. ASSUME NEW p \in Proc, Proceed(p) PROVE Goal
    <2>1. task[p] \in Task /\ task[p].loaded \in Job
      BY <1>1 DEF Task
    <2>2. CASE Insert(p)
      <3>1. /\ applied' = applied
            /\ \/ UNCHANGED jobs
               \/ /\ jobs[task[p].key].status = "absent"
                  /\ jobs' = [jobs EXCEPT ![task[p].key] = NewJob(task[p].payload)]
        BY <2>2 DEF Insert
      <3>2. NewJob(task[p].payload).status = "running"
        BY DEF NewJob, NoJob
      <3>3. QED
        BY <1>1, <3>1, <3>2
    <2>3. CASE Resume(p)
      BY <1>1, <2>3 DEF Resume, Job
    <2>4. CASE HandleReturns(p)
      <3>1. applied' = [applied EXCEPT ![task[p].key] = TRUE]
        BY <2>4 DEF HandleReturns
      <3>2. applied[k] => applied'[k]
        BY <1>1, <3>1
      <3>3. QED
        BY <1>2, <2>4, <3>2 DEF HandleReturns
    <2>5. CASE HandleRaises(p)
      <3>1. PICK reached \in BOOLEAN :
              applied' = [applied EXCEPT ![task[p].key] = applied[task[p].key] \/ reached]
        BY <2>5 DEF HandleRaises
      <3>2. applied[k] => applied'[k]
        BY <1>1, <3>1
      <3>3. QED
        BY <1>2, <2>5, <3>2 DEF HandleRaises
    <2>6. CASE CommitStore(p)
      <3>1. /\ task[p].key \in Key /\ task[p].outcome \in Result /\ applied[task[p].key]
            /\ task[p].loaded.result # Null => jobs[task[p].key].result # Null
        BY <2>6 DEF CommitStore, At, TypeInv, TypeOK, OutcomeOK, EffectInv
      <3>2. jobs' = [jobs EXCEPT ![task[p].key] =
                       Flush(jobs[task[p].key], task[p].loaded,
                             CommitJob(task[p].loaded, task[p].outcome))]
        BY <2>6 DEF CommitStore, Store
      <3>3. CASE task[p].key = k
        BY <1>1, <2>1, <2>6, <3>1, <3>2, <3>3, FlushCommit DEF CommitStore
      <3>4. CASE task[p].key # k
        BY <1>1, <2>6, <3>2, <3>4 DEF CommitStore
      <3>5. QED
        BY <3>3, <3>4
    <2>7. CASE FailStore(p) \/ RetryStore(p)
      <3>1. PICK new : /\ new = FailJob(task[p].loaded, task[p].outcome)
                          \/ new = RetryJob(task[p].loaded)
                       /\ jobs' = [jobs EXCEPT ![task[p].key] =
                                      Flush(jobs[task[p].key], task[p].loaded, new)]
        BY <2>7 DEF FailStore, RetryStore, Store
      <3>2. applied' = applied
        BY <2>7 DEF FailStore, RetryStore
      <3>3. CASE task[p].key = k
        BY <1>1, <2>1, <3>1, <3>2, <3>3, FlushOther
      <3>4. CASE task[p].key # k
        BY <1>1, <3>1, <3>2, <3>4
      <3>5. QED
        BY <3>3, <3>4
    <2>8. CASE CommitLoad(p) \/ FailLoad(p)
      BY <1>2, <2>8 DEF CommitLoad, FailLoad, Load
    <2>9. QED
      BY <1>3, <2>2, <2>3, <2>4, <2>5, <2>6, <2>7, <2>8 DEF Proceed
  <1>4. ASSUME NEW k2 \in Key, Elapse(k2) PROVE Goal
    BY <1>1, <1>4 DEF Elapse, Job
  <1>5. QED
    BY <1>2, <1>3, <1>4 DEF Next, Crash, Begin, RetryLoad, vars

LEMMA EffectStep == RealInv /\ [Next]_vars => EffectInv'
  <1> SUFFICES ASSUME RealInv, [Next]_vars, NEW q \in Proc
               PROVE  /\ task'[q].pc \in {"commit", "committing"} => applied'[task'[q].key]
                      /\ task'[q].pc = "committing" /\ task'[q].loaded.result # Null
                           => jobs'[task'[q].key].result # Null
    BY DEF EffectInv
  <1> DEFINE Goal ==
        /\ task'[q].pc \in {"commit", "committing"} => applied'[task'[q].key]
        /\ task'[q].pc = "committing" /\ task'[q].loaded.result # Null
             => jobs'[task'[q].key].result # Null
  <1> USE DEF RealInv
  <1>1. task[q] \in Task /\ task \in [Proc -> Task]
    BY DEF TypeInv, TypeOK
  <1>2. ASSUME task'[q] = task[q] PROVE Goal
    <2>1. CASE task[q].pc \in {"commit", "committing"}
      <3>1. task[q].key \in Key /\ jobs[task[q].key].status # "absent"
        BY <2>1 DEF TypeInv, TypeOK, At, PayloadBinding
      <3>2. QED
        BY <1>2, <2>1, <3>1, ResultStep DEF EffectInv
    <2>2. QED
      BY <1>2, <2>1
  <1>3. ASSUME task'[q].pc \notin {"commit", "committing"} PROVE Goal
    BY <1>3
  <1>4. ASSUME NEW p \in Proc, Proceed(p) PROVE Goal
    <2>1. CASE p # q
      <3>1. task'[q] = task[q]
        BY <1>4, <2>1
        DEF Proceed, Insert, Resume, HandleReturns, HandleRaises, CommitLoad, FailLoad, Load,
            CommitStore, FailStore, RetryStore, Store, Become, TypeInv, TypeOK
      <3>2. QED
        BY <1>2, <3>1
    <2>2. CASE p = q /\ (Insert(p) \/ Resume(p))
      <3>1. task'[q].pc \in {"handle", "idle"}
        BY <1>1, <2>2 DEF Insert, Resume, Become, Idle, Task
      <3>2. QED
        BY <1>3, <3>1
    <2>3. CASE p = q /\ HandleRaises(p)
      <3>1. PICK e \in BOOLEAN :
              task' = [task EXCEPT ![q] = [task[q] EXCEPT !.pc = "fail", !.outcome = e]]
        BY <2>3 DEF HandleRaises, Become
      <3>2. task'[q].pc = "fail"
        BY <1>1, <3>1 DEF Task
      <3>3. QED
        BY <1>3, <3>2
    <2>4. CASE p = q /\ HandleReturns(p)
      <3>1. PICK r \in Result :
              task' = [task EXCEPT ![q] = [task[q] EXCEPT !.pc = "commit", !.outcome = r]]
        BY <2>4 DEF HandleReturns, Become
      <3>2. task'[q].pc = "commit" /\ task'[q].key = task[q].key /\ task[q].key \in Key
        BY <1>1, <2>4, <3>1 DEF Task, HandleReturns, At, TypeInv, TypeOK
      <3>3. applied'[task[q].key]
        BY <2>4, <3>2 DEF HandleReturns, TypeInv, TypeOK
      <3>4. QED
        BY <3>2, <3>3
    <2>5. CASE p = q /\ CommitLoad(p)
      <3>1. /\ task' = [task EXCEPT ![q] =
                          [task[q] EXCEPT !.pc = "committing", !.loaded = jobs[task[q].key]]]
            /\ UNCHANGED <<jobs, applied>>
            /\ task[q].pc = "commit"
        BY <2>5 DEF CommitLoad, Load, Become, At
      <3>2. task'[q].key = task[q].key /\ task'[q].loaded = jobs[task[q].key]
        BY <1>1, <3>1 DEF Task
      <3>3. applied[task[q].key]
        BY <3>1 DEF EffectInv
      <3>4. QED
        BY <3>1, <3>2, <3>3
    <2>6. CASE p = q /\ FailLoad(p)
      <3>1. task' = [task EXCEPT ![q] =
                       [task[q] EXCEPT !.pc = "failing", !.loaded = jobs[task[q].key]]]
        BY <2>6 DEF FailLoad, Load, Become
      <3>2. task'[q].pc = "failing"
        BY <1>1, <3>1 DEF Task
      <3>3. QED
        BY <1>3, <3>2
    <2>7. CASE p = q /\ (CommitStore(p) \/ FailStore(p) \/ RetryStore(p))
      <3>1. task'[q].pc = "idle"
        BY <1>1, <2>7
        DEF CommitStore, FailStore, RetryStore, Store, Become, Idle, TypeInv, TypeOK
      <3>2. QED
        BY <1>3, <3>1
    <2>8. QED
      BY <1>4, <2>1, <2>2, <2>3, <2>4, <2>5, <2>6, <2>7 DEF Proceed
  <1>5. ASSUME NEW p \in Proc, NEW t, t.pc \notin {"commit", "committing"}, Become(p, t)
        PROVE  Goal
    <2>1. CASE p = q
      BY <1>1, <1>3, <1>5, <2>1 DEF Become
    <2>2. CASE p # q
      BY <1>1, <1>2, <1>5, <2>2 DEF Become
    <2>3. QED
      BY <2>1, <2>2
  <1>6. ASSUME NEW p \in Proc, Crash(p) PROVE Goal
    BY <1>5, <1>6 DEF Crash, Idle
  <1>7. ASSUME NEW p \in Proc, NEW k \in Key, NEW h \in Payload, Begin(p, k, h) PROVE Goal
    <2> DEFINE t == [Idle EXCEPT !.pc = BeginReply(jobs[k], h), !.key = k, !.payload = h]
    <2>1. t.pc \notin {"commit", "committing"}
      BY <1>7 DEF Begin, Idle
    <2>2. Become(p, t)
      BY <1>7 DEF Begin
    <2>3. QED
      BY <1>5, <2>1, <2>2
  <1>8. ASSUME NEW p \in Proc, NEW k \in Key, RetryLoad(p, k) PROVE Goal
    <2> DEFINE t == [Idle EXCEPT !.pc = "retrying", !.key = k, !.loaded = jobs[k],
                                 !.payload = jobs[k].payload_hash]
    <2>1. t.pc \notin {"commit", "committing"}
      BY DEF Idle
    <2>2. Become(p, t)
      BY <1>8 DEF RetryLoad
    <2>3. QED
      BY <1>5, <2>1, <2>2
  <1>9. QED
    BY <1>2, <1>4, <1>6, <1>7, <1>8 DEF Next, Elapse, vars

\* Under every interleaving of stale reads and writes a job reported completed
\* has been applied and carries a result.
THEOREM CompletionIsReal == Spec => []CompletedIsApplied
  <1>1. Init => RealInv
    <2>1. Init => TypeInv /\ PayloadBinding
      BY NoJobType, IdleIsTask
      DEF Init, TypeInv, TypeOK, OutcomeOK, At, Idle, PayloadBinding
    <2>2. QED
      BY <2>1 DEF Init, RealInv, EffectInv, CompletedIsApplied, Idle, NoJob
  <1>2. RealInv /\ [Next]_vars => CompletedIsApplied'
    BY ResultStep DEF CompletedIsApplied
  <1>3. RealInv /\ [Next]_vars => RealInv'
    BY <1>2, TypeStep, PayloadStep, EffectStep DEF RealInv
  <1>4. QED
    BY <1>1, <1>3, PTL DEF Spec, RealInv


-----------------------------------------------------------------------------
(* The first call of a key has no rival *)

\* As long as no operator has retried anything and no call of a key has returned
\* or raised, its row is absent or running, nobody is beyond the handler with it,
\* and nobody is in the handler before the row is there.
UntriedInv ==
  retries = 0 =>
    /\ \A p \in Proc : ~At(p, "retrying")
    /\ \A k \in Key : calls[k] = 0 =>
         /\ jobs[k].status \in {"absent", "running"}
         /\ \A p \in Proc : task[p].key = k =>
              /\ task[p].pc \in {"idle", "insert", "handle"}
              /\ jobs[k].status = "absent" => ~At(p, "handle")

FirstInv == TypeInv /\ UntriedInv /\ FirstCallAlone

\* A step that leaves the table alone and takes its process to a point where it
\* holds no call of the key.
LEMMA FirstLeave ==
  ASSUME FirstInv, NEW p \in Proc, NEW t \in Task, t.pc # "handle", Become(p, t),
         jobs' = jobs, retries' = retries, NEW c \in [Key -> Nat], calls' = c,
         \A k \in Key : c[k] = 0 => calls[k] = 0,
         retries' = 0 => /\ t.pc # "retrying"
                         /\ \A k \in Key : c[k] = 0 /\ t.key = k
                              => t.pc \in {"idle", "insert", "handle"}
  PROVE  UntriedInv' /\ FirstCallAlone'
  <1>1. /\ task \in [Proc -> Task]
        /\ \A q \in Proc : task'[q] = IF q = p THEN t ELSE task[q]
    BY DEF FirstInv, TypeInv, TypeOK, Become
  <1>2. UntriedInv'
    BY <1>1 DEF FirstInv, UntriedInv, At
  <1>3. \A q \in Proc : task[q].pc = "handle" => task[q].key \in Key
    BY DEF FirstInv, TypeInv, TypeOK, At
  <1>4. FirstCallAlone'
    BY <1>1, <1>3 DEF FirstInv, FirstCallAlone, At
  <1>5. QED
    BY <1>2, <1>4

\* A write to the row of a key whose call has already returned or raised.
LEMMA FirstWrite ==
  ASSUME FirstInv, NEW p \in Proc, NEW t \in Task, NEW row,
         jobs' = [jobs EXCEPT ![task[p].key] = row], Become(p, t), t.pc # "retrying",
         retries' = retries, calls' = calls,
         retries = 0 => calls[task[p].key] # 0,
         t.key = task[p].key \/ t = Idle
  PROVE  UntriedInv' /\ FirstCallAlone'
  <1>1. /\ task \in [Proc -> Task] /\ jobs \in [Key -> Job]
        /\ \A q \in Proc : task'[q] = IF q = p THEN t ELSE task[q]
        /\ \A k \in Key : k # task[p].key => jobs'[k] = jobs[k]
    BY DEF FirstInv, TypeInv, TypeOK, Become
  <1>2. t = Idle => t.pc = "idle"
    BY DEF Idle
  <1>3. UntriedInv'
    BY <1>1, <1>2 DEF FirstInv, UntriedInv, At
  <1>4. \A q \in Proc : task[q].pc = "handle" => task[q].key \in Key
    BY DEF FirstInv, TypeInv, TypeOK, At
  <1>5. FirstCallAlone'
    BY <1>1, <1>2, <1>4 DEF FirstInv, FirstCallAlone, At
  <1>6. QED
    BY <1>3, <1>5

\* The INSERT admits one process to the handler, and no rival is there yet.
LEMMA FirstInsert ==
  ASSUME FirstInv, NEW p \in Proc, Insert(p)
  PROVE  UntriedInv' /\ FirstCallAlone'
  <1> DEFINE k0 == task[p].key
             t == [task[p] EXCEPT !.pc = "handle"]
  <1>1. /\ task \in [Proc -> Task] /\ jobs \in [Key -> Job] /\ task[p] \in Task /\ k0 \in Key
        /\ retries' = retries /\ calls' = calls /\ calls \in [Key -> Nat]
    BY DEF FirstInv, TypeInv, TypeOK, Insert, At
  <1>2. t \in Task /\ t.pc = "handle" /\ t.key = k0
    BY <1>1 DEF Task, Point
  <1>3. \A q \in Proc : task[q].pc = "handle" => task[q].key \in Key
    BY DEF FirstInv, TypeInv, TypeOK, At
  <1>4. CASE jobs[k0].status = "absent"
    <2>1. /\ jobs' = [jobs EXCEPT ![k0] = NewJob(task[p].payload)]
          /\ task' = [task EXCEPT ![p] = t]
      BY <1>4 DEF Insert, Become
    <2>2. NewJob(task[p].payload).status = "running"
      BY DEF NewJob, NoJob
    <2>3. /\ \A q \in Proc : task'[q] = IF q = p THEN t ELSE task[q]
          /\ \A k \in Key : jobs'[k] = IF k = k0 THEN NewJob(task[p].payload) ELSE jobs[k]
      BY <1>1, <2>1
    <2>4. retries = 0 /\ calls[k0] = 0 => \A q \in Proc : task[q].key = k0 => ~At(q, "handle")
      BY <1>1, <1>4 DEF FirstInv, UntriedInv
    <2> HIDE DEF t
    <2>5. UntriedInv'
      BY <1>1, <1>2, <2>2, <2>3 DEF FirstInv, UntriedInv, At
    <2>6. FirstCallAlone'
      BY <1>1, <1>2, <1>3, <2>3, <2>4 DEF FirstInv, FirstCallAlone, At
    <2>7. QED
      BY <2>5, <2>6
  <1>5. CASE jobs[k0].status # "absent"
    <2>1. UNCHANGED jobs /\ Become(p, Idle)
      BY <1>5 DEF Insert
    <2>2. Idle.pc = "idle"
      BY DEF Idle
    <2>3. QED
      BY <1>1, <2>1, <2>2, IdleIsTask, FirstLeave
  <1>6. QED
    BY <1>4, <1>5

LEMMA FirstHandled ==
  ASSUME FirstInv, NEW p \in Proc, HandleReturns(p) \/ HandleRaises(p)
  PROVE  UntriedInv' /\ FirstCallAlone'
  <1>0. /\ At(p, "handle") /\ Called(task[p].key)
        /\ jobs' = jobs /\ retries' = retries
    BY Zenon DEF HandleReturns, HandleRaises
  <1>1. task[p] \in Task /\ task[p].key \in Key /\ calls \in [Key -> Nat]
    BY <1>0 DEF FirstInv, TypeInv, TypeOK, At
  <1>2. /\ jobs' = jobs /\ retries' = retries
        /\ calls' = [calls EXCEPT ![task[p].key] = calls[task[p].key] + 1]
    BY <1>0 DEF Called
  <1>3. /\ calls' \in [Key -> Nat] /\ calls'[task[p].key] # 0
        /\ \A k \in Key : calls'[k] = 0 => calls[k] = 0
    BY <1>1, <1>2
  <1>4. ASSUME NEW t \in Task, Become(p, t), t.pc \in {"commit", "fail"}, t.key = task[p].key
        PROVE  UntriedInv' /\ FirstCallAlone'
    BY <1>2, <1>3, <1>4, FirstLeave
  <1>5. CASE HandleReturns(p)
    <2>1. PICK r \in Result :
            task' = [task EXCEPT ![p] = [task[p] EXCEPT !.pc = "commit", !.outcome = r]]
      BY <1>5, Zenon DEF HandleReturns, Become
    <2> DEFINE t == [task[p] EXCEPT !.pc = "commit", !.outcome = r]
    <2>2. t \in Task /\ t.pc = "commit" /\ t.key = task[p].key
      BY <1>1 DEF Task, Point
    <2>3. Become(p, t)
      BY <2>1 DEF Become
    <2> HIDE DEF t
    <2>4. QED
      BY <1>4, <2>2, <2>3
  <1>6. CASE HandleRaises(p)
    <2>1. PICK e \in BOOLEAN :
            task' = [task EXCEPT ![p] = [task[p] EXCEPT !.pc = "fail", !.outcome = e]]
      BY <1>6, Zenon DEF HandleRaises, Become
    <2> DEFINE t == [task[p] EXCEPT !.pc = "fail", !.outcome = e]
    <2>2. t \in Task /\ t.pc = "fail" /\ t.key = task[p].key
      BY <1>1 DEF Task, Point
    <2>3. Become(p, t)
      BY <2>1 DEF Become
    <2> HIDE DEF t
    <2>4. QED
      BY <1>4, <2>2, <2>3
  <1>7. QED
    BY <1>5, <1>6

\* Whoever is to write after the call of a key knows of a call.
LEMMA FirstClosers ==
  ASSUME FirstInv, NEW p \in Proc,
         task[p].pc \in {"resume", "commit", "committing", "fail", "failing"}
  PROVE  retries = 0 => calls[task[p].key] # 0
  BY DEF FirstInv, TypeInv, TypeOK, UntriedInv, At

LEMMA FirstStep == FirstInv /\ [Next]_vars => UntriedInv' /\ FirstCallAlone'
  <1> DEFINE Goal == UntriedInv' /\ FirstCallAlone'
  <1> SUFFICES ASSUME FirstInv, [Next]_vars PROVE Goal
    OBVIOUS
  <1>1. /\ task \in [Proc -> Task] /\ jobs \in [Key -> Job] /\ calls \in [Key -> Nat]
        /\ retries \in Nat
    BY DEF FirstInv, TypeInv, TypeOK
  <1>2. ASSUME NEW p \in Proc, Proceed(p) PROVE Goal
    <2>1. task[p] \in Task
      BY <1>1
    <2>2. CASE Insert(p)
      BY <2>2, FirstInsert
    <2>3. CASE Resume(p)
      <3>1. [task[p] EXCEPT !.pc = "handle"] \in Task
        BY <2>1 DEF Task, Point
      <3>2. /\ [task[p] EXCEPT !.pc = "handle"].pc # "retrying"
            /\ [task[p] EXCEPT !.pc = "handle"].key = task[p].key
        BY <2>1 DEF Task
      <3>3. /\ jobs' = [jobs EXCEPT ![task[p].key] = [jobs[task[p].key] EXCEPT !.status = "running"]]
            /\ Become(p, [task[p] EXCEPT !.pc = "handle"])
            /\ retries' = retries /\ calls' = calls /\ task[p].pc = "resume"
        BY <2>3 DEF Resume, At
      <3>4. QED
        BY <3>1, <3>2, <3>3, FirstClosers, FirstWrite
    <2>4. CASE HandleReturns(p) \/ HandleRaises(p)
      BY <2>4, FirstHandled
    <2>5. CASE CommitLoad(p) \/ FailLoad(p)
      <3>1. PICK to \in {"committing", "failing"} :
              /\ Become(p, [task[p] EXCEPT !.pc = to, !.loaded = jobs[task[p].key]])
              /\ task[p].pc \in {"commit", "fail"}
              /\ jobs' = jobs /\ retries' = retries /\ calls' = calls
        BY <2>5 DEF CommitLoad, FailLoad, Load, At
      <3>2. task[p].key \in Key
        BY <3>1 DEF FirstInv, TypeInv, TypeOK, At
      <3> DEFINE t == [task[p] EXCEPT !.pc = to, !.loaded = jobs[task[p].key]]
      <3>3. t \in Task /\ t.pc = to /\ t.key = task[p].key
        BY <1>1, <2>1, <3>2 DEF Task, Point
      <3>4. retries = 0 => calls[task[p].key] # 0
        BY <3>1, FirstClosers
      <3> HIDE DEF t
      <3>5. Become(p, t)
        BY <3>1 DEF t
      <3>6. QED
        BY <1>1, <3>1, <3>3, <3>4, <3>5, FirstLeave
    <2>6. CASE CommitStore(p) \/ FailStore(p)
      <3>1. PICK new :
              /\ jobs' = [jobs EXCEPT ![task[p].key] =
                             Flush(jobs[task[p].key], task[p].loaded, new)]
              /\ Become(p, Idle) /\ retries' = retries /\ calls' = calls
              /\ task[p].pc \in {"committing", "failing"}
        BY <2>6 DEF CommitStore, FailStore, Store, At
      <3>2. Idle.pc # "retrying"
        BY DEF Idle
      <3>3. QED
        BY <3>1, <3>2, IdleIsTask, FirstClosers, FirstWrite
    <2>7. CASE RetryStore(p)
      <3>1. retries' = retries /\ retries # 0
        BY <2>7 DEF RetryStore, FirstInv, UntriedInv
      <3>2. QED
        BY <3>1 DEF UntriedInv, FirstCallAlone
    <2>8. QED
      BY <1>2, <2>2, <2>3, <2>4, <2>5, <2>6, <2>7 DEF Proceed
  <1>3. ASSUME NEW p \in Proc, Crash(p) PROVE Goal
    <2>1. Idle.pc = "idle"
      BY DEF Idle
    <2>2. QED
      BY <1>1, <1>3, <2>1, IdleIsTask, FirstLeave DEF Crash
  <1>4. ASSUME NEW p \in Proc, NEW k \in Key, NEW h \in Payload, Begin(p, k, h) PROVE Goal
    <2> DEFINE t == [Idle EXCEPT !.pc = BeginReply(jobs[k], h), !.key = k, !.payload = h]
    <2>1. t \in Task /\ t.pc = BeginReply(jobs[k], h) /\ t.key = k
      BY <1>4, IdleIsTask DEF Begin, Task, Point, Idle
    <2>2. /\ Become(p, t) /\ t.pc \in {"insert", "resume"}
          /\ jobs' = jobs /\ retries' = retries /\ calls' = calls
      BY <1>4, <2>1 DEF Begin
    <2>3. jobs[k].status \in {"absent", "running"} => BeginReply(jobs[k], h) # "resume"
      BY DEF BeginReply, IsDue
    <2>4. retries = 0 /\ calls[k] = 0 => t.pc = "insert"
      BY <2>1, <2>2, <2>3 DEF FirstInv, UntriedInv
    <2> HIDE DEF t
    <2>5. QED
      BY <1>1, <2>1, <2>2, <2>4, FirstLeave
  <1>5. ASSUME NEW p \in Proc, NEW k \in Key, RetryLoad(p, k) PROVE Goal
    <2>1. retries' = retries + 1 /\ retries' # 0
      BY <1>1, <1>5 DEF RetryLoad
    <2>2. QED
      BY <2>1 DEF UntriedInv, FirstCallAlone
  <1>6. ASSUME NEW k \in Key, Elapse(k) PROVE Goal
    <2>1. /\ \A k2 \in Key : jobs'[k2].status = jobs[k2].status
          /\ task' = task /\ calls' = calls /\ retries' = retries
      BY <1>1, <1>6 DEF Elapse, Job
    <2>2. QED
      BY <2>1 DEF FirstInv, UntriedInv, FirstCallAlone, At
  <1>7. CASE UNCHANGED vars
    BY <1>7 DEF FirstInv, UntriedInv, FirstCallAlone, At, vars
  <1>8. QED
    BY <1>2, <1>3, <1>4, <1>5, <1>6, <1>7 DEF Next

\* However many processes find the table empty at once, the first call of a key is
\* made by one of them.
THEOREM FirstCallIsAlone == Spec => []FirstCallAlone
  <1>1. Init => UntriedInv /\ FirstCallAlone
    BY DEF Init, UntriedInv, FirstCallAlone, At, Idle, NoJob
  <1>2. QED
    BY <1>1, FirstStep, TypeInvariance, PTL DEF Spec, FirstInv
=============================================================================
