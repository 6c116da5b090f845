------------------------- MODULE SyncJobsSoloProofs -------------------------
(***************************************************************************)
(* What holds of the keys of the idempotency store that one task has had   *)
(* at a time, whichever process ran it, for every set of keys, processes,  *)
(* payloads and results and every retry limit: the budget of calls, and    *)
(* the table as an implementation of JobLifecycle and of the in-memory     *)
(* store.  Deaths of the processes are included.                           *)
(***************************************************************************)
EXTENDS SyncJobsProofs

-----------------------------------------------------------------------------
(* The inductive invariant *)

\* A row and the calls of its key: a running row has an attempt to spare for the
\* call that is or was under way; a row with a result is completed.
RowOK(job, c) ==
  /\ job.attempts <= MaxAttempts
  /\ job.status = "absent" => job.attempts = 0 /\ c = 0
  /\ job.status # "absent" => job.payload_hash \in Payload
  /\ job.status # "completed" => job.result = Null
  /\ job.status \in {"running", "completed"} => c <= job.attempts + 1
  /\ job.status \in {"running", "completed", "failed"} => job.attempts < MaxAttempts
  /\ job.status \in {"failed", "dead"} => c <= job.attempts

\* A task knows its row: what it has decided on or loaded is still so.
TaskOK(t, job, c) ==
  /\ t.pc = "insert" => job.status = "absent" /\ t.payload \in Payload
  /\ t.pc = "resume" => job.status = "failed"
  /\ t.pc \in {"handle", "commit", "committing", "fail", "failing"} => job.status = "running"
  /\ t.pc = "handle" => c <= job.attempts
  /\ t.pc = "retrying" => job.status \in {"failed", "dead"}
  /\ t.pc \in {"committing", "failing", "retrying"} =>
       /\ t.loaded.status = job.status
       /\ t.loaded.attempts = job.attempts
       /\ t.loaded.result = job.result

RowsSound == \A k \in Key \ contended : RowOK(jobs[k], calls[k])

Contended(p) == task[p].key \in contended

TasksSound ==
  \A p \in Proc : ~At(p, "idle") /\ ~Contended(p) =>
    TaskOK(task[p], jobs[task[p].key], calls[task[p].key])

\* No two tasks have a key that is not contended.
TasksApart ==
  \A p, q \in Proc :
    ~At(p, "idle") /\ ~At(q, "idle") /\ task[p].key = task[q].key /\ ~Contended(p) => p = q

SoloInv == TypeInv /\ RowsSound /\ TasksSound /\ TasksApart

\* What a step may make of a row.
Rests(job, n) ==
  /\ n.status = job.status /\ n.attempts = job.attempts
  /\ n.payload_hash = job.payload_hash /\ n.result = job.result

Claimed(job, n) ==
  /\ job.status \in {"absent", "failed"} /\ job.attempts < MaxAttempts
  /\ job.status = "absent" => job.attempts = 0
  /\ n.status = "running" /\ n.attempts = job.attempts
  /\ n.payload_hash \in Payload /\ n.result = Null

Completed(job, n) ==
  /\ job.status = "running" /\ n.status = "completed"
  /\ n.attempts = job.attempts /\ n.payload_hash = job.payload_hash
  /\ n.result \in Result

Failed(job, n) ==
  /\ job.status = "running" /\ n.status \in {"failed", "dead"}
  /\ n.attempts = job.attempts + 1
  /\ n.status = "failed" => n.attempts < MaxAttempts

Reopened(job, n) ==
  /\ job.status \in {"failed", "dead"} /\ n.status = "failed" /\ n.attempts = 0

Moved(job, n) ==
  \/ Rests(job, n) \/ Claimed(job, n) \/ Completed(job, n)
  \/ Failed(job, n) \/ Reopened(job, n)

\* A step changes one row at most, and in one of these ways if the key of the row is
\* not contended.
OnlyRow(k) ==
  /\ \A other \in Key \ {k} : jobs'[other] = jobs[other]
  /\ k \notin contended => Moved(jobs[k], jobs'[k])

RowMoves == \E k \in Key : OnlyRow(k)

-----------------------------------------------------------------------------
(* What each method makes of a row *)

LEMMA NewRow ==
  ASSUME NEW job \in Job, NEW c \in Nat, RowOK(job, c), job.status = "absent",
         NEW h \in Payload
  PROVE  /\ NewJob(h) \in Job
         /\ RowOK(NewJob(h), c) /\ c <= NewJob(h).attempts
         /\ NewJob(h).status = "running"
         /\ Claimed(job, NewJob(h))
  <1>1. /\ NewJob(h).status = "running" /\ NewJob(h).payload_hash = h
        /\ NewJob(h).attempts = 0 /\ NewJob(h).result = Null
    BY DEF NewJob, NoJob
  <1>2. NewJob(h) \in Job
    BY NewJobType
  <1> HIDE DEF NewJob
  <1>3. QED
    BY <1>1, <1>2, MaxAttemptsAssumption DEF RowOK, Claimed, Job

LEMMA ResumedRow ==
  ASSUME NEW job \in Job, NEW c \in Nat, RowOK(job, c), job.status = "failed",
         NEW n, n = [job EXCEPT !.status = "running"]
  PROVE  /\ n \in Job /\ RowOK(n, c) /\ c <= n.attempts
         /\ n.status = "running" /\ Claimed(job, n)
  <1>1. /\ n \in Job /\ n.status = "running" /\ n.attempts = job.attempts
        /\ n.payload_hash = job.payload_hash /\ n.result = job.result
    BY DEF Job, JobStatus
  <1>2. c <= job.attempts + 1
    BY DEF RowOK, Job
  <1>3. QED
    BY <1>1, <1>2 DEF RowOK, Claimed

\* A stale read that is not stale: the flushed row is what the method made of it.
LEMMA FlushFresh ==
  ASSUME NEW row \in Job, NEW loaded \in Job, NEW new \in Job,
         loaded.status = row.status, loaded.attempts = row.attempts,
         loaded.result = row.result
  PROVE  /\ Flush(row, loaded, new) \in Job
         /\ Flush(row, loaded, new).status = new.status
         /\ Flush(row, loaded, new).attempts = new.attempts
         /\ Flush(row, loaded, new).result = new.result
         /\ Flush(row, loaded, new).payload_hash = row.payload_hash
  <1>1. Flush(row, loaded, new) \in Job
    BY FlushType
  <1>2. QED
    BY <1>1 DEF Flush

LEMMA CommittedRow ==
  ASSUME NEW job \in Job, NEW c \in Nat, RowOK(job, c), job.status = "running",
         NEW loaded \in Job, loaded.status = job.status,
         loaded.attempts = job.attempts, loaded.result = job.result,
         NEW r \in Result, NEW n, n = Flush(job, loaded, CommitJob(loaded, r))
  PROVE  n \in Job /\ RowOK(n, c) /\ Completed(job, n)
  <1> DEFINE new == CommitJob(loaded, r)
  <1>1. /\ new \in Job /\ new.status = "completed" /\ new.attempts = loaded.attempts
        /\ new.result = r
    BY CommitJobType DEF CommitJob, Job
  <1> HIDE DEF new
  <1>2. n = Flush(job, loaded, new)
    BY DEF new
  <1>3. /\ n \in Job /\ n.status = "completed" /\ n.attempts = job.attempts
        /\ n.result = r /\ n.payload_hash = job.payload_hash
    BY <1>1, <1>2, FlushFresh
  <1>4. QED
    BY <1>3 DEF RowOK, Completed

LEMMA FailedRow ==
  ASSUME NEW job \in Job, NEW c \in Nat, RowOK(job, c), job.status = "running",
         NEW loaded \in Job, loaded.status = job.status,
         loaded.attempts = job.attempts, loaded.result = job.result,
         NEW e, NEW n, n = Flush(job, loaded, FailJob(loaded, e))
  PROVE  n \in Job /\ RowOK(n, c) /\ Failed(job, n)
  <1> DEFINE new == FailJob(loaded, e)
  <1>1. new \in Job
    BY FailJobType
  <1>2. /\ new.status \in {"failed", "dead"} /\ new.attempts = loaded.attempts + 1
        /\ new.status = "failed" => ~(loaded.attempts + 1 >= MaxAttempts)
        /\ new.result = loaded.result
    BY DEF FailJob, Job
  <1> HIDE DEF new
  <1>3. n = Flush(job, loaded, new)
    BY DEF new
  <1>4. /\ n \in Job /\ n.status = new.status /\ n.attempts = job.attempts + 1
        /\ n.result = job.result /\ n.payload_hash = job.payload_hash
    BY <1>1, <1>2, <1>3, FlushFresh
  <1>5. job.attempts \in Nat /\ MaxAttempts \in Nat
    BY MaxAttemptsAssumption DEF Job
  <1>6. QED
    BY <1>2, <1>4, <1>5 DEF RowOK, Failed

LEMMA ReopenedRow ==
  ASSUME NEW job \in Job, NEW c \in Nat, RowOK(job, c), job.status \in {"failed", "dead"},
         NEW loaded \in Job, loaded.status = job.status,
         loaded.attempts = job.attempts, loaded.result = job.result,
         NEW n, n = Flush(job, loaded, RetryJob(loaded))
  PROVE  n \in Job /\ RowOK(n, 0) /\ Reopened(job, n)
  <1> DEFINE new == RetryJob(loaded)
  <1>1. /\ new \in Job /\ new.status = "failed" /\ new.attempts = 0
        /\ new.result = loaded.result
    BY RetryJobType DEF RetryJob, Job
  <1> HIDE DEF new
  <1>2. n = Flush(job, loaded, new)
    BY DEF new
  <1>3. /\ n \in Job /\ n.status = "failed" /\ n.attempts = 0
        /\ n.result = job.result /\ n.payload_hash = job.payload_hash
    BY <1>1, <1>2, FlushFresh
  <1>4. QED
    BY <1>3, MaxAttemptsAssumption DEF RowOK, Reopened

-----------------------------------------------------------------------------
(* Each step keeps the invariant and moves one row *)

Sound == RowsSound /\ TasksSound /\ TasksApart

\* A step of a task whose key it has alone: one row, the calls of its key, the task.
LEMMA SoloStep ==
  ASSUME SoloInv, NEW p \in Proc, NEW t, NEW k \in Key, NEW n, NEW c,
         ~At(p, "idle"), task[p].key = k, ~Contended(p), contended' = contended,
         jobs' = [jobs EXCEPT ![k] = n], Become(p, t), calls' = [calls EXCEPT ![k] = c],
         RowOK(n, c), t.pc # "idle" => t.key = k /\ TaskOK(t, n, c), Moved(jobs[k], n)
  PROVE  Sound' /\ RowMoves
  <1>1. /\ jobs \in [Key -> Job] /\ calls \in [Key -> Nat] /\ task \in [Proc -> Task]
    BY DEF SoloInv, TypeInv, TypeOK
  <1>2. /\ jobs'[k] = n /\ calls'[k] = c /\ task'[p] = t
        /\ \A other \in Key \ {k} : jobs'[other] = jobs[other] /\ calls'[other] = calls[other]
        /\ \A q \in Proc \ {p} : task'[q] = task[q]
    BY <1>1 DEF Become
  <1>3. RowsSound'
    BY <1>2 DEF SoloInv, RowsSound
  <1>4. ASSUME NEW q \in Proc \ {p}, ~At(q, "idle")
        PROVE  task[q].key \in Key \ {k}
    BY <1>4 DEF SoloInv, TypeInv, TypeOK, TasksApart, Contended
  <1>5. TasksSound'
    <2>1. ASSUME NEW q \in Proc, ~At(q, "idle")', ~Contended(q)'
          PROVE  TaskOK(task[q], jobs[task[q].key], calls[task[q].key])'
      <3>1. CASE q = p
        BY <1>2, <2>1, <3>1 DEF At
      <3>2. CASE q # p
        BY <1>2, <1>4, <2>1, <3>2 DEF At, Contended, SoloInv, TasksSound
      <3>3. QED
        BY <3>1, <3>2
    <2>2. QED
      BY <2>1 DEF TasksSound
  <1>6. TasksApart'
    BY <1>2, <1>4 DEF SoloInv, TasksApart, Contended, At
  <1>7. RowMoves
    BY <1>2 DEF RowMoves, OnlyRow
  <1>8. QED
    BY <1>3, <1>5, <1>6, <1>7 DEF Sound

\* A step of such a task that leaves the table and the calls alone.
LEMMA SoloRead ==
  ASSUME SoloInv, NEW p \in Proc, NEW t, ~At(p, "idle"), ~Contended(p),
         contended' = contended, jobs' = jobs, calls' = calls,
         Become(p, t), t.pc # "idle", t.key = task[p].key,
         TaskOK(t, jobs[t.key], calls[t.key])
  PROVE  Sound' /\ RowMoves
  <1> DEFINE k == task[p].key
  <1>1. /\ k \in Key \ contended /\ jobs \in [Key -> Job] /\ calls \in [Key -> Nat]
    BY DEF SoloInv, TypeInv, TypeOK, Contended
  <1>2. RowOK(jobs[k], calls[k]) /\ Moved(jobs[k], jobs[k])
    BY <1>1 DEF SoloInv, RowsSound, Moved, Rests
  <1>3. jobs' = [jobs EXCEPT ![k] = jobs[k]] /\ calls' = [calls EXCEPT ![k] = calls[k]]
    BY <1>1
  <1>4. QED
    BY <1>1, <1>2, <1>3, SoloStep

\* A step of a task whose key another task has had with it: nothing is said of the row.
LEMMA ContendedStep ==
  ASSUME SoloInv, NEW p \in Proc, NEW t, NEW k \in Key, ~At(p, "idle"),
         task[p].key = k, k \in contended, contended' = contended,
         Become(p, t), t.pc # "idle" => t.key = k,
         \A other \in Key \ {k} : jobs'[other] = jobs[other] /\ calls'[other] = calls[other]
  PROVE  Sound' /\ RowMoves
  <1>1. task'[p] = t /\ \A q \in Proc \ {p} : task'[q] = task[q]
    BY DEF SoloInv, TypeInv, TypeOK, Become
  <1>2. RowsSound'
    BY DEF SoloInv, RowsSound
  <1>3. TasksSound'
    <2>1. ASSUME NEW q \in Proc, ~At(q, "idle")', ~Contended(q)'
          PROVE  TaskOK(task[q], jobs[task[q].key], calls[task[q].key])'
      <3>1. q # p /\ task'[q] = task[q]
        BY <1>1, <2>1 DEF At, Contended
      <3>2. task[q].key \in Key \ {k}
        BY <2>1, <3>1 DEF At, Contended, SoloInv, TypeInv, TypeOK
      <3>3. QED
        BY <2>1, <3>1, <3>2 DEF At, Contended, SoloInv, TasksSound
    <2>2. QED
      BY <2>1 DEF TasksSound
  <1>4. TasksApart'
    BY <1>1 DEF SoloInv, TasksApart, Contended, At
  <1>5. QED
    BY <1>2, <1>3, <1>4 DEF Sound, RowMoves, OnlyRow

\* A task that ends without having written.
LEMMA SoloEnd ==
  ASSUME SoloInv, NEW p \in Proc, Become(p, Idle),
         contended' = contended, jobs' = jobs, calls' = calls
  PROVE  Sound'
  <1>1. /\ \A q \in Proc \ {p} : task'[q] = task[q]
        /\ task'[p].pc = "idle"
    BY DEF SoloInv, TypeInv, TypeOK, Become, Idle
  <1>2. RowsSound'
    BY DEF SoloInv, RowsSound
  <1>3. TasksSound'
    BY <1>1 DEF SoloInv, TasksSound, Contended, At
  <1>4. TasksApart'
    BY <1>1 DEF SoloInv, TasksApart, Contended, At
  <1>5. QED
    BY <1>2, <1>3, <1>4 DEF Sound

\* The SELECT of begin() or retry(): from here on the task has the key.
LEMMA SoloTake ==
  ASSUME SoloInv, NEW p \in Proc, NEW t, NEW k \in Key, At(p, "idle"), Take(k),
         jobs' = jobs, calls' = calls, Become(p, t), t.pc # "idle", t.key = k,
         TaskOK(t, jobs[k], calls[k])
  PROVE  Sound'
  <1>1. task'[p] = t /\ \A q \in Proc \ {p} : task'[q] = task[q]
    BY DEF SoloInv, TypeInv, TypeOK, Become
  <1>2. /\ contended \subseteq contended'
        /\ \A other \in contended' : other = k \/ other \in contended
        /\ k \notin contended' => \A q \in Proc : ~At(q, "idle") => task[q].key # k
    BY DEF Take, Has
  <1>3. RowsSound'
    BY <1>2 DEF SoloInv, RowsSound
  <1>4. TasksSound'
    <2>1. ASSUME NEW q \in Proc, ~At(q, "idle")', ~Contended(q)'
          PROVE  TaskOK(task[q], jobs[task[q].key], calls[task[q].key])'
      <3>1. CASE q = p
        BY <1>1, <3>1
      <3>2. CASE q # p
        BY <1>1, <1>2, <2>1, <3>2 DEF At, Contended, SoloInv, TasksSound
      <3>3. QED
        BY <3>1, <3>2
    <2>2. QED
      BY <2>1 DEF TasksSound
  <1>5. TasksApart'
    <2>1. ASSUME NEW q \in Proc, NEW r \in Proc, ~At(q, "idle")', ~At(r, "idle")',
                 task'[q].key = task'[r].key, ~Contended(q)'
          PROVE  q = r
      <3>1. CASE q # p /\ r # p
        BY <1>1, <1>2, <2>1, <3>1 DEF At, Contended, SoloInv, TasksApart
      <3>2. CASE q = p \/ r = p
        BY <1>1, <1>2, <2>1, <3>2 DEF At, Contended
      <3>3. QED
        BY <3>1, <3>2
    <2>2. QED
      BY <2>1 DEF TasksApart
  <1>6. QED
    BY <1>3, <1>4, <1>5 DEF Sound

\* What the invariant says of a task that has its key alone.
LEMMA TaskFacts ==
  ASSUME SoloInv, NEW p \in Proc, ~At(p, "idle"), ~Contended(p)
  PROVE  /\ task[p] \in Task /\ task[p].key \in Key /\ task[p].loaded \in Job
         /\ jobs[task[p].key] \in Job /\ calls[task[p].key] \in Nat
         /\ RowOK(jobs[task[p].key], calls[task[p].key])
         /\ TaskOK(task[p], jobs[task[p].key], calls[task[p].key])
  BY DEF SoloInv, TypeInv, TypeOK, RowsSound, TasksSound, Task, Contended

LEMMA InsertSolo ==
  ASSUME SoloInv, NEW p \in Proc, ~Contended(p), Insert(p)
  PROVE  Sound' /\ RowMoves
  <1> DEFINE k == task[p].key
             t == [task[p] EXCEPT !.pc = "handle"]
  <1>1. At(p, "insert") /\ ~At(p, "idle")
    BY DEF Insert, At
  <1>2. /\ jobs[k].status = "absent" /\ task[p].payload \in Payload
        /\ task[p] \in Task /\ k \in Key
        /\ jobs[k] \in Job /\ calls[k] \in Nat /\ RowOK(jobs[k], calls[k])
    BY <1>1, TaskFacts DEF TaskOK, At
  <1>3. /\ jobs' = [jobs EXCEPT ![k] = NewJob(task[p].payload)]
        /\ Become(p, t) /\ calls' = calls /\ contended' = contended
    BY <1>2 DEF Insert
  <1>4. t.pc = "handle" /\ t.key = k
    BY <1>2 DEF Task
  <1>5. calls' = [calls EXCEPT ![k] = calls[k]]
    BY <1>3 DEF SoloInv, TypeInv, TypeOK
  <1>6. /\ RowOK(NewJob(task[p].payload), calls[k])
        /\ calls[k] <= NewJob(task[p].payload).attempts
        /\ NewJob(task[p].payload).status = "running"
        /\ Claimed(jobs[k], NewJob(task[p].payload))
    BY <1>2, NewRow
  <1> HIDE DEF t
  <1>7. TaskOK(t, NewJob(task[p].payload), calls[k])
    BY <1>4, <1>6 DEF TaskOK
  <1>8. Moved(jobs[k], NewJob(task[p].payload))
    BY <1>6 DEF Moved
  <1>9. QED
    BY <1>1, <1>2, <1>3, <1>4, <1>5, <1>6, <1>7, <1>8, SoloStep

LEMMA ResumeSolo ==
  ASSUME SoloInv, NEW p \in Proc, ~Contended(p), Resume(p)
  PROVE  Sound' /\ RowMoves
  <1> DEFINE k == task[p].key
             t == [task[p] EXCEPT !.pc = "handle"]
             n == [jobs[k] EXCEPT !.status = "running"]
  <1>1. At(p, "resume") /\ ~At(p, "idle")
    BY DEF Resume, At
  <1>2. /\ jobs[k].status = "failed" /\ task[p] \in Task /\ k \in Key
        /\ jobs[k] \in Job /\ calls[k] \in Nat /\ RowOK(jobs[k], calls[k])
    BY <1>1, TaskFacts DEF TaskOK, At
  <1>3. /\ jobs' = [jobs EXCEPT ![k] = n] /\ Become(p, t) /\ calls' = calls
        /\ contended' = contended
    BY DEF Resume
  <1>4. t.pc = "handle" /\ t.key = k
    BY <1>2 DEF Task
  <1>5. calls' = [calls EXCEPT ![k] = calls[k]]
    BY <1>3 DEF SoloInv, TypeInv, TypeOK
  <1>6. /\ RowOK(n, calls[k]) /\ calls[k] <= n.attempts
        /\ n.status = "running" /\ Claimed(jobs[k], n)
    BY <1>2, ResumedRow
  <1> HIDE DEF t, n
  <1>7. TaskOK(t, n, calls[k])
    BY <1>4, <1>6 DEF TaskOK
  <1>8. Moved(jobs[k], n)
    BY <1>6 DEF Moved
  <1>9. QED
    BY <1>1, <1>2, <1>3, <1>4, <1>5, <1>6, <1>7, <1>8, SoloStep

\* The handler's call is counted, and the row still has the attempt for it.
LEMMA HandleSolo ==
  ASSUME SoloInv, NEW p \in Proc, ~Contended(p), HandleReturns(p) \/ HandleRaises(p)
  PROVE  Sound' /\ RowMoves
  <1> DEFINE k == task[p].key
  <1>1. /\ At(p, "handle") /\ ~At(p, "idle") /\ Called(k) /\ jobs' = jobs
        /\ contended' = contended
    <2>1. At(p, "handle") /\ Called(k) /\ jobs' = jobs /\ contended' = contended
      BY Zenon DEF HandleReturns, HandleRaises
    <2>2. QED
      BY <2>1 DEF At
  <1>2. /\ jobs[k].status = "running" /\ calls[k] <= jobs[k].attempts
        /\ task[p] \in Task /\ k \in Key /\ jobs[k] \in Job /\ calls[k] \in Nat
        /\ RowOK(jobs[k], calls[k])
    BY <1>1, TaskFacts DEF TaskOK, At
  <1>3. /\ calls' = [calls EXCEPT ![k] = calls[k] + 1]
        /\ jobs' = [jobs EXCEPT ![k] = jobs[k]]
    BY <1>1 DEF Called, SoloInv, TypeInv, TypeOK
  <1>4. RowOK(jobs[k], calls[k] + 1)
    BY <1>2 DEF RowOK, Job
  <1>5. Moved(jobs[k], jobs[k])
    BY DEF Moved, Rests
  <1>6. ASSUME NEW t, Become(p, t), t.pc \in {"commit", "fail"}, t.key = k
        PROVE  Sound' /\ RowMoves
    <2>1. TaskOK(t, jobs[k], calls[k] + 1)
      BY <1>2, <1>6 DEF TaskOK
    <2>2. QED
      BY <1>1, <1>2, <1>3, <1>4, <1>5, <1>6, <2>1, SoloStep
  <1>7. CASE HandleReturns(p)
    <2>1. PICK r \in Result : Become(p, [task[p] EXCEPT !.pc = "commit", !.outcome = r])
      BY <1>7, Zenon DEF HandleReturns
    <2> DEFINE t == [task[p] EXCEPT !.pc = "commit", !.outcome = r]
    <2>2. t.pc = "commit" /\ t.key = k
      BY <1>2 DEF Task
    <2> HIDE DEF t
    <2>3. Become(p, t)
      BY <2>1 DEF t
    <2>4. QED
      BY <1>6, <2>2, <2>3
  <1>8. CASE HandleRaises(p)
    <2>1. PICK e \in BOOLEAN : Become(p, [task[p] EXCEPT !.pc = "fail", !.outcome = e])
      BY <1>8, Zenon DEF HandleRaises
    <2> DEFINE t == [task[p] EXCEPT !.pc = "fail", !.outcome = e]
    <2>2. t.pc = "fail" /\ t.key = k
      BY <1>2 DEF Task
    <2> HIDE DEF t
    <2>3. Become(p, t)
      BY <2>1 DEF t
    <2>4. QED
      BY <1>6, <2>2, <2>3
  <1>9. QED
    BY <1>7, <1>8

\* commit() and mark_failed() read the running row.
LEMMA LoadSolo ==
  ASSUME SoloInv, NEW p \in Proc, ~Contended(p), CommitLoad(p) \/ FailLoad(p)
  PROVE  Sound' /\ RowMoves
  <1> DEFINE k == task[p].key
  <1>1. PICK to \in {"committing", "failing"} :
          /\ Become(p, [task[p] EXCEPT !.pc = to, !.loaded = jobs[k]])
          /\ task[p].pc \in {"commit", "fail"} /\ jobs' = jobs /\ calls' = calls
          /\ contended' = contended
    BY DEF CommitLoad, FailLoad, Load, At
  <1>2. task[p] \in Task /\ k \in Key /\ jobs[k].status = "running"
    BY <1>1, TaskFacts DEF TaskOK, At
  <1> DEFINE t == [task[p] EXCEPT !.pc = to, !.loaded = jobs[k]]
  <1>3. t.pc = to /\ t.key = k /\ t.loaded = jobs[k]
    BY <1>2 DEF Task
  <1> HIDE DEF t
  <1>4. Become(p, t)
    BY <1>1 DEF t
  <1>5. TaskOK(t, jobs[k], calls[k])
    BY <1>2, <1>3 DEF TaskOK
  <1>6. t.pc # "idle" /\ ~At(p, "idle")
    BY <1>1, <1>3 DEF At
  <1>7. QED
    BY <1>1, <1>2, <1>3, <1>4, <1>5, <1>6, SoloRead

LEMMA CommitSolo ==
  ASSUME SoloInv, NEW p \in Proc, ~Contended(p), CommitStore(p)
  PROVE  Sound' /\ RowMoves
  <1> DEFINE k == task[p].key
             n == Flush(jobs[k], task[p].loaded, CommitJob(task[p].loaded, task[p].outcome))
  <1>1. /\ task[p].pc = "committing" /\ ~At(p, "idle")
        /\ jobs' = [jobs EXCEPT ![k] = n] /\ Become(p, Idle) /\ calls' = calls
        /\ contended' = contended
    BY DEF CommitStore, Store, At
  <1>2. task[p].outcome \in Result
    BY <1>1 DEF SoloInv, TypeInv, OutcomeOK
  <1>3. RowOK(n, calls[k]) /\ Completed(jobs[k], n) /\ k \in Key
    BY <1>1, <1>2, TaskFacts, CommittedRow DEF TaskOK
  <1>4. calls' = [calls EXCEPT ![k] = calls[k]]
    BY <1>1 DEF SoloInv, TypeInv, TypeOK
  <1>5. Idle.pc = "idle" /\ Moved(jobs[k], n)
    BY <1>3 DEF Idle, Moved
  <1> HIDE DEF n
  <1>6. QED
    BY <1>1, <1>3, <1>4, <1>5, SoloStep

LEMMA FailSolo ==
  ASSUME SoloInv, NEW p \in Proc, ~Contended(p), FailStore(p)
  PROVE  Sound' /\ RowMoves
  <1> DEFINE k == task[p].key
             n == Flush(jobs[k], task[p].loaded, FailJob(task[p].loaded, task[p].outcome))
  <1>1. /\ task[p].pc = "failing" /\ ~At(p, "idle")
        /\ jobs' = [jobs EXCEPT ![k] = n] /\ Become(p, Idle) /\ calls' = calls
        /\ contended' = contended
    BY DEF FailStore, Store, At
  <1>2. RowOK(n, calls[k]) /\ Failed(jobs[k], n) /\ k \in Key
    BY <1>1, TaskFacts, FailedRow DEF TaskOK
  <1>3. calls' = [calls EXCEPT ![k] = calls[k]]
    BY <1>1 DEF SoloInv, TypeInv, TypeOK
  <1>4. Idle.pc = "idle" /\ Moved(jobs[k], n)
    BY <1>2 DEF Idle, Moved
  <1> HIDE DEF n
  <1>5. QED
    BY <1>1, <1>2, <1>3, <1>4, SoloStep

\* The operator's retry() reads a failed or dead row and gives it a fresh budget.
LEMMA RetryLoadSolo ==
  ASSUME SoloInv, NEW p \in Proc, NEW k \in Key, RetryLoad(p, k)
  PROVE  Sound' /\ jobs' = jobs
  <1> DEFINE t == [Idle EXCEPT !.pc = "retrying", !.key = k, !.loaded = jobs[k],
                               !.payload = jobs[k].payload_hash]
  <1>1. /\ Become(p, t) /\ jobs' = jobs /\ calls' = calls
        /\ At(p, "idle") /\ Take(k) /\ jobs[k].status \in {"failed", "dead"}
    BY DEF RetryLoad, CanRetry
  <1>2. t.pc = "retrying" /\ t.key = k /\ t.loaded = jobs[k]
    BY DEF Idle
  <1> HIDE DEF t
  <1>3. TaskOK(t, jobs[k], calls[k])
    BY <1>1, <1>2 DEF TaskOK
  <1>4. QED
    BY <1>1, <1>2, <1>3, SoloTake

LEMMA RetryStoreSolo ==
  ASSUME SoloInv, NEW p \in Proc, ~Contended(p), RetryStore(p)
  PROVE  Sound' /\ RowMoves
  <1> DEFINE k == task[p].key
             n == Flush(jobs[k], task[p].loaded, RetryJob(task[p].loaded))
  <1>1. /\ task[p].pc = "retrying" /\ ~At(p, "idle")
        /\ jobs' = [jobs EXCEPT ![k] = n] /\ Become(p, Idle)
        /\ calls' = [calls EXCEPT ![k] = 0] /\ contended' = contended
    BY DEF RetryStore, Store, At
  <1>2. RowOK(n, 0) /\ Reopened(jobs[k], n) /\ k \in Key
    BY <1>1, TaskFacts, ReopenedRow DEF TaskOK
  <1>3. Idle.pc = "idle" /\ Moved(jobs[k], n)
    BY <1>2 DEF Idle, Moved
  <1> HIDE DEF n
  <1>4. QED
    BY <1>1, <1>2, <1>3, SoloStep

\* The SELECT of begin(): the row is the one the task will write.
LEMMA BeginSolo ==
  ASSUME SoloInv, NEW p \in Proc, NEW k \in Key, NEW h \in Payload,
         Begin(p, k, h)
  PROVE  Sound' /\ jobs' = jobs
  <1> DEFINE t == [Idle EXCEPT !.pc = BeginReply(jobs[k], h), !.key = k, !.payload = h]
  <1>1. /\ Become(p, t) /\ jobs' = jobs /\ calls' = calls
        /\ At(p, "idle") /\ Take(k) /\ BeginReply(jobs[k], h) \in {"insert", "resume"}
    BY DEF Begin
  <1>2. t.pc = BeginReply(jobs[k], h) /\ t.key = k /\ t.payload = h
    BY DEF Idle
  <1>3. jobs[k].status \in JobStatus
    BY DEF SoloInv, TypeInv, TypeOK, Job
  <1>4. /\ BeginReply(jobs[k], h) = "insert" => jobs[k].status = "absent"
        /\ BeginReply(jobs[k], h) = "resume" => jobs[k].status = "failed"
    BY <1>3 DEF BeginReply, IsDue, JobStatus
  <1> HIDE DEF t
  <1>5. TaskOK(t, jobs[k], calls[k])
    BY <1>1, <1>2, <1>3, <1>4 DEF TaskOK
  <1>6. QED
    BY <1>1, <1>2, <1>5, SoloTake

LEMMA ElapseSolo ==
  ASSUME SoloInv, NEW k \in Key, Elapse(k)
  PROVE  Sound' /\ RowMoves
  <1>1. /\ \A other \in Key : Rests(jobs[other], jobs'[other])
        /\ \A other \in Key \ {k} : jobs'[other] = jobs[other]
        /\ task' = task /\ calls' = calls /\ contended' = contended
    BY DEF SoloInv, TypeInv, TypeOK, Elapse, Job, Rests
  <1>2. RowsSound'
    BY <1>1 DEF SoloInv, RowsSound, RowOK, Rests
  <1>3. TasksSound'
    <2>1. ASSUME NEW p \in Proc, ~At(p, "idle"), ~Contended(p)
          PROVE  TaskOK(task[p], jobs'[task[p].key], calls[task[p].key])
      BY <1>1, <2>1, TaskFacts DEF TaskOK, Rests
    <2>2. QED
      BY <1>1, <2>1 DEF TasksSound, Contended, At
  <1>4. TasksApart'
    BY <1>1 DEF SoloInv, TasksApart, Contended, At
  <1>5. QED
    BY <1>1, <1>2, <1>3, <1>4 DEF Sound, RowMoves, OnlyRow, Moved

\* What a task does with a key that is contended.
LEMMA ContendedProceed ==
  ASSUME SoloInv, NEW p \in Proc, Contended(p), Proceed(p)
  PROVE  Sound' /\ RowMoves
  <1> DEFINE k == task[p].key
  <1>1. ~At(p, "idle") /\ contended' = contended
    BY Zenon DEF Proceed, Insert, Resume, HandleReturns, HandleRaises, CommitLoad, FailLoad,
                 CommitStore, FailStore, RetryStore, Load, Store, At
  <1>2. task[p] \in Task /\ k \in Key \cap contended
    BY <1>1 DEF SoloInv, TypeInv, TypeOK, Contended
  <1>3. /\ jobs \in [Key -> Job] /\ calls \in [Key -> Nat]
    BY DEF SoloInv, TypeInv, TypeOK
  <1>4. \A other \in Key \ {k} : jobs'[other] = jobs[other] /\ calls'[other] = calls[other]
    BY <1>3 DEF Proceed, Insert, Resume, HandleReturns, HandleRaises, CommitLoad, FailLoad,
                CommitStore, FailStore, RetryStore, Load, Store, Called
  <1>5. \E t : Become(p, t) /\ (t.pc # "idle" => t.key = k)
    <2>1. ASSUME NEW point, NEW v
          PROVE  /\ [task[p] EXCEPT !.pc = point].key = k
                 /\ [task[p] EXCEPT !.pc = point, !.outcome = v].key = k
                 /\ [task[p] EXCEPT !.pc = point, !.loaded = v].key = k
      BY <1>2 DEF Task
    <2>2. CASE \E point : Become(p, [task[p] EXCEPT !.pc = point])
      BY <2>1, <2>2
    <2>3. CASE \E point, v : Become(p, [task[p] EXCEPT !.pc = point, !.outcome = v])
      <3>1. PICK point, v : Become(p, [task[p] EXCEPT !.pc = point, !.outcome = v])
        BY <2>3
      <3>2. [task[p] EXCEPT !.pc = point, !.outcome = v].key = k
        BY <2>1
      <3>3. QED
        BY <3>1, <3>2
    <2>4. CASE \E point, v : Become(p, [task[p] EXCEPT !.pc = point, !.loaded = v])
      <3>1. PICK point, v : Become(p, [task[p] EXCEPT !.pc = point, !.loaded = v])
        BY <2>4
      <3>2. [task[p] EXCEPT !.pc = point, !.loaded = v].key = k
        BY <2>1
      <3>3. QED
        BY <3>1, <3>2
    <2>5. CASE Become(p, Idle)
      BY <2>5 DEF Idle
    <2>6. QED
      BY <2>2, <2>3, <2>4, <2>5 DEF Proceed, Insert, Resume, HandleReturns, HandleRaises, CommitLoad,
                        FailLoad, CommitStore, FailStore, RetryStore, Load, Store
  <1>6. QED
    BY <1>1, <1>2, <1>4, <1>5, ContendedStep

\* Every step keeps what a task with a key of its own relies on, and changes one row
\* at most.
LEMMA SoloNext ==
  SoloInv /\ [Next]_vars =>
    SoloInv' /\ contended \subseteq contended' /\ (UNCHANGED jobs \/ RowMoves)
  <1> DEFINE Goal == /\ Sound' /\ contended \subseteq contended'
                     /\ UNCHANGED jobs \/ RowMoves
  <1> SUFFICES ASSUME SoloInv, [Next]_vars PROVE Goal
    BY TypeStep DEF SoloInv, Sound
  <1>1. ASSUME NEW p \in Proc, Proceed(p) PROVE Goal
    <2>1. contended' = contended
      BY <1>1, Zenon DEF Proceed, Insert, Resume, HandleReturns, HandleRaises, CommitLoad,
                         FailLoad, CommitStore, FailStore, RetryStore, Load
    <2>2. CASE Contended(p)
      BY <1>1, <2>1, <2>2, ContendedProceed
    <2>3. CASE ~Contended(p)
      BY <1>1, <2>1, <2>3, InsertSolo, ResumeSolo, HandleSolo, LoadSolo, CommitSolo,
         FailSolo, RetryStoreSolo
      DEF Proceed
    <2>4. QED
      BY <2>2, <2>3
  <1>2. ASSUME NEW p \in Proc, Crash(p) PROVE Goal
    <2>1. Become(p, Idle) /\ jobs' = jobs /\ calls' = calls /\ contended' = contended
      BY <1>2 DEF Crash
    <2>2. QED
      BY <2>1, SoloEnd
  <1>3. ASSUME NEW p \in Proc, NEW k \in Key, NEW h \in Payload, Begin(p, k, h) PROVE Goal
    BY <1>3, BeginSolo DEF Begin, Take
  <1>4. ASSUME NEW p \in Proc, NEW k \in Key, RetryLoad(p, k) PROVE Goal
    BY <1>4, RetryLoadSolo DEF RetryLoad, Take
  <1>5. ASSUME NEW k \in Key, Elapse(k) PROVE Goal
    BY <1>5, ElapseSolo DEF Elapse
  <1>6. CASE UNCHANGED vars
    BY <1>6 DEF vars, SoloInv, Sound, RowsSound, TasksSound, TasksApart, Contended, At
  <1>7. QED
    BY <1>1, <1>2, <1>3, <1>4, <1>5, <1>6 DEF Next

LEMMA SoloInit == Init => SoloInv
  <1>1. Init => TypeInv
    BY NoJobType, IdleIsTask DEF Init, TypeInv, TypeOK, OutcomeOK, At, Idle
  <1>2. RowOK(NoJob, 0)
    BY MaxAttemptsAssumption DEF RowOK, NoJob
  <1>3. QED
    BY <1>1, <1>2 DEF Init, SoloInv, RowsSound, TasksSound, TasksApart, At, Idle

LEMMA SoloInvariance == Spec => []SoloInv
  BY SoloInit, SoloNext, PTL DEF Spec

-----------------------------------------------------------------------------
(* The theorems *)

\* The handler of a key is called at most max_attempts times between two operator
\* retries, however often the processes die in the middle, as long as no two tasks
\* have had the key at once.
THEOREM BudgetKept == Spec => []RetryBudget
  <1>1. SoloInv => RetryBudget
    <2> SUFFICES ASSUME SoloInv, NEW k \in Key \ contended PROVE calls[k] <= MaxAttempts
      BY DEF RetryBudget
    <2>1. /\ RowOK(jobs[k], calls[k]) /\ jobs[k].status \in JobStatus
          /\ jobs[k].attempts \in Nat /\ calls[k] \in Nat /\ MaxAttempts \in Nat
      BY MaxAttemptsAssumption DEF SoloInv, RowsSound, TypeInv, TypeOK, Job
    <2>2. QED
      BY <2>1 DEF RowOK, JobStatus
  <1>2. QED
    BY <1>1, SoloInvariance, PTL

\* A step that moves one row of the table changes what the abstract stores show of
\* that key only.
LEMMA ShownChanges ==
  ASSUME SoloInv, SoloInv', NEW k \in Key,
         \A other \in Key \ {k} : jobs'[other] = jobs[other]
  PROVE  /\ Phases' = [Phases EXCEPT ![k] = PhaseOf(jobs'[k])]
         /\ Claims' = [Claims EXCEPT ![k] = ClaimsOf(jobs'[k])]
         /\ Entries' = [Entries EXCEPT ![k] = EntryOf(jobs'[k])]
         /\ Phases[k] = PhaseOf(jobs[k])
         /\ Claims[k] = ClaimsOf(jobs[k])
         /\ Entries[k] = EntryOf(jobs[k])
  BY DEF Phases, Claims, Entries

\* The phase and the claims of a key move as JobLifecycle says, or not at all.
LEMMA LifecycleStep ==
  SoloInv /\ [Next]_vars => [contended' = {} => Lifecycle!Next]_<<Phases, Claims>>
  <1> SUFFICES ASSUME SoloInv, [Next]_vars, contended' = {}
               PROVE  [Lifecycle!Next]_<<Phases, Claims>>
    OBVIOUS
  <1>1. SoloInv' /\ contended = {} /\ (UNCHANGED jobs \/ RowMoves)
    BY SoloNext
  <1>2. CASE UNCHANGED jobs
    BY <1>2 DEF Phases, Claims
  <1>3. CASE RowMoves
    <2> PICK k \in Key : OnlyRow(k)
      BY <1>3 DEF RowMoves
    <2>1. /\ \A other \in Key \ {k} : jobs'[other] = jobs[other]
          /\ k \notin contended => Moved(jobs[k], jobs'[k])
      BY DEF OnlyRow
    <2>2. /\ Phases' = [Phases EXCEPT ![k] = PhaseOf(jobs'[k])]
          /\ Claims' = [Claims EXCEPT ![k] = ClaimsOf(jobs'[k])]
          /\ Phases[k] = PhaseOf(jobs[k]) /\ Claims[k] = ClaimsOf(jobs[k])
      BY <1>1, <2>1, ShownChanges
    <2>3. /\ jobs[k].attempts \in Nat /\ jobs'[k].attempts \in Nat /\ MaxAttempts \in Nat
          /\ DOMAIN Phases = Key /\ DOMAIN Claims = Key
      BY <1>1, MaxAttemptsAssumption DEF SoloInv, TypeInv, TypeOK, Job, Phases, Claims
    <2>4. CASE Rests(jobs[k], jobs'[k])
      <3>1. PhaseOf(jobs'[k]) = Phases[k] /\ ClaimsOf(jobs'[k]) = Claims[k]
        BY <2>2, <2>4 DEF Rests, PhaseOf, ClaimsOf
      <3>2. Phases' = Phases /\ Claims' = Claims
        BY <2>2, <3>1 DEF Phases, Claims
      <3>3. QED
        BY <3>2
    <2>5. CASE Claimed(jobs[k], jobs'[k])
      <3>1. /\ PhaseOf(jobs[k]) \in {"new", "backoff"} /\ PhaseOf(jobs'[k]) = "running"
            /\ ClaimsOf(jobs[k]) < MaxAttempts /\ ClaimsOf(jobs'[k]) = ClaimsOf(jobs[k]) + 1
        BY <2>3, <2>5 DEF Claimed, PhaseOf, ClaimsOf
      <3>2. Lifecycle!Claim(k)
        BY <2>2, <3>1 DEF Lifecycle!Claim
      <3>3. QED
        BY <3>2 DEF Lifecycle!Next
    <2>6. CASE Completed(jobs[k], jobs'[k])
      <3>1. /\ PhaseOf(jobs[k]) = "running" /\ PhaseOf(jobs'[k]) = "done"
            /\ ClaimsOf(jobs'[k]) = ClaimsOf(jobs[k])
        BY <2>6 DEF Completed, PhaseOf, ClaimsOf
      <3>2. Claims' = Claims
        BY <2>2, <3>1 DEF Claims
      <3>3. Lifecycle!Finish(k, "done")
        BY <2>2, <3>1, <3>2 DEF Lifecycle!Finish
      <3>4. QED
        BY <3>3 DEF Lifecycle!Next
    <2>7. CASE Failed(jobs[k], jobs'[k])
      <3>1. /\ PhaseOf(jobs[k]) = "running" /\ PhaseOf(jobs'[k]) \in {"backoff", "dead"}
            /\ ClaimsOf(jobs'[k]) = ClaimsOf(jobs[k])
            /\ PhaseOf(jobs'[k]) = "backoff" => ClaimsOf(jobs[k]) < MaxAttempts
        BY <2>3, <2>7 DEF Failed, PhaseOf, ClaimsOf
      <3>2. Claims' = Claims
        BY <2>2, <3>1 DEF Claims
      <3>3. Lifecycle!Finish(k, PhaseOf(jobs'[k]))
        BY <2>2, <3>1, <3>2 DEF Lifecycle!Finish
      <3>4. QED
        BY <3>1, <3>3 DEF Lifecycle!Next
    <2>8. CASE Reopened(jobs[k], jobs'[k])
      <3>1. /\ PhaseOf(jobs[k]) \in {"backoff", "dead"} /\ PhaseOf(jobs'[k]) = "backoff"
            /\ ClaimsOf(jobs'[k]) = 0
        BY <2>8 DEF Reopened, PhaseOf, ClaimsOf
      <3>2. Lifecycle!Reopen(k)
        BY <2>2, <3>1 DEF Lifecycle!Reopen
      <3>3. QED
        BY <3>2 DEF Lifecycle!Next
    <2>9. QED
      BY <1>1, <2>1, <2>4, <2>5, <2>6, <2>7, <2>8 DEF Moved
  <1>4. QED
    BY <1>1, <1>2, <1>3

\* As long as no two tasks have a key at once, the table is an implementation of the
\* promise of JobLifecycle, deaths included: one claim at a time, at most max_attempts
\* of them, and done for ever.
THEOREM KeepsLifecycle == Spec => ImplementsLifecycle
  <1>1. Init => Lifecycle!Init
    BY DEF Init, Lifecycle!Init, Phases, Claims, PhaseOf, ClaimsOf, NoJob
  <1>2. QED
    BY <1>1, LifecycleStep, SoloInvariance, PTL DEF Spec, ImplementsLifecycle

LEMMA EntryCommitted ==
  ASSUME NEW job \in Job, NEW n \in Job, Completed(job, n)
  PROVE  /\ EntryOf(job).status = "running" /\ n.result \in Result
         /\ EntryOf(n) = [[EntryOf(job) EXCEPT !.status = "completed"] EXCEPT !.result = n.result]
  <1> DEFINE E == [status : JobStatus, payload_hash : Payload \cup {Null},
                   result : Result \cup {Null}]
             e == EntryOf(job)
             f == [e EXCEPT !.status = "completed"]
             g == [f EXCEPT !.result = n.result]
  <1>1. e \in E /\ e.status = "running" /\ e.payload_hash = job.payload_hash
    BY DEF Completed, EntryOf, Job
  <1>2. EntryOf(n) = [status |-> "completed", payload_hash |-> job.payload_hash,
                      result |-> n.result] /\ n.result \in Result
    BY DEF Completed, EntryOf
  <1> HIDE DEF e
  <1>3. f \in E /\ f.status = "completed" /\ f.payload_hash = job.payload_hash
    BY <1>1 DEF JobStatus
  <1> HIDE DEF f
  <1>4. /\ g \in E /\ g.status = "completed" /\ g.payload_hash = job.payload_hash
        /\ g.result = n.result
    BY <1>2, <1>3
  <1> HIDE DEF g
  <1>5. g = [status |-> "completed", payload_hash |-> job.payload_hash, result |-> n.result]
    BY <1>4
  <1>6. QED
    BY <1>1, <1>2, <1>5, Zenon DEF e, f, g

\* The entry of a key moves as the in-memory store moves it, or not at all.
LEMMA MemoryStep ==
  SoloInv /\ [Next]_vars => [contended' = {} => Memory!Next]_Entries
  <1> SUFFICES ASSUME SoloInv, [Next]_vars, contended' = {} PROVE [Memory!Next]_Entries
    OBVIOUS
  <1>1. SoloInv' /\ contended = {} /\ (UNCHANGED jobs \/ RowMoves)
    BY SoloNext
  <1>2. CASE UNCHANGED jobs
    BY <1>2 DEF Entries
  <1>3. CASE RowMoves
    <2> PICK k \in Key : OnlyRow(k)
      BY <1>3 DEF RowMoves
    <2>1. /\ \A other \in Key \ {k} : jobs'[other] = jobs[other]
          /\ k \notin contended => Moved(jobs[k], jobs'[k])
      BY DEF OnlyRow
    <2>2. /\ Entries' = [Entries EXCEPT ![k] = EntryOf(jobs'[k])]
          /\ Entries[k] = EntryOf(jobs[k]) /\ DOMAIN Entries = Key
      BY <1>1, <2>1, ShownChanges DEF Entries
    <2>3. /\ RowOK(jobs[k], calls[k]) /\ jobs[k].status \in JobStatus
          /\ jobs'[k].status \in JobStatus
      BY <1>1 DEF SoloInv, RowsSound, TypeInv, TypeOK, Job
    <2>4. CASE EntryOf(jobs'[k]) = EntryOf(jobs[k])
      BY <2>2, <2>4 DEF Entries
    <2>5. CASE Claimed(jobs[k], jobs'[k])
      <3>1. /\ EntryOf(jobs[k]) = Memory!NoEntry
            /\ EntryOf(jobs'[k]) = [status |-> "running",
                                    payload_hash |-> jobs'[k].payload_hash, result |-> Null]
        BY <2>5 DEF Claimed, EntryOf, Memory!NoEntry
      <3>2. Memory!Begin(k, jobs'[k].payload_hash)
        BY <2>2, <3>1 DEF Memory!Begin
      <3>3. jobs'[k].payload_hash \in Payload
        BY <2>5 DEF Claimed
      <3>4. QED
        BY <3>2, <3>3 DEF Memory!Next
    <2>6. CASE Completed(jobs[k], jobs'[k])
      <3>1. jobs[k] \in Job /\ jobs'[k] \in Job
        BY <1>1 DEF SoloInv, TypeInv, TypeOK
      <3>2. /\ EntryOf(jobs[k]).status = "running" /\ jobs'[k].result \in Result
            /\ EntryOf(jobs'[k]) = [[EntryOf(jobs[k]) EXCEPT !.status = "completed"]
                                      EXCEPT !.result = jobs'[k].result]
        BY <2>6, <3>1, EntryCommitted
      <3>3. Memory!Commit(k, jobs'[k].result)
        BY <2>2, <3>2 DEF Memory!Commit
      <3>4. QED
        BY <3>2, <3>3 DEF Memory!Next
    <2>7. CASE Failed(jobs[k], jobs'[k])
      <3>1. /\ EntryOf(jobs[k]).status = "running"
            /\ EntryOf(jobs'[k]) = Memory!NoEntry
        BY <2>7 DEF Failed, EntryOf, Memory!NoEntry
      <3>2. Memory!Abort(k)
        BY <2>2, <3>1 DEF Memory!Abort
      <3>3. QED
        BY <3>2 DEF Memory!Next
    <2>8. CASE Rests(jobs[k], jobs'[k]) \/ Reopened(jobs[k], jobs'[k])
      <3>1. EntryOf(jobs'[k]) = EntryOf(jobs[k])
        BY <2>8 DEF Rests, Reopened, EntryOf
      <3>2. QED
        BY <2>4, <3>1
    <2>9. QED
      BY <1>1, <2>1, <2>5, <2>6, <2>7, <2>8 DEF Moved
  <1>4. QED
    BY <1>1, <1>2, <1>3

\* As long as that is so, the table keeps what the in-memory store keeps ("the same
\* semantics"): a reserved key has one payload, and a committed result stays.
THEOREM KeepsMemory == Spec => ImplementsMemory
  <1>1. Init => Memory!Init
    BY DEF Init, Memory!Init, Memory!NoEntry, Entries, EntryOf, NoJob
  <1>2. QED
    BY <1>1, MemoryStep, SoloInvariance, PTL DEF Spec, ImplementsMemory
=============================================================================
