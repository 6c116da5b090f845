------------------------- MODULE OrderExportProofs -------------------------
(***************************************************************************)
(* What holds of the export of orders for every set of orders, buyers and  *)
(* sale orders and any number of lost or late calls, deaths and operator   *)
(* retries, with its proofs.                                               *)
(***************************************************************************)
EXTENDS OrderExport, SyncJobTableProofs, FiniteSetTheorems

-----------------------------------------------------------------------------
(* What is proved below to hold in every state *)

\* A process that is not idle.
Busy == [pc : Point, order : Order, seen : Payload \cup {Null},
         ref : Payload \cup {Null}, sale : SaleId \cup {Null}]

\* The points of the execution of a sync job, and of the writeback after it.
Executing == {"resume", "find", "create", "commit", "failed", "rejected"}

WritingBack == {"write_partner", "commit_partner", "write_sale", "ack"}

\* The worker is busy with orders that are placed.
WorkIsPlaced ==
  /\ batch \subseteq placed
  /\ ~At("worker", "idle") => task["worker"].order \in placed

\* The job of the order was begun with this name of the partner.
IsPayload(o, ref) == jobs[o].status # "absent" /\ jobs[o].payload_hash = ref

\* Every execution of the job of an order, and the writeback after it, name the
\* partner by the payload the job was begun with.  A row that the worker is about
\* to insert is made by nobody else.
SamePayload ==
  /\ \A o \in Order : jobs[o].status # "absent" => jobs[o].payload_hash \in Payload
  /\ task["worker"].pc \in {"dispatch", "insert"} => task["worker"].ref \in Payload
  /\ At("worker", "insert") => jobs[task["worker"].order].status = "absent"
  /\ \A p \in Executor : task[p].pc \in Executing \cup WritingBack =>
       IsPayload(task[p].order, task[p].ref)

\* So does every sale order in Odoo, and every call on its way.
SalesArePayloads ==
  \A s \in late \cup {sales[i] : i \in SaleId} :
    s # NoSale => IsPayload(s.order, s.ref)

\* A sale order that is recorded anywhere exists, and is the one of the order.
IsSaleOf(i, o) == i \in SaleId /\ sales[i].order = o

SalesAreReal ==
  /\ \A p \in Executor : task[p].pc \in {"commit"} \cup WritingBack =>
       IsSaleOf(task[p].sale, task[p].order)
  /\ \A o \in Order : /\ jobs[o].status = "completed" => IsSaleOf(jobs[o].result, o)
                      /\ mapped[o] # Null => IsSaleOf(mapped[o], o)

\* The partner the worker writes back, or has found in Core, is the one of the
\* command, unless the ref of the buyer was replaced; the retry worker writes
\* nothing back.
PartnerIsKept ==
  LET t == task["worker"]
      kept == Buyer[t.order] \in replaced \/ partner[Buyer[t.order]] = t.ref
  IN
  /\ t.pc \in {"dispatch", "insert"} \cup Executing \cup WritingBack => t.seen = Null \/ kept
  /\ t.pc \in {"write_sale", "ack"} => kept
  /\ t.pc = "ack" => mapped[t.order] # Null
  /\ task["retrier"].pc \in {"idle"} \cup Executing

AckedIsMapped == \A o \in acked : mapped[o] # Null

ExportInv == /\ TypeOK /\ WorkIsPlaced /\ SamePayload /\ SalesArePayloads
             /\ SalesAreReal /\ PartnerIsKept /\ AckedIsMapped /\ SamePartner

\* An order that is not rivalled is exported by one process at a time.
OneExecutes ==
  \A o \in Order \ rivalled, p, q \in Executor : Exports(p, o) /\ Exports(q, o) => p = q

\* As long as Odoo serves no call late: what a process has not found is not there
\* when it comes to create it.
OneSale ==
  used.late = 0 =>
    /\ late = {}
    /\ \A o \in Order \ rivalled :
         /\ \A i, j \in SalesOf(o) : i = j
         /\ \A p \in Executor : At(p, "create") /\ task[p].order = o => SalesOf(o) = {}

SingleInv == ExportInv /\ OneExecutes /\ OneSale

-----------------------------------------------------------------------------
(* What a step makes of a process *)

LEMMA IsBusy ==
  ASSUME TypeOK, NEW p \in Executor, task[p].pc # "idle"
  PROVE  task[p] \in Busy
  BY DEF TypeOK, Task, Busy

LEMMA BusyIsTask ==
  /\ Idle \in Task
  /\ \A t \in Busy : t \in Task
  BY DEF Idle, Task, Busy

LEMMA MoveIs ==
  ASSUME TypeOK, NEW p \in Executor, NEW t \in Task, task' = [task EXCEPT ![p] = t]
  PROVE  /\ task' \in [Executor -> Task]
         /\ task'[p] = t
         /\ \A q \in Executor : q # p => task'[q] = task[q]
  BY DEF TypeOK

LEMMA RestIs ==
  ASSUME TypeOK, NEW p \in Executor, Rest(p)
  PROVE  /\ task' \in [Executor -> Task]
         /\ task'[p] = Idle
         /\ \A q \in Executor : q # p => task'[q] = task[q]
  BY MoveIs, BusyIsTask DEF Rest

\* The process goes to another point of the same task.
GoesOn(p, point) ==
  /\ task[p] \in Busy /\ task'[p] \in Busy /\ task'[p].pc = point
  /\ task'[p].order = task[p].order
  /\ task'[p].seen = task[p].seen /\ task'[p].ref = task[p].ref

LEMMA GotoIs ==
  ASSUME TypeOK, NEW p \in Executor, task[p].pc # "idle", NEW point \in Point, Goto(p, point)
  PROVE  /\ task' \in [Executor -> Task]
         /\ GoesOn(p, point) /\ task'[p].sale = task[p].sale
         /\ \A q \in Executor : q # p => task'[q] = task[q]
  <1> DEFINE t == [task[p] EXCEPT !.pc = point]
  <1>1. task[p] \in Busy
    BY IsBusy
  <1>2. /\ t \in Busy /\ t.pc = point /\ t.order = task[p].order
        /\ t.seen = task[p].seen /\ t.ref = task[p].ref /\ t.sale = task[p].sale
    BY <1>1 DEF Busy
  <1>3. task' = [task EXCEPT ![p] = t]
    BY DEF Goto
  <1> HIDE DEF t
  <1>4. QED
    BY <1>1, <1>2, <1>3, MoveIs, BusyIsTask DEF GoesOn

\* The process comes to know the sale order, and goes on.
LEMMA GotoWithSale ==
  ASSUME TypeOK, NEW p \in Executor, task[p].pc # "idle", NEW point \in Point,
         NEW i \in SaleId,
         task' = [task EXCEPT ![p] = [task[p] EXCEPT !.pc = point, !.sale = i]]
  PROVE  /\ task' \in [Executor -> Task]
         /\ GoesOn(p, point) /\ task'[p].sale = i
         /\ \A q \in Executor : q # p => task'[q] = task[q]
  <1> DEFINE t == [task[p] EXCEPT !.pc = point, !.sale = i]
  <1>1. task[p] \in Busy
    BY IsBusy
  <1>2. /\ t \in Busy /\ t.pc = point /\ t.order = task[p].order
        /\ t.seen = task[p].seen /\ t.ref = task[p].ref /\ t.sale = i
    BY <1>1 DEF Busy
  <1>3. task' = [task EXCEPT ![p] = t]
    OBVIOUS
  <1> HIDE DEF t
  <1>4. QED
    BY <1>1, <1>2, <1>3, MoveIs, BusyIsTask DEF GoesOn

LEMMA FindIs ==
  ASSUME TypeOK, NEW p \in Executor, Find(p)
  PROVE  /\ task' \in [Executor -> Task]
         /\ \/ SalesOf(task[p].order) = {} /\ GoesOn(p, "create")
            \/ GoesOn(p, "commit") /\ IsSaleOf(task'[p].sale, task[p].order)
         /\ \A q \in Executor : q # p => task'[q] = task[q]
  <1>1. task[p].pc # "idle"
    BY DEF Find, At
  <1>2. CASE SalesOf(task[p].order) = {}
    BY <1>1, <1>2, GotoIs DEF Find, Point
  <1>3. CASE SalesOf(task[p].order) # {}
    <2>1. PICK i \in SalesOf(task[p].order) :
            task' = [task EXCEPT ![p] = [task[p] EXCEPT !.pc = "commit", !.sale = i]]
      BY <1>3 DEF Find
    <2>2. i \in SaleId /\ IsSaleOf(i, task[p].order) /\ "commit" \in Point
      BY DEF SalesOf, IsSaleOf, Point
    <2>3. /\ task' \in [Executor -> Task]
          /\ GoesOn(p, "commit") /\ task'[p].sale = i
          /\ \A q \in Executor : q # p => task'[q] = task[q]
      BY <1>1, <2>1, <2>2, GotoWithSale
    <2>4. QED
      BY <2>2, <2>3
  <1>4. QED
    BY <1>2, <1>3

LEMMA CreateIs ==
  ASSUME TypeOK, NEW p \in Executor, Create(p)
  PROVE  /\ task' \in [Executor -> Task]
         /\ task[p].pc = "create" /\ GoesOn(p, "commit")
         /\ task'[p].sale \in SaleId
         /\ Serve(task'[p].sale, task[p].order, task[p].ref)
         /\ \A q \in Executor : q # p => task'[q] = task[q]
  <1>1. PICK i \in SaleId :
          /\ Serve(i, task[p].order, task[p].ref)
          /\ task' = [task EXCEPT ![p] = [task[p] EXCEPT !.pc = "commit", !.sale = i]]
    BY DEF Create
  <1>2. task[p].pc = "create" /\ "commit" \in Point
    BY DEF Create, At, Point
  <1>3. QED
    BY <1>1, <1>2, GotoWithSale

LEMMA WritebackIs ==
  ASSUME NEW t \in Busy, NEW i \in SaleId
  PROVE  /\ Writeback(t, i) \in Busy
         /\ Writeback(t, i).pc = IF t.seen = Null THEN "write_partner" ELSE "write_sale"
         /\ Writeback(t, i).order = t.order /\ Writeback(t, i).seen = t.seen
         /\ Writeback(t, i).ref = t.ref /\ Writeback(t, i).sale = i
  BY DEF Writeback, Busy, Point

LEMMA CommitIs ==
  ASSUME TypeOK, SalesAreReal, NEW p \in Executor, Commit(p)
  PROVE  /\ task' \in [Executor -> Task]
         /\ task[p].pc = "commit" /\ task[p] \in Busy /\ task[p].sale \in SaleId
         /\ \/ p = "retrier" /\ task'[p] = Idle
            \/ /\ p = "worker" /\ task'[p].sale = task[p].sale
               /\ GoesOn(p, IF task[p].seen = Null THEN "write_partner" ELSE "write_sale")
         /\ \A q \in Executor : q # p => task'[q] = task[q]
  <1>1. task[p].pc = "commit" /\ task[p] \in Busy /\ task[p].sale \in SaleId
    BY IsBusy DEF Commit, At, SalesAreReal, IsSaleOf
  <1> DEFINE t == Writeback(task[p], task[p].sale)
  <1>2. /\ t \in Busy /\ t.pc = IF task[p].seen = Null THEN "write_partner" ELSE "write_sale"
        /\ t.order = task[p].order /\ t.seen = task[p].seen
        /\ t.ref = task[p].ref /\ t.sale = task[p].sale
    BY <1>1, WritebackIs
  <1> HIDE DEF t
  <1>3. CASE p = "worker"
    <2>1. task' = [task EXCEPT ![p] = t]
      BY <1>3 DEF Commit, t
    <2>2. QED
      BY <1>1, <1>2, <1>3, <2>1, MoveIs, BusyIsTask DEF GoesOn
  <1>4. CASE p = "retrier"
    <2>1. task' = [task EXCEPT ![p] = Idle]
      BY <1>4 DEF Commit
    <2>2. QED
      BY <1>1, <1>4, <2>1, MoveIs, BusyIsTask
  <1>5. QED
    BY <1>3, <1>4 DEF Executor

LEMMA ReadRetailerIs ==
  ASSUME TypeOK, ReadRetailer
  PROVE  /\ task' \in [Executor -> Task]
         /\ task["worker"] \in Busy /\ task["worker"].pc = "read_retailer"
         /\ task'["worker"] \in Busy /\ task'["worker"].pc = "dispatch"
         /\ task'["worker"].order = task["worker"].order
         /\ task'["worker"].seen = partner[Buyer[task["worker"].order]]
         /\ task'["worker"].ref \in Payload
         /\ \/ task'["worker"].seen = Null
            \/ task'["worker"].ref = partner[Buyer[task["worker"].order]]
         /\ task'["retrier"] = task["retrier"]
  <1> DEFINE known == partner[Buyer[task["worker"].order]]
             ref == IF known = Null THEN "own" ELSE known
             t == [task["worker"] EXCEPT !.pc = "dispatch", !.seen = known, !.ref = ref]
  <1>1. "worker" \in Executor /\ "retrier" \in Executor
    BY DEF Executor
  <1>2. task["worker"] \in Busy /\ task["worker"].pc = "read_retailer"
    BY <1>1, IsBusy DEF ReadRetailer, At
  <1>3. Buyer[task["worker"].order] \in Retailer
    BY <1>2, OrderAssumption DEF Busy
  <1>4. known \in Payload \cup {Null} /\ ref \in Payload
    BY <1>3, PayloadAssumption DEF TypeOK
  <1>5. task' = [task EXCEPT !["worker"] = t]
    BY DEF ReadRetailer
  <1>6. ref = known \/ known = Null
    OBVIOUS
  <1> HIDE DEF known, ref
  <1>7. t \in Busy /\ t.pc = "dispatch" /\ t.order = task["worker"].order /\ t.seen = known /\ t.ref = ref
    BY <1>2, <1>4 DEF Busy, Point
  <1> HIDE DEF t
  <1>8. /\ task' \in [Executor -> Task] /\ task'["worker"] = t
        /\ task'["retrier"] = task["retrier"]
    BY <1>1, <1>5, <1>7, MoveIs, BusyIsTask
  <1>9. QED
    BY <1>2, <1>4, <1>6, <1>7, <1>8 DEF known

LEMMA ReadOrderIs ==
  ASSUME TypeOK, NEW o \in Order, ReadOrder(o)
  PROVE  /\ task' \in [Executor -> Task]
         /\ task["worker"].pc = "idle"
         /\ \/ task' = task
            \/ /\ task'["worker"] \in Busy /\ task'["worker"].pc = "read_retailer"
               /\ task'["worker"].order = o
               /\ task'["retrier"] = task["retrier"]
  <1> DEFINE t == [pc |-> "read_retailer", order |-> o, seen |-> Null, ref |-> Null, sale |-> Null]
  <1>1. "worker" \in Executor /\ "retrier" \in Executor
    BY DEF Executor
  <1>2. t \in Busy /\ t.pc = "read_retailer" /\ t.order = o
    BY DEF Busy, Point
  <1>3. task["worker"].pc = "idle"
    BY DEF ReadOrder, IsNext, At
  <1>4. task' = task \/ task' = [task EXCEPT !["worker"] = t]
    BY DEF ReadOrder
  <1> HIDE DEF t
  <1>5. CASE task' = task
    BY <1>3, <1>5 DEF TypeOK
  <1>6. CASE task' = [task EXCEPT !["worker"] = t]
    BY <1>1, <1>2, <1>3, <1>6, MoveIs, BusyIsTask
  <1>7. QED
    BY <1>4, <1>5, <1>6

\* The SELECT of begin(): the job is begun, or written back, or given up.
LEMMA DispatchIs ==
  ASSUME TypeOK, SamePayload, SalesAreReal, Dispatch
  PROVE  LET o == task["worker"].order
             t == task["worker"]
         IN
         /\ task' \in [Executor -> Task]
         /\ t \in Busy /\ t.pc = "dispatch" /\ t.ref \in Payload
         /\ task'["retrier"] = task["retrier"]
         /\ \/ task'["worker"] = Idle
            \/ /\ jobs[o].status = "completed"
               /\ IsPayload(o, t.ref) /\ IsSaleOf(jobs[o].result, o)
               /\ GoesOn("worker", IF t.seen = Null THEN "write_partner" ELSE "write_sale")
               /\ task'["worker"].sale = jobs[o].result
            \/ jobs[o].status = "absent" /\ GoesOn("worker", "insert")
            \/ IsPayload(o, t.ref) /\ GoesOn("worker", "resume")
  <1> DEFINE o == task["worker"].order
             t == task["worker"]
             reply == BeginReply(jobs[o], t.ref)
  <1>1. "worker" \in Executor /\ "retrier" \in Executor
    BY DEF Executor
  <1>2. t \in Busy /\ t.pc = "dispatch" /\ o \in Order /\ t.ref \in Payload
    BY <1>1, IsBusy DEF Dispatch, At, SamePayload, Busy
  <1>3. jobs[o] \in Job
    BY <1>2 DEF TypeOK
  <1>4. task' = [task EXCEPT !["worker"] =
                   CASE reply \in {"insert", "resume"} -> [t EXCEPT !.pc = reply]
                     [] reply = "completed" -> Writeback(t, jobs[o].result)
                     [] OTHER -> Idle]
    BY DEF Dispatch
  <1>5. ASSUME NEW point \in {"insert", "resume"}, reply = point
        PROVE  /\ task' \in [Executor -> Task]
               /\ GoesOn("worker", point) /\ task'["retrier"] = task["retrier"]
    <2>1. Goto("worker", point) /\ point \in Point /\ t.pc # "idle"
      BY <1>2, <1>4, <1>5 DEF Goto, Point
    <2>2. QED
      BY <1>1, <2>1, GotoIs
  <1>6. CASE reply = "insert"
    <2>1. jobs[o].status = "absent"
      BY <1>3, <1>6 DEF BeginReply, Job, JobStatus
    <2>2. QED
      BY <1>2, <1>5, <1>6, <2>1
  <1>7. CASE reply = "resume"
    <2>1. IsPayload(o, t.ref)
      BY <1>7, BeginChecksPayload DEF IsPayload
    <2>2. QED
      BY <1>2, <1>5, <1>7, <2>1
  <1>8. CASE reply = "completed"
    <2> DEFINE w == Writeback(t, jobs[o].result)
    <2>1. jobs[o].status = "completed" /\ IsPayload(o, t.ref)
      BY <1>3, <1>8 DEF BeginReply, IsPayload, Job, JobStatus
    <2>2. IsSaleOf(jobs[o].result, o) /\ jobs[o].result \in SaleId
      BY <1>2, <2>1 DEF SalesAreReal, IsSaleOf
    <2>3. /\ w \in Busy /\ w.pc = IF t.seen = Null THEN "write_partner" ELSE "write_sale"
          /\ w.order = o /\ w.seen = t.seen /\ w.ref = t.ref /\ w.sale = jobs[o].result
      BY <1>2, <2>2, WritebackIs
    <2>4. task' = [task EXCEPT !["worker"] = w]
      BY <1>4, <1>8
    <2> HIDE DEF w
    <2>5. /\ task' \in [Executor -> Task] /\ task'["worker"] = w
          /\ task'["retrier"] = task["retrier"]
      BY <1>1, <2>3, <2>4, MoveIs, BusyIsTask
    <2>6. QED
      BY <1>2, <2>1, <2>2, <2>3, <2>5 DEF GoesOn
  <1>9. CASE reply \notin {"insert", "resume", "completed"}
    <2>1. task' = [task EXCEPT !["worker"] = Idle]
      BY <1>4, <1>9
    <2>2. QED
      BY <1>1, <1>2, <2>1, MoveIs, BusyIsTask
  <1>10. QED
    BY <1>6, <1>7, <1>8, <1>9

LEMMA InsertIs ==
  ASSUME TypeOK, SamePayload, Insert
  PROVE  LET t == task["worker"] IN
         /\ task' \in [Executor -> Task] /\ jobs' \in [Order -> Job]
         /\ t.pc = "insert" /\ t.order \in Order /\ t.ref \in Payload
         /\ jobs[t.order].status = "absent" /\ jobs'[t.order] = NewJob(t.ref)
         /\ \A q \in Order : q # t.order => jobs'[q] = jobs[q]
         /\ GoesOn("worker", "find") /\ task'["retrier"] = task["retrier"]
  <1> DEFINE t == task["worker"]
  <1>1. "worker" \in Executor /\ "retrier" \in Executor /\ "find" \in Point /\ t.pc = "insert"
    BY DEF Executor, Point, Insert, At
  <1>2. t.order \in Order /\ t.ref \in Payload /\ jobs[t.order].status = "absent"
    BY <1>1, IsBusy DEF SamePayload, At, Busy
  <1>3. jobs' = [jobs EXCEPT ![t.order] = NewJob(t.ref)] /\ NewJob(t.ref) \in Job
    BY <1>2, NewJobType DEF Insert
  <1>4. /\ jobs' \in [Order -> Job] /\ jobs'[t.order] = NewJob(t.ref)
        /\ \A q \in Order : q # t.order => jobs'[q] = jobs[q]
    BY <1>2, <1>3 DEF TypeOK
  <1>5. Goto("worker", "find")
    BY DEF Insert
  <1>6. QED
    BY <1>1, <1>2, <1>4, <1>5, GotoIs DEF Executor

\* The UPDATE of begin() writes the status only.
LEMMA ResumeIs ==
  ASSUME TypeOK, SamePayload, NEW p \in Executor, Resume(p)
  PROVE  LET o == task[p].order IN
         /\ task' \in [Executor -> Task] /\ jobs' \in [Order -> Job]
         /\ task[p].pc = "resume" /\ o \in Order /\ IsPayload(o, task[p].ref)
         /\ jobs'[o].status = "running" /\ jobs'[o].payload_hash = jobs[o].payload_hash
         /\ \A q \in Order : q # o => jobs'[q] = jobs[q]
         /\ GoesOn(p, "find")
         /\ \A q \in Executor : q # p => task'[q] = task[q]
  <1> DEFINE o == task[p].order
  <1>1. task[p].pc = "resume" /\ "find" \in Point
    BY DEF Resume, At, Point
  <1>2. o \in Order /\ IsPayload(o, task[p].ref)
    BY <1>1, IsBusy DEF SamePayload, Executing, Busy
  <1>3. /\ jobs' = [jobs EXCEPT ![o] = [jobs[o] EXCEPT !.status = "running"]]
        /\ jobs[o] \in Job /\ [jobs[o] EXCEPT !.status = "running"] \in Job
    BY <1>2, ResumeType DEF Resume, TypeOK
  <1>4. /\ jobs' \in [Order -> Job]
        /\ jobs'[o].status = "running" /\ jobs'[o].payload_hash = jobs[o].payload_hash
        /\ \A q \in Order : q # o => jobs'[q] = jobs[q]
    BY <1>2, <1>3 DEF TypeOK, Job
  <1>5. Goto(p, "find")
    BY DEF Resume
  <1>6. QED
    BY <1>1, <1>2, <1>4, <1>5, GotoIs

LEMMA RetryDueIs ==
  ASSUME TypeOK, NEW o \in Order, RetryDue(o)
  PROVE  /\ task' \in [Executor -> Task]
         /\ task["retrier"].pc = "idle" /\ task'["worker"] = task["worker"]
         /\ task'["retrier"] \in Busy /\ task'["retrier"].pc = "resume"
         /\ task'["retrier"].order = o /\ task'["retrier"].ref = jobs[o].payload_hash
         /\ jobs[o].status = "failed"
  <1> DEFINE t == [pc |-> "resume", order |-> o, seen |-> Null,
                   ref |-> jobs[o].payload_hash, sale |-> Null]
  <1>1. "worker" \in Executor /\ "retrier" \in Executor /\ jobs[o] \in Job
    BY DEF Executor, TypeOK
  <1>2. t \in Busy /\ t.pc = "resume" /\ t.order = o /\ t.ref = jobs[o].payload_hash
    BY <1>1 DEF Busy, Point, Job
  <1>3. task' = [task EXCEPT !["retrier"] = t]
    BY DEF RetryDue
  <1> HIDE DEF t
  <1>4. /\ task' \in [Executor -> Task] /\ task'["retrier"] = t
        /\ task'["worker"] = task["worker"]
    BY <1>1, <1>2, <1>3, MoveIs, BusyIsTask
  <1>5. jobs[o].status = "failed" /\ task["retrier"].pc = "idle"
    BY DEF RetryDue, IsListed, At
  <1>6. QED
    BY <1>2, <1>4, <1>5

-----------------------------------------------------------------------------
(* Type correctness *)

SaleOrder == {NoSale} \cup [order : Order, ref : Payload]

LEMMA ServeIs ==
  ASSUME TypeOK, NEW i \in SaleId, NEW o \in Order, NEW ref \in Payload, Serve(i, o, ref)
  PROVE  /\ sales' \in [SaleId -> SaleOrder]
         /\ sales[i] = NoSale
         /\ sales'[i].order = o /\ sales'[i].ref = ref /\ sales'[i] # NoSale
         /\ \A j \in SaleId : j # i => sales'[j] = sales[j]
  <1>1. SaleFor(o, ref) \in SaleOrder /\ SaleFor(o, ref).order = o /\ SaleFor(o, ref).ref = ref
    BY DEF SaleFor, SaleOrder
  <1>2. SaleFor(o, ref) # NoSale
    BY OrderAssumption DEF SaleFor, NoSale
  <1>3. sales' = [sales EXCEPT ![i] = SaleFor(o, ref)] /\ sales[i] = NoSale
    BY DEF Serve
  <1>4. QED
    BY <1>1, <1>2, <1>3 DEF TypeOK, SaleOrder

LEMMA SpendType ==
  ASSUME TypeOK, NEW bound \in DOMAIN Bounds, Spend(bound)
  PROVE  /\ used' \in [DOMAIN Bounds -> Nat]
         /\ used'[bound] = used[bound] + 1
         /\ \A b \in DOMAIN Bounds : b # bound => used'[b] = used[b]
  <1>1. used \in [DOMAIN Bounds -> Nat]
    BY DEF TypeOK
  <1>2. used' = [used EXCEPT ![bound] = used[bound] + 1]
    BY DEF Spend
  <1>3. QED
    BY <1>1, <1>2

LEMMA BoundsAre == DOMAIN Bounds = {"faults", "late", "crashes", "reopened"}
  BY DEF Bounds

\* A process that executes a job has a payload and an order.
LEMMA ExecutorHas ==
  ASSUME ExportInv, NEW p \in Executor, task[p].pc \in Executing \cup WritingBack
  PROVE  /\ task[p] \in Busy /\ task[p].order \in Order /\ task[p].ref \in Payload
         /\ IsPayload(task[p].order, task[p].ref)
         /\ jobs[task[p].order] \in Job
         /\ task[p].pc \in {"commit"} \cup WritingBack => task[p].sale \in SaleId
  <1>1. task[p] \in Busy
    BY IsBusy DEF ExportInv, Executing, WritingBack
  <1>2. IsPayload(task[p].order, task[p].ref)
    BY DEF ExportInv, SamePayload
  <1>3. QED
    BY <1>1, <1>2 DEF ExportInv, SamePayload, IsPayload, TypeOK, Busy, SalesAreReal, IsSaleOf

\* What is left to record is a ref of the buyer.
LEMMA LeftIsRef ==
  ASSUME ExportInv, NEW left \in LeftToRecord
  PROVE  left \subseteq [retailer : Retailer, ref : Payload]
  <1>1. CASE At("worker", "commit_partner")
    <2>1. /\ Buyer[task["worker"].order] \in Retailer /\ task["worker"].ref \in Payload
      BY <1>1, ExecutorHas, OrderAssumption DEF At, Executor, WritingBack
    <2>2. QED
      BY <1>1, <2>1 DEF LeftToRecord
  <1>2. CASE ~At("worker", "commit_partner")
    BY <1>2 DEF LeftToRecord
  <1>3. QED
    BY <1>1, <1>2

\* record_odoo_partner reads the retailer.
LEMMA WritePartnerIs ==
  ASSUME TypeOK, SamePayload, WritePartner
  PROVE  LET t == task["worker"] IN
         /\ task' \in [Executor -> Task] /\ t.pc = "write_partner"
         /\ task'["retrier"] = task["retrier"]
         /\ \/ task'["worker"] = Idle
            \/ GoesOn("worker", "commit_partner") /\ task'["worker"].sale = t.sale
            \/ /\ GoesOn("worker", "write_sale") /\ task'["worker"].sale = t.sale
               /\ partner[Buyer[t.order]] = t.ref
  <1> DEFINE t == task["worker"]
             known == partner[Buyer[t.order]]
  <1>1. /\ "worker" \in Executor /\ "retrier" \in Executor /\ t.pc = "write_partner"
        /\ "commit_partner" \in Point /\ "write_sale" \in Point
    BY DEF Executor, Point, WritePartner, At
  <1>2. CASE known = Null
    <2>1. t.ref # Null
      BY <1>1, IsBusy, NullAssumption DEF SamePayload, WritingBack, IsPayload, Busy
    <2>2. Goto("worker", "commit_partner")
      BY <1>2, <2>1 DEF WritePartner, Goto
    <2>3. QED
      BY <1>1, <2>2, GotoIs
  <1>3. CASE known # Null /\ known = t.ref
    <2>1. Goto("worker", "write_sale")
      BY <1>3 DEF WritePartner, Goto
    <2>2. QED
      BY <1>1, <1>3, <2>1, GotoIs
  <1>4. CASE known # Null /\ known # t.ref
    <2>1. Rest("worker")
      BY <1>4 DEF WritePartner, Rest
    <2>2. QED
      BY <1>1, <2>1, RestIs
  <1>5. QED
    BY <1>2, <1>3, <1>4

LEMMA TypeStep == ExportInv /\ [Next]_vars => TypeOK'
  <1> SUFFICES ASSUME ExportInv, [Next]_vars PROVE TypeOK'
    OBVIOUS
  <1>0. TypeOK /\ WorkIsPlaced /\ SamePayload /\ SalesAreReal
    BY DEF ExportInv
  <1> USE DEF core, refs, odoo, table
  <1>1. CASE Poll
    BY <1>0, <1>1 DEF TypeOK, Poll, Oldest
  <1>2. ASSUME NEW o \in Order, ReadOrder(o) PROVE TypeOK'
    <2>1. task' \in [Executor -> Task]
      BY <1>0, <1>2, ReadOrderIs
    <2>2. o \in placed /\ batch' \subseteq Order
      BY <1>0, <1>2 DEF ReadOrder, IsNext, WorkIsPlaced, TypeOK
    <2>3. acked' \subseteq placed
      BY <1>0, <1>2, <2>2 DEF ReadOrder, TypeOK
    <2>4. QED
      BY <1>0, <1>2, <2>1, <2>2, <2>3 DEF ReadOrder, TypeOK
  <1>3. ASSUME NEW o \in Order, OrderUnread(o) PROVE TypeOK'
    <2>1. used' \in [DOMAIN Bounds -> Nat]
      BY <1>0, <1>3, SpendType, BoundsAre DEF OrderUnread
    <2>2. o \in placed /\ batch' \subseteq Order
      BY <1>0, <1>3 DEF OrderUnread, IsNext, WorkIsPlaced, TypeOK
    <2>3. acked' \subseteq placed
      BY <1>0, <1>3, <2>2 DEF OrderUnread, TypeOK
    <2>4. QED
      BY <1>0, <1>3, <2>1, <2>2, <2>3 DEF OrderUnread, TypeOK
  <1>4. CASE ReadRetailer
    BY <1>0, <1>4, ReadRetailerIs DEF ReadRetailer, TypeOK
  <1>5. CASE RetailerUnread
    BY <1>0, <1>5, RestIs, SpendType, BoundsAre DEF RetailerUnread, TypeOK, Executor
  <1>6. CASE Dispatch
    BY <1>0, <1>6, DispatchIs DEF Dispatch, TypeOK
  <1>7. ASSUME NEW o \in Order, RetryDue(o) PROVE TypeOK'
    BY <1>0, <1>7, RetryDueIs DEF RetryDue, TypeOK
  <1>8. ASSUME NEW o \in Order, Reopen(o) PROVE TypeOK'
    <2>1. used' \in [DOMAIN Bounds -> Nat]
      BY <1>0, <1>8, SpendType, BoundsAre DEF Reopen
    <2>2. jobs' \in [Order -> Job]
      BY <1>0, <1>8, RetryJobType DEF Reopen, TypeOK
    <2>3. QED
      BY <1>0, <1>8, <2>1, <2>2 DEF Reopen, TypeOK
  <1>9. ASSUME NEW p \in Executor, Find(p) PROVE TypeOK'
    BY <1>0, <1>9, FindIs DEF Find, TypeOK
  <1>10. ASSUME NEW p \in Executor, Create(p) PROVE TypeOK'
    <2>1. /\ task' \in [Executor -> Task] /\ task[p].pc = "create"
          /\ task'[p].sale \in SaleId /\ Serve(task'[p].sale, task[p].order, task[p].ref)
      BY <1>0, <1>10, CreateIs
    <2>2. task[p].order \in Order /\ task[p].ref \in Payload
      BY <2>1, ExecutorHas DEF Executing
    <2>3. sales' \in [SaleId -> SaleOrder]
      BY <1>0, <2>1, <2>2, ServeIs
    <2>4. QED
      BY <1>0, <1>10, <2>1, <2>3 DEF Create, TypeOK, SaleOrder
  <1>11. ASSUME NEW p \in Executor, CallLost(p) PROVE TypeOK'
    <2>1. task[p].order \in Order /\ task[p].ref \in Payload /\ task[p].pc # "idle"
      BY <1>11, ExecutorHas DEF CallLost, Executing
    <2>2. task' \in [Executor -> Task] /\ used' \in [DOMAIN Bounds -> Nat]
      BY <1>0, <1>11, <2>1, GotoIs, SpendType, BoundsAre DEF CallLost, Point
    <2>3. sales' \in [SaleId -> SaleOrder]
      <3>1. CASE UNCHANGED sales
        BY <1>0, <3>1 DEF TypeOK, SaleOrder
      <3>2. ASSUME NEW i \in SaleId, Serve(i, task[p].order, task[p].ref)
            PROVE  sales' \in [SaleId -> SaleOrder]
        BY <1>0, <2>1, <3>2, ServeIs
      <3>3. QED
        BY <1>11, <3>1, <3>2 DEF CallLost
    <2>4. QED
      BY <1>0, <1>11, <2>2, <2>3 DEF CallLost, TypeOK, SaleOrder
  <1>12. ASSUME NEW p \in Executor, Refuse(p) PROVE TypeOK'
    <2>1. task' \in [Executor -> Task]
      BY <1>0, <1>12, GotoIs DEF Refuse, Point
    <2>2. QED
      BY <1>0, <1>12, <2>1 DEF Refuse, TypeOK
  <1>13. ASSUME NEW p \in Executor, CallDelayed(p) PROVE TypeOK'
    <2>1. task[p].order \in Order /\ task[p].ref \in Payload /\ task[p].pc # "idle"
      BY <1>13, ExecutorHas DEF CallDelayed, Executing, At
    <2>2. task' \in [Executor -> Task] /\ used' \in [DOMAIN Bounds -> Nat]
      BY <1>0, <1>13, <2>1, GotoIs, SpendType, BoundsAre DEF CallDelayed, Point
    <2>3. SaleFor(task[p].order, task[p].ref) \in [order : Order, ref : Payload]
      BY <2>1 DEF SaleFor
    <2>4. QED
      BY <1>0, <1>13, <2>2, <2>3 DEF CallDelayed, TypeOK
  <1>14. ASSUME NEW call \in late, ServeLate(call) PROVE TypeOK'
    <2>1. call.order \in Order /\ call.ref \in Payload
      BY <1>0 DEF TypeOK
    <2>2. sales' \in [SaleId -> SaleOrder]
      BY <1>0, <1>14, <2>1, ServeIs DEF ServeLate
    <2>3. QED
      BY <1>0, <1>14, <2>2 DEF ServeLate, TypeOK, SaleOrder
  <1>15. ASSUME NEW p \in Executor, Commit(p) PROVE TypeOK'
    <2>1. task' \in [Executor -> Task] /\ task[p].pc = "commit" /\ task[p].sale \in Result
      BY <1>0, <1>15, CommitIs, PayloadAssumption
    <2>2. task[p].order \in Order /\ jobs[task[p].order] \in Job
      BY <2>1, ExecutorHas DEF Executing
    <2>3. jobs' \in [Order -> Job]
      BY <1>0, <1>15, <2>1, <2>2, CommitJobType DEF Commit, TypeOK
    <2>4. QED
      BY <1>0, <1>15, <2>1, <2>3 DEF Commit, TypeOK
  <1>16. ASSUME NEW p \in Executor, MarkFailed(p) PROVE TypeOK'
    <2>1. task' \in [Executor -> Task]
      BY <1>0, <1>16, RestIs DEF MarkFailed
    <2>2. task[p].order \in Order /\ jobs[task[p].order] \in Job
      BY <1>16, ExecutorHas DEF Executing, MarkFailed
    <2>3. jobs' \in [Order -> Job]
      BY <1>0, <1>16, <2>2, FailJobType DEF MarkFailed, TypeOK
    <2>4. QED
      BY <1>0, <1>16, <2>1, <2>3 DEF MarkFailed, TypeOK
  <1>17. CASE WritePartner
    BY <1>0, <1>17, WritePartnerIs DEF WritePartner, TypeOK
  <1>18. CASE WriteSale
    <2>1. "worker" \in Executor /\ task["worker"].pc \in WritingBack /\ task["worker"].pc # "idle"
      BY <1>18 DEF WriteSale, At, WritingBack, Executor
    <2>2. task["worker"].order \in Order /\ task["worker"].sale \in SaleId
      BY <2>1, ExecutorHas
    <2>3. task' \in [Executor -> Task]
      BY <1>0, <1>18, <2>1, GotoIs, RestIs DEF WriteSale, Point
    <2>4. mapped' \in [Order -> SaleId \cup {Null}]
      BY <1>0, <1>18, <2>2 DEF WriteSale, TypeOK
    <2>5. QED
      BY <1>0, <1>18, <2>3, <2>4 DEF WriteSale, TypeOK
  <1>19. CASE Ack
    <2>1. "worker" \in Executor /\ task["worker"].order \in placed
      BY <1>0, <1>19 DEF Ack, At, WorkIsPlaced, Executor
    <2>2. task' \in [Executor -> Task]
      BY <1>0, <1>19, <2>1, RestIs DEF Ack
    <2>3. QED
      BY <1>0, <1>19, <2>1, <2>2 DEF Ack, TypeOK
  <1>20. CASE WritebackLost
    <2>1. "worker" \in Executor /\ task["worker"].pc \in WritingBack /\ task["worker"].pc # "idle"
      BY <1>20 DEF WritebackLost, WritingBack, Executor
    <2>2. /\ task["worker"].order \in placed /\ task["worker"].order \in Order
          /\ task["worker"].ref \in Payload /\ task["worker"].sale \in SaleId
      BY <1>0, <2>1, ExecutorHas DEF WorkIsPlaced, At
    <2>3. task' \in [Executor -> Task] /\ used' \in [DOMAIN Bounds -> Nat]
      BY <1>0, <1>20, <2>1, RestIs, SpendType, BoundsAre DEF WritebackLost
    <2>4. placed' = placed /\ acked' \subseteq placed /\ mapped' \in [Order -> SaleId \cup {Null}]
      BY <1>0, <1>20, <2>2 DEF WritebackLost, TypeOK
    <2>5. recording' \subseteq [retailer : Retailer, ref : Payload]
      BY <1>0, <1>20, <2>2, LeftIsRef DEF WritebackLost, TypeOK
    <2>6. QED
      BY <1>0, <1>20, <2>3, <2>4, <2>5 DEF WritebackLost, TypeOK
  <1>21. ASSUME NEW o \in Order, PlaceOrder(o) PROVE TypeOK'
    BY <1>0, <1>21 DEF PlaceOrder, TypeOK
  <1>22. ASSUME NEW r \in Retailer, MapPartner(r) PROVE TypeOK'
    BY <1>0, <1>22, PayloadAssumption DEF MapPartner, CommitRecord, TypeOK
  <1>23. ASSUME NEW o \in Order, Elapse(o) PROVE TypeOK'
    BY <1>0, <1>23, ElapseType DEF Elapse, TypeOK
  <1>24. ASSUME NEW p \in Executor, Crash(p) PROVE TypeOK'
    <2>1. recording' \subseteq [retailer : Retailer, ref : Payload]
      BY <1>0, <1>24, LeftIsRef DEF Crash, TypeOK
    <2>2. QED
      BY <1>0, <1>24, <2>1, RestIs, SpendType, BoundsAre DEF Crash, TypeOK
  <1>25. CASE UNCHANGED vars
    BY <1>0, <1>25 DEF vars, TypeOK
  <1>26. CASE Insert
    BY <1>0, <1>26, InsertIs DEF Insert, TypeOK
  <1>27. ASSUME NEW p \in Executor, Resume(p) PROVE TypeOK'
    <2>1. rivalled' = rivalled \cup {q \in {task[p].order} : \E x \in Executor : Exports(x, q)}
      BY <1>27 DEF Resume
    <2>2. task[p].order \in Order /\ task' \in [Executor -> Task] /\ jobs' \in [Order -> Job]
      BY <1>0, <1>27, ResumeIs
    <2>3. rivalled' \subseteq Order
      BY <1>0, <2>1, <2>2 DEF TypeOK
    <2>4. QED
      BY <1>0, <1>27, <2>2, <2>3 DEF Resume, TypeOK
  <1>28. CASE CommitPartner
    <2>1. "worker" \in Executor /\ task["worker"].pc = "commit_partner"
      BY <1>28 DEF CommitPartner, At, Executor
    <2>2. /\ task["worker"].order \in Order /\ Buyer[task["worker"].order] \in Retailer
          /\ task["worker"].ref \in Payload /\ "write_sale" \in Point
      BY <2>1, ExecutorHas, OrderAssumption DEF WritingBack, Point
    <2>3. task' \in [Executor -> Task]
      BY <1>0, <1>28, <2>1, <2>2, GotoIs DEF CommitPartner
    <2>4. partner' \in [Retailer -> Payload \cup {Null}] /\ replaced' \subseteq Retailer
      BY <1>0, <1>28, <2>2 DEF CommitPartner, RecordPartner, TypeOK
    <2>5. QED
      BY <1>0, <1>28, <2>3, <2>4 DEF CommitPartner, TypeOK
  <1>29. ASSUME NEW c \in recording, CommitRecord(c) PROVE TypeOK'
    <2>1. c.retailer \in Retailer /\ c.ref \in Payload
      BY <1>0 DEF TypeOK
    <2>2. partner' \in [Retailer -> Payload \cup {Null}] /\ replaced' \subseteq Retailer
      BY <1>0, <1>29, <2>1 DEF CommitRecord, RecordPartner, TypeOK
    <2>3. QED
      BY <1>0, <1>29, <2>2 DEF CommitRecord, TypeOK
  <1>30. QED
    BY <1>1, <1>2, <1>3, <1>4, <1>5, <1>6, <1>7, <1>8, <1>9, <1>10, <1>11, <1>12, <1>13,
       <1>14, <1>15, <1>16, <1>17, <1>18, <1>19, <1>20, <1>21, <1>22, <1>23, <1>24, <1>25,
       <1>26, <1>27, <1>28, <1>29
    DEF Next, Work, Execute

-----------------------------------------------------------------------------
(* What is recorded stays recorded *)

\* A job that has a row keeps it, and its payload.
LEMMA RowKept ==
  ASSUME ExportInv, [Next]_vars, NEW o \in Order, NEW ref, IsPayload(o, ref)
  PROVE  IsPayload(o, ref)'
  <1>0. TypeOK /\ SamePayload /\ SalesAreReal /\ jobs[o] \in Job
    BY DEF ExportInv, TypeOK
  <1>1. ASSUME NEW q \in Order, NEW job, jobs' = [jobs EXCEPT ![q] = job],
               jobs[q].status # "absent" =>
                 job.status # "absent" /\ job.payload_hash = jobs[q].payload_hash
        PROVE  IsPayload(o, ref)'
    BY <1>0, <1>1 DEF IsPayload, TypeOK
  <1>2. CASE Insert
    BY <1>0, <1>2, InsertIs DEF IsPayload
  <1>3. ASSUME NEW p \in Executor, Resume(p) PROVE IsPayload(o, ref)'
    BY <1>0, <1>3, ResumeIs DEF IsPayload
  <1>4. ASSUME NEW q \in Order, Reopen(q) PROVE IsPayload(o, ref)'
    <2>1. /\ RetryJob(jobs[q]).status # "absent"
          /\ RetryJob(jobs[q]).payload_hash = jobs[q].payload_hash
      BY <1>0 DEF RetryJob, TypeOK, Job
    <2>2. QED
      BY <1>1, <1>4, <2>1 DEF Reopen
  <1>5. ASSUME NEW p \in Executor, Commit(p) PROVE IsPayload(o, ref)'
    <2>1. task[p].order \in Order /\ jobs[task[p].order] \in Job
      BY <1>5, ExecutorHas DEF Commit, At, Executing
    <2>2. /\ CommitJob(jobs[task[p].order], task[p].sale).status # "absent"
          /\ CommitJob(jobs[task[p].order], task[p].sale).payload_hash
               = jobs[task[p].order].payload_hash
      BY <2>1 DEF CommitJob, Job
    <2>3. QED
      BY <1>1, <1>5, <2>1, <2>2 DEF Commit
  <1>6. ASSUME NEW p \in Executor, MarkFailed(p) PROVE IsPayload(o, ref)'
    <2>1. task[p].order \in Order /\ jobs[task[p].order] \in Job
      BY <1>6, ExecutorHas DEF MarkFailed, Executing
    <2> DEFINE job == FailJob(jobs[task[p].order], At(p, "failed"))
    <2>2. job.status # "absent" /\ job.payload_hash = jobs[task[p].order].payload_hash
      BY <2>1 DEF FailJob, Job
    <2>3. jobs' = [jobs EXCEPT ![task[p].order] = job]
      BY <1>6 DEF MarkFailed
    <2> HIDE DEF job
    <2>4. QED
      BY <1>1, <2>1, <2>2, <2>3
  <1>7. ASSUME NEW q \in Order, Elapse(q) PROVE IsPayload(o, ref)'
    BY <1>0, <1>7 DEF Elapse, TypeOK, Job, IsPayload
  <1>8. CASE UNCHANGED jobs
    BY <1>8 DEF IsPayload
  <1>9. QED
    BY <1>2, <1>3, <1>4, <1>5, <1>6, <1>7, <1>8
    DEF Next, Work, Execute, Poll, ReadOrder, OrderUnread, ReadRetailer, RetailerUnread,
        Dispatch, RetryDue, Find, Create, CallLost, Refuse, CallDelayed, WritePartner, CommitPartner, WriteSale, Ack,
        WritebackLost, PlaceOrder, MapPartner, CommitRecord, Crash, ServeLate, vars, core, refs, odoo, table

\* The export worker makes the rows.
LEMMA RowAppears ==
  ASSUME ExportInv, [Next]_vars, NEW o \in Order,
         jobs[o].status = "absent", jobs'[o].status # "absent"
  PROVE  Insert /\ o = task["worker"].order
  <1>0. TypeOK /\ SamePayload
    BY DEF ExportInv
  <1>1. CASE Insert
    BY <1>0, <1>1, InsertIs
  <1>2. ASSUME NEW p \in Executor, Commit(p) \/ MarkFailed(p) PROVE FALSE
    <2>1. /\ task[p].order \in Order /\ jobs[task[p].order].status # "absent"
      BY <1>2, ExecutorHas DEF Commit, MarkFailed, At, Executing, IsPayload
    <2>2. \A q \in Order : q # task[p].order => jobs'[q] = jobs[q]
      BY <1>0, <1>2 DEF Commit, MarkFailed, TypeOK
    <2>3. QED
      BY <2>1, <2>2
  <1>3. ASSUME NEW p \in Executor, Resume(p) PROVE FALSE
    BY <1>0, <1>3, ResumeIs DEF IsPayload
  <1>4. ASSUME NEW q \in Order, Reopen(q) PROVE FALSE
    BY <1>0, <1>4 DEF Reopen, CanRetry, TypeOK
  <1>5. ASSUME NEW q \in Order, Elapse(q) PROVE FALSE
    BY <1>0, <1>5 DEF Elapse, TypeOK, Job
  <1>6. QED
    BY <1>1, <1>2, <1>3, <1>4, <1>5
    DEF Next, Work, Execute, Poll, ReadOrder, OrderUnread, ReadRetailer, RetailerUnread,
        Dispatch, RetryDue, Find, Create, CallLost, Refuse, CallDelayed, WritePartner,
        CommitPartner, WriteSale, Ack, WritebackLost, PlaceOrder, MapPartner, CommitRecord,
        Crash, ServeLate, vars, core, refs, odoo, table

\* Odoo keeps its sale orders.
LEMMA SaleKept ==
  ASSUME ExportInv, [Next]_vars, NEW i \in SaleId, sales[i] # NoSale
  PROVE  sales'[i] = sales[i]
  <1>0. TypeOK
    BY DEF ExportInv
  <1>1. ASSUME NEW j \in SaleId, NEW o \in Order, NEW ref \in Payload, Serve(j, o, ref)
        PROVE  sales'[i] = sales[i]
    BY <1>0, <1>1, ServeIs
  <1>2. ASSUME NEW p \in Executor, task[p].pc \in {"find", "create"},
               NEW j \in SaleId, Serve(j, task[p].order, task[p].ref)
        PROVE  sales'[i] = sales[i]
    BY <1>1, <1>2, ExecutorHas DEF Executing
  <1>3. ASSUME NEW p \in Executor, Create(p) \/ CallLost(p) PROVE sales'[i] = sales[i]
    BY <1>2, <1>3 DEF Create, CallLost, At
  <1>4. ASSUME NEW call \in late, ServeLate(call) PROVE sales'[i] = sales[i]
    BY <1>0, <1>1, <1>4 DEF ServeLate, TypeOK
  <1>5. CASE UNCHANGED sales
    BY <1>5
  <1>6. QED
    BY <1>3, <1>4, <1>5
    DEF Next, Work, Execute, Poll, ReadOrder, OrderUnread, ReadRetailer, RetailerUnread,
        Dispatch, Insert, RetryDue, Reopen, Resume, Find, Refuse, CallDelayed, Commit, MarkFailed,
        WritePartner, CommitPartner, WriteSale, Ack, WritebackLost, PlaceOrder, MapPartner, CommitRecord, Elapse, Crash,
        vars, core, refs, odoo, table

LEMMA IsSaleKept ==
  ASSUME ExportInv, [Next]_vars, NEW o \in Order, NEW i, IsSaleOf(i, o)
  PROVE  IsSaleOf(i, o)'
  BY SaleKept, OrderAssumption DEF IsSaleOf, NoSale

\* Core keeps the partner of a retailer unless it is replaced, the sale order of an
\* order, and what is placed; only the worker maps an order.
LEMMA CoreKept ==
  ASSUME ExportInv, [Next]_vars
  PROVE  /\ \A r \in Retailer : partner[r] # Null => partner'[r] = partner[r] \/ r \in replaced'
         /\ \A o \in Order : mapped[o] # Null => mapped'[o] = mapped[o]
         /\ \A o \in Order : mapped'[o] = mapped[o]
              \/ /\ At("worker", "write_sale") /\ o = task["worker"].order
                 /\ mapped'[o] = task["worker"].sale
         /\ placed \subseteq placed' /\ replaced \subseteq replaced'
  <1>0. TypeOK
    BY DEF ExportInv
  <1>1. CASE UNCHANGED <<placed, mapped, partner, replaced>>
    BY <1>1
  <1>2. ASSUME NEW r \in Retailer, NEW ref, RecordPartner(r, ref)
        PROVE  /\ \A q \in Retailer : partner[q] # Null => partner'[q] = partner[q] \/ q \in replaced'
               /\ replaced \subseteq replaced'
    BY <1>0, <1>2 DEF RecordPartner, TypeOK
  <1>3. CASE CommitPartner
    <2>1. Buyer[task["worker"].order] \in Retailer
      BY <1>3, ExecutorHas, OrderAssumption DEF CommitPartner, At, Executor, WritingBack
    <2>2. QED
      BY <1>2, <1>3, <2>1 DEF CommitPartner
  <1>4. ASSUME NEW c \in recording, CommitRecord(c)
        PROVE  /\ \A q \in Retailer : partner[q] # Null => partner'[q] = partner[q] \/ q \in replaced'
               /\ replaced \subseteq replaced' /\ UNCHANGED <<placed, mapped>>
    BY <1>0, <1>2, <1>4 DEF CommitRecord, TypeOK
  <1>5. CASE WriteSale \/ WritebackLost
    <2>1. "worker" \in Executor /\ task["worker"].pc \in WritingBack
      BY <1>5 DEF WriteSale, WritebackLost, At, WritingBack, Executor
    <2>2. task["worker"].order \in Order
      BY <2>1, ExecutorHas
    <2>3. QED
      BY <1>0, <1>5, <2>2 DEF WriteSale, WritebackLost, TypeOK, refs
  <1>6. ASSUME NEW o \in Order, PlaceOrder(o)
        PROVE  placed \subseteq placed' /\ UNCHANGED <<mapped, partner, replaced>>
    BY <1>6 DEF PlaceOrder, refs
  <1>7. QED
    BY <1>1, <1>3, <1>4, <1>5, <1>6
    DEF Next, Work, Execute, Poll, ReadOrder, OrderUnread, ReadRetailer, RetailerUnread,
        Dispatch, Insert, RetryDue, Reopen, Resume, Find, Create, CallLost, Refuse,
        CallDelayed, Commit, MarkFailed, WritePartner, CommitPartner, Ack, MapPartner, Elapse,
        Crash, ServeLate, vars, core, refs

\* What a step may make of one process.
LEMMA TaskMoves ==
  ASSUME ExportInv, [Next]_vars, NEW q \in Executor
  PROVE
         \/ task'[q] = task[q]
         \/ task'[q] = Idle
         \/ q = "worker" /\ \E o \in Order : ReadOrder(o)
         \/ q = "worker" /\ (ReadRetailer \/ Dispatch \/ Insert)
         \/ q = "retrier" /\ \E o \in Order : RetryDue(o)
         \/ Resume(q) \/ Find(q) \/ Create(q) \/ Commit(q)
         \/ task[q].pc \in {"find", "create"} /\ (GoesOn(q, "failed") \/ GoesOn(q, "rejected"))
         \/ /\ q = "worker" /\ task[q].pc = "write_partner" /\ GoesOn(q, "commit_partner")
            /\ task'[q].sale = task[q].sale
         \/ /\ q = "worker" /\ task[q].pc \in {"write_partner", "commit_partner"}
            /\ GoesOn(q, "write_sale")
            /\ task'[q].sale = task[q].sale /\ partner'[Buyer[task[q].order]] = task[q].ref
         \/ /\ q = "worker" /\ task[q].pc = "write_sale" /\ GoesOn(q, "ack")
            /\ task'[q].sale = task[q].sale /\ mapped'[task[q].order] = task[q].sale
  <1> DEFINE Goal ==
         \/ task'[q] = task[q]
         \/ task'[q] = Idle
         \/ q = "worker" /\ \E o \in Order : ReadOrder(o)
         \/ q = "worker" /\ (ReadRetailer \/ Dispatch \/ Insert)
         \/ q = "retrier" /\ \E o \in Order : RetryDue(o)
         \/ Resume(q) \/ Find(q) \/ Create(q) \/ Commit(q)
         \/ task[q].pc \in {"find", "create"} /\ (GoesOn(q, "failed") \/ GoesOn(q, "rejected"))
         \/ /\ q = "worker" /\ task[q].pc = "write_partner" /\ GoesOn(q, "commit_partner")
            /\ task'[q].sale = task[q].sale
         \/ /\ q = "worker" /\ task[q].pc \in {"write_partner", "commit_partner"}
            /\ GoesOn(q, "write_sale")
            /\ task'[q].sale = task[q].sale /\ partner'[Buyer[task[q].order]] = task[q].ref
         \/ /\ q = "worker" /\ task[q].pc = "write_sale" /\ GoesOn(q, "ack")
            /\ task'[q].sale = task[q].sale /\ mapped'[task[q].order] = task[q].sale
  <1>0. TypeOK /\ SamePayload /\ SalesAreReal /\ "worker" \in Executor
    BY DEF ExportInv, Executor
  <1>1. ASSUME NEW p \in Executor, Rest(p) PROVE Goal
    BY <1>0, <1>1, RestIs
  <1>2. ASSUME NEW p \in Executor, Resume(p) \/ Find(p) \/ Create(p) \/ Commit(p) PROVE Goal
    BY <1>0, <1>2, ResumeIs, FindIs, CreateIs, CommitIs
  <1>3. ASSUME NEW p \in Executor, CallLost(p) \/ Refuse(p) \/ CallDelayed(p) PROVE Goal
    <2>1. /\ task[p].pc \in {"find", "create"} /\ task[p].pc # "idle"
          /\ Goto(p, "failed") \/ Goto(p, "rejected")
      BY <1>3 DEF CallLost, Refuse, CallDelayed, At
    <2>2. /\ \A r \in Executor : r # p => task'[r] = task[r]
          /\ GoesOn(p, "failed") \/ GoesOn(p, "rejected")
      BY <1>0, <2>1, GotoIs DEF Point
    <2>3. QED
      BY <2>1, <2>2
  <1>4. ASSUME NEW o \in Order, ReadOrder(o) PROVE Goal
    BY <1>0, <1>4, ReadOrderIs DEF Executor
  <1>5. ASSUME NEW o \in Order, RetryDue(o) PROVE Goal
    BY <1>0, <1>5, RetryDueIs DEF Executor
  <1>6. CASE ReadRetailer
    BY <1>0, <1>6, ReadRetailerIs DEF Executor
  <1>7. CASE Dispatch \/ Insert
    BY <1>0, <1>7, DispatchIs, InsertIs DEF Executor
  <1>8. CASE WritePartner
    BY <1>0, <1>8, WritePartnerIs DEF WritePartner, core, refs, Executor
  <1>9. CASE CommitPartner
    <2>1. task["worker"].pc = "commit_partner"
      BY <1>9 DEF CommitPartner, At
    <2>2. /\ Buyer[task["worker"].order] \in Retailer /\ "write_sale" \in Point
      BY <1>0, <2>1, ExecutorHas, OrderAssumption DEF WritingBack, Point
    <2>3. partner'[Buyer[task["worker"].order]] = task["worker"].ref
      BY <1>0, <1>9, <2>2 DEF CommitPartner, RecordPartner, TypeOK
    <2>4. /\ GoesOn("worker", "write_sale") /\ task'["worker"].sale = task["worker"].sale
          /\ \A r \in Executor : r # "worker" => task'[r] = task[r]
      BY <1>0, <1>9, <2>1, <2>2, GotoIs DEF CommitPartner
    <2>5. QED
      BY <2>1, <2>3, <2>4
  <1>10. CASE WriteSale
    <2>1. task["worker"].pc = "write_sale"
      BY <1>10 DEF WriteSale, At
    <2>2. task["worker"].order \in Order /\ "ack" \in Point
      BY <1>0, <2>1, ExecutorHas DEF WritingBack, Point
    <2>3. CASE mapped[task["worker"].order] \in {Null, task["worker"].sale}
      <3>1. mapped'[task["worker"].order] = task["worker"].sale
        BY <1>0, <1>10, <2>2, <2>3 DEF WriteSale, TypeOK
      <3>2. Goto("worker", "ack")
        BY <1>10, <2>3 DEF WriteSale
      <3>3. /\ GoesOn("worker", "ack") /\ task'["worker"].sale = task["worker"].sale
            /\ \A r \in Executor : r # "worker" => task'[r] = task[r]
        BY <1>0, <2>1, <2>2, <3>2, GotoIs
      <3>4. QED
        BY <2>1, <3>1, <3>3
    <2>4. CASE mapped[task["worker"].order] \notin {Null, task["worker"].sale}
      BY <1>0, <1>1, <1>10, <2>4 DEF WriteSale
    <2>5. QED
      BY <2>3, <2>4
  <1>11. CASE UNCHANGED task
    BY <1>11
  <1>12. QED
    BY <1>0, <1>1, <1>2, <1>3, <1>4, <1>5, <1>6, <1>7, <1>8, <1>10, <1>11, <1>9
    DEF Next, Work, Execute, Poll, OrderUnread, RetailerUnread, Reopen, MarkFailed,
        Ack, WritebackLost, PlaceOrder, MapPartner, CommitRecord, Elapse, Crash, ServeLate, vars, core, refs, odoo, table

-----------------------------------------------------------------------------
(* The conjuncts of the invariant, one by one *)

LEMMA PlacedStep == ExportInv /\ [Next]_vars => WorkIsPlaced'
  <1> SUFFICES ASSUME ExportInv, [Next]_vars PROVE WorkIsPlaced'
    OBVIOUS
  <1>0. TypeOK /\ WorkIsPlaced /\ SamePayload /\ SalesAreReal /\ placed \subseteq placed'
        /\ "worker" \in Executor
    BY CoreKept DEF ExportInv, Executor
  <1>1. batch' \subseteq batch \/ batch' \subseteq placed
    <2>1. CASE Poll
      BY <2>1 DEF Poll, Oldest
    <2>2. batch' \subseteq batch \/ Poll
      BY DEF Next, Work, Execute, ReadOrder, OrderUnread, IsNext, ReadRetailer, RetailerUnread,
          Dispatch, Insert, RetryDue, Reopen, Resume, Find, Create, CallLost, Refuse, CallDelayed, Commit,
          MarkFailed, WritePartner, CommitPartner, WriteSale, Ack, WritebackLost, PlaceOrder, MapPartner, CommitRecord,
          Elapse, Crash, ServeLate, vars, core, refs, odoo, table
    <2>3. QED
      BY <2>1, <2>2
  <1>2. ASSUME task'["worker"].pc # "idle" PROVE task'["worker"].order \in placed
    <2>1. CASE task["worker"].pc # "idle" /\ task'["worker"].order = task["worker"].order
      BY <1>0, <2>1 DEF WorkIsPlaced, At
    <2>2. ASSUME NEW o \in Order, ReadOrder(o) PROVE task'["worker"].order \in placed
      <3>1. o \in placed
        BY <1>0, <2>2 DEF ReadOrder, IsNext, WorkIsPlaced
      <3>2. QED
        BY <1>0, <1>2, <2>1, <2>2, <3>1, ReadOrderIs
    <2>3. CASE ReadRetailer
      BY <1>0, <2>1, <2>3, ReadRetailerIs
    <2>4. CASE Dispatch \/ Insert
      BY <1>0, <1>2, <2>1, <2>4, DispatchIs, InsertIs DEF GoesOn, Idle
    <2>5. CASE Resume("worker") \/ Find("worker") \/ Create("worker") \/ Commit("worker")
      BY <1>0, <1>2, <2>1, <2>5, ResumeIs, FindIs, CreateIs, CommitIs DEF GoesOn, Idle, Find, At
    <2>6. QED
      BY <1>0, <1>2, <2>1, <2>2, <2>3, <2>4, <2>5, TaskMoves DEF GoesOn, Idle
  <1>3. QED
    BY <1>0, <1>1, <1>2 DEF WorkIsPlaced, At

LEMMA PayloadStep == ExportInv /\ [Next]_vars => SamePayload'
  <1> SUFFICES ASSUME ExportInv, [Next]_vars PROVE SamePayload'
    OBVIOUS
  <1>0. TypeOK /\ SamePayload /\ SalesAreReal /\ "worker" \in Executor
    BY DEF ExportInv, Executor
  <1>1. ASSUME NEW o \in Order, jobs'[o].status # "absent" PROVE jobs'[o].payload_hash \in Payload
    <2>1. CASE jobs[o].status # "absent"
      BY <1>0, <2>1, RowKept DEF SamePayload, IsPayload
    <2>2. CASE jobs[o].status = "absent"
      <3>1. Insert /\ o = task["worker"].order
        BY <1>1, <2>2, RowAppears
      <3>2. jobs'[o] = NewJob(task["worker"].ref) /\ task["worker"].ref \in Payload
        BY <1>0, <3>1, InsertIs
      <3>3. QED
        BY <3>2 DEF NewJob, NoJob
    <2>3. QED
      BY <2>1, <2>2
  <1>2. ASSUME task'["worker"].pc \in {"dispatch", "insert"} PROVE task'["worker"].ref \in Payload
    <2>1. CASE task'["worker"] = task["worker"]
      BY <1>0, <1>2, <2>1 DEF SamePayload
    <2>2. CASE ReadRetailer
      BY <1>0, <2>2, ReadRetailerIs
    <2>3. ASSUME NEW o \in Order, ReadOrder(o) PROVE FALSE
      BY <1>0, <1>2, <2>1, <2>3, ReadOrderIs
    <2>4. CASE Dispatch \/ Insert
      BY <1>0, <1>2, <2>4, DispatchIs, InsertIs DEF GoesOn, Idle
    <2>5. CASE Resume("worker") \/ Find("worker") \/ Create("worker") \/ Commit("worker")
      BY <1>0, <1>2, <2>5, ResumeIs, FindIs, CreateIs, CommitIs DEF GoesOn, Idle
    <2>6. QED
      BY <1>0, <1>2, <2>1, <2>2, <2>3, <2>4, <2>5, TaskMoves DEF GoesOn, Idle
  <1>3. ASSUME task'["worker"].pc = "insert" PROVE jobs'[task'["worker"].order].status = "absent"
    <2> DEFINE o == task'["worker"].order
    <2>1. o \in Order /\ o = task["worker"].order /\ jobs[o].status = "absent" /\ ~Insert
      <3>1. CASE task'["worker"] = task["worker"]
        <4>1. task["worker"] \in Busy
          BY <1>0, <1>3, <3>1, IsBusy
        <4>2. ~Insert
          BY <1>0, <1>3, <3>1, InsertIs DEF GoesOn
        <4>3. QED
          BY <1>0, <1>3, <3>1, <4>1, <4>2 DEF SamePayload, At, Busy
      <3>2. CASE Dispatch
        <4>1. /\ GoesOn("worker", "insert") /\ jobs[task["worker"].order].status = "absent"
              /\ task["worker"].pc = "dispatch"
          BY <1>0, <1>3, <3>2, DispatchIs DEF GoesOn, Idle
        <4>2. QED
          BY <4>1 DEF GoesOn, Busy, Insert, At
      <3>3. ASSUME NEW q \in Order, ReadOrder(q) PROVE task'["worker"] = task["worker"]
        BY <1>0, <1>3, <3>3, ReadOrderIs
      <3>4. CASE ReadRetailer \/ Insert
        BY <1>0, <1>3, <3>4, ReadRetailerIs, InsertIs DEF GoesOn
      <3>5. CASE Resume("worker") \/ Find("worker") \/ Create("worker") \/ Commit("worker")
        BY <1>0, <1>3, <3>5, ResumeIs, FindIs, CreateIs, CommitIs DEF GoesOn, Idle
      <3>6. QED
        BY <1>0, <1>3, <3>1, <3>2, <3>3, <3>4, <3>5, TaskMoves DEF GoesOn, Idle
    <2>2. QED
      BY <2>1, RowAppears
  <1>4. ASSUME NEW p \in Executor, task'[p].pc \in Executing \cup WritingBack
        PROVE  IsPayload(task[p].order, task[p].ref)'
    <2>1. ASSUME NEW o \in Order, NEW ref, IsPayload(o, ref),
                 task'[p].order = o, task'[p].ref = ref
          PROVE  IsPayload(task[p].order, task[p].ref)'
      <3>1. IsPayload(o, ref)'
        BY <2>1, RowKept
      <3>2. QED
        BY <2>1, <3>1 DEF IsPayload
    <2>2. CASE /\ task[p].pc \in Executing \cup WritingBack
               /\ task'[p].order = task[p].order /\ task'[p].ref = task[p].ref
      BY <2>1, <2>2, ExecutorHas
    <2>3. ASSUME NEW o \in Order, p = "worker", ReadOrder(o) PROVE task'[p] = task[p]
      BY <1>0, <1>4, <2>3, ReadOrderIs DEF Executing, WritingBack
    <2>4. CASE p = "worker" /\ Dispatch
      <3> DEFINE t == task["worker"]
      <3>1. /\ t.order \in Order /\ IsPayload(t.order, t.ref)
            /\ task'[p].order = t.order /\ task'[p].ref = t.ref
        BY <1>0, <1>4, <2>4, DispatchIs DEF GoesOn, Busy, Idle, Executing, WritingBack
      <3>2. QED
        BY <2>1, <3>1
    <2>5. CASE p = "worker" /\ Insert
      <3> DEFINE t == task["worker"]
      <3>1. /\ jobs'[t.order] = NewJob(t.ref)
            /\ task'[p].order = t.order /\ task'[p].ref = t.ref
        BY <1>0, <2>5, InsertIs DEF GoesOn
      <3>2. QED
        BY <3>1 DEF IsPayload, NewJob, NoJob
    <2>6. ASSUME NEW o \in Order, p = "retrier", RetryDue(o)
          PROVE  IsPayload(task[p].order, task[p].ref)'
      <3>1. IsPayload(o, jobs[o].payload_hash)
        BY <1>0, <2>6, RetryDueIs DEF IsPayload
      <3>2. QED
        BY <1>0, <2>1, <2>6, <3>1, RetryDueIs
    <2>7. CASE Resume(p) \/ Find(p) \/ Create(p) \/ Commit(p)
      <3>1. task[p].pc \in Executing
        BY <2>7 DEF Resume, Find, Create, Commit, At, Executing
      <3>2. task'[p].order = task[p].order /\ task'[p].ref = task[p].ref
        BY <1>0, <1>4, <2>7, ResumeIs, FindIs, CreateIs, CommitIs
        DEF GoesOn, Idle, Executing, WritingBack
      <3>3. QED
        BY <2>2, <3>1, <3>2
    <2>8. CASE task'[p] = task[p]
      BY <1>4, <2>2, <2>8
    <2>9. CASE p = "worker" /\ ReadRetailer
      BY <1>0, <1>4, <2>9, ReadRetailerIs DEF Executing, WritingBack
    <2>10. QED
      BY <1>4, <2>2, <2>3, <2>4, <2>6, <2>7, <2>8, <2>9, <2>5, TaskMoves
      DEF GoesOn, Idle, Executing, WritingBack
  <1>5. QED
    BY <1>1, <1>2, <1>4, <1>3 DEF SamePayload, At

\* A sale order comes into Odoo, or onto its way there, from an execution.
LEMMA SalesComeFrom ==
  ASSUME ExportInv, [Next]_vars
  PROVE  /\ \A i \in SaleId : sales'[i] # NoSale =>
              \/ sales'[i] = sales[i]
              \/ sales[i] = NoSale /\ \E p \in Executor :
                   /\ task[p].pc = "create" /\ (Create(p) \/ CallLost(p))
                   /\ sales'[i].order = task[p].order /\ sales'[i].ref = task[p].ref
              \/ sales[i] = NoSale /\ \E call \in late :
                   ServeLate(call) /\ sales'[i].order = call.order /\ sales'[i].ref = call.ref
         /\ \A s \in late' : s \in late \/ \E p \in Executor :
              task[p].pc = "create" /\ s.order = task[p].order /\ s.ref = task[p].ref
  <1>0. TypeOK
    BY DEF ExportInv
  <1>1. ASSUME NEW i \in SaleId, sales'[i] # sales[i], sales'[i] # NoSale
        PROVE  \/ sales[i] = NoSale /\ \E p \in Executor :
                    /\ task[p].pc = "create" /\ (Create(p) \/ CallLost(p))
                    /\ sales'[i].order = task[p].order /\ sales'[i].ref = task[p].ref
               \/ sales[i] = NoSale /\ \E call \in late :
                    ServeLate(call) /\ sales'[i].order = call.order /\ sales'[i].ref = call.ref
    <2>1. ASSUME NEW j \in SaleId, NEW o \in Order, NEW ref \in Payload, Serve(j, o, ref)
          PROVE  sales[i] = NoSale /\ sales'[i].order = o /\ sales'[i].ref = ref
      BY <1>0, <1>1, <2>1, ServeIs
    <2>2. ASSUME NEW p \in Executor, Create(p) \/ CallLost(p)
          PROVE  /\ sales[i] = NoSale /\ task[p].pc = "create"
                 /\ sales'[i].order = task[p].order /\ sales'[i].ref = task[p].ref
      <3>1. PICK j \in SaleId : task[p].pc = "create" /\ Serve(j, task[p].order, task[p].ref)
        BY <1>1, <2>2 DEF Create, CallLost, At
      <3>2. task[p].order \in Order /\ task[p].ref \in Payload
        BY <3>1, ExecutorHas DEF Executing
      <3>3. QED
        BY <2>1, <3>1, <3>2
    <2>3. ASSUME NEW call \in late, ServeLate(call)
          PROVE  sales[i] = NoSale /\ sales'[i].order = call.order /\ sales'[i].ref = call.ref
      BY <1>0, <2>1, <2>3 DEF ServeLate, TypeOK
    <2>4. \/ \E p \in Executor : Create(p) \/ CallLost(p)
          \/ \E call \in late : ServeLate(call)
      BY <1>1
      DEF Next, Work, Execute, Poll, ReadOrder, OrderUnread, ReadRetailer, RetailerUnread,
          Dispatch, Insert, RetryDue, Reopen, Resume, Find, Refuse, CallDelayed, Commit, MarkFailed,
          WritePartner, CommitPartner, WriteSale, Ack, WritebackLost, PlaceOrder, MapPartner, CommitRecord, Elapse, Crash,
          vars, core, refs, odoo, table
    <2>5. QED
      BY <2>2, <2>3, <2>4
  <1>2. ASSUME NEW s \in late', s \notin late
        PROVE  \E p \in Executor :
                 task[p].pc = "create" /\ s.order = task[p].order /\ s.ref = task[p].ref
    <2>1. PICK p \in Executor : CallDelayed(p)
      BY <1>2
      DEF Next, Work, Execute, Poll, ReadOrder, OrderUnread, ReadRetailer, RetailerUnread,
          Dispatch, Insert, RetryDue, Reopen, Resume, Find, Create, CallLost, Refuse, Commit, MarkFailed,
          WritePartner, CommitPartner, WriteSale, Ack, WritebackLost, PlaceOrder, MapPartner, CommitRecord, Elapse, Crash,
          ServeLate, vars, core, refs, odoo, table
    <2>2. s = SaleFor(task[p].order, task[p].ref) /\ task[p].pc = "create"
      BY <1>2, <2>1 DEF CallDelayed, At
    <2>3. QED
      BY <2>2 DEF SaleFor
  <1>3. QED
    BY <1>1, <1>2

LEMMA SalesPayloadStep == ExportInv /\ [Next]_vars => SalesArePayloads'
  <1> SUFFICES ASSUME ExportInv, [Next]_vars PROVE SalesArePayloads'
    OBVIOUS
  <1>0. TypeOK /\ SalesArePayloads
    BY DEF ExportInv
  <1>1. ASSUME NEW s, NEW o \in Order, NEW ref, s.order = o, s.ref = ref, IsPayload(o, ref)
        PROVE  jobs'[s.order].status # "absent" /\ jobs'[s.order].payload_hash = s.ref
    <2>1. IsPayload(o, ref)'
      BY <1>1, RowKept
    <2>2. QED
      BY <1>1, <2>1 DEF IsPayload
  <1>2. ASSUME NEW p \in Executor, task[p].pc = "create"
        PROVE  task[p].order \in Order /\ IsPayload(task[p].order, task[p].ref)
    BY <1>2, ExecutorHas DEF Executing
  <1>3. ASSUME NEW call \in late
        PROVE  call.order \in Order /\ IsPayload(call.order, call.ref)
    <2>1. call.order \in Order
      BY <1>0 DEF TypeOK
    <2>2. QED
      BY <1>0, <2>1, OrderAssumption DEF SalesArePayloads, NoSale
  <1>4. ASSUME NEW s, NEW i \in SaleId, s = sales'[i], s # NoSale
        PROVE  jobs'[s.order].status # "absent" /\ jobs'[s.order].payload_hash = s.ref
    <2>1. CASE sales'[i] = sales[i]
      <3>1. IsPayload(s.order, s.ref) /\ s.order \in Order
        BY <1>0, <1>4, <2>1 DEF SalesArePayloads, TypeOK
      <3>2. QED
        BY <1>1, <3>1
    <2>2. ASSUME NEW p \in Executor, task[p].pc = "create",
                 s.order = task[p].order, s.ref = task[p].ref
          PROVE  jobs'[s.order].status # "absent" /\ jobs'[s.order].payload_hash = s.ref
      BY <1>1, <1>2, <2>2
    <2>3. ASSUME NEW call \in late, s.order = call.order, s.ref = call.ref
          PROVE  jobs'[s.order].status # "absent" /\ jobs'[s.order].payload_hash = s.ref
      BY <1>1, <1>3, <2>3
    <2>4. QED
      BY <1>4, <2>1, <2>2, <2>3, SalesComeFrom
  <1>5. ASSUME NEW s \in late'
        PROVE  jobs'[s.order].status # "absent" /\ jobs'[s.order].payload_hash = s.ref
    <2>1. CASE s \in late
      BY <1>1, <1>3, <2>1
    <2>2. ASSUME NEW p \in Executor, task[p].pc = "create",
                 s.order = task[p].order, s.ref = task[p].ref
          PROVE  jobs'[s.order].status # "absent" /\ jobs'[s.order].payload_hash = s.ref
      BY <1>1, <1>2, <2>2
    <2>3. QED
      BY <2>1, <2>2, SalesComeFrom
  <1>6. QED
    BY <1>4, <1>5 DEF SalesArePayloads, IsPayload

LEMMA RealStep == ExportInv /\ [Next]_vars => SalesAreReal'
  <1> SUFFICES ASSUME ExportInv, [Next]_vars PROVE SalesAreReal'
    OBVIOUS
  <1>0. TypeOK /\ SalesAreReal /\ SamePayload /\ "worker" \in Executor
    BY DEF ExportInv, Executor
  <1>1. ASSUME NEW p \in Executor, task'[p].pc \in {"commit"} \cup WritingBack
        PROVE  IsSaleOf(task[p].sale, task[p].order)'
    <2>1. ASSUME NEW o \in Order, NEW i, IsSaleOf(i, o), task'[p].order = o, task'[p].sale = i
          PROVE  IsSaleOf(task[p].sale, task[p].order)'
      <3>1. IsSaleOf(i, o)'
        BY <2>1, IsSaleKept
      <3>2. QED
        BY <2>1, <3>1 DEF IsSaleOf
    <2>2. CASE /\ task[p].pc \in {"commit"} \cup WritingBack
               /\ task'[p].order = task[p].order /\ task'[p].sale = task[p].sale
      <3>1. task[p].order \in Order
        BY <2>2, ExecutorHas DEF Executing
      <3>2. IsSaleOf(task[p].sale, task[p].order)
        BY <1>0, <2>2 DEF SalesAreReal
      <3>3. QED
        BY <2>1, <2>2, <3>1, <3>2
    <2>3. CASE Find(p)
      <3>1. /\ task[p].order \in Order /\ task'[p].order = task[p].order
            /\ IsSaleOf(task'[p].sale, task[p].order)
        <4>1. task[p].order \in Order
          BY <2>3, ExecutorHas DEF Find, At, Executing
        <4>2. QED
          BY <1>0, <1>1, <2>3, <4>1, FindIs DEF GoesOn, WritingBack
      <3>2. QED
        BY <2>1, <3>1
    <2>4. CASE Create(p)
      <3> DEFINE i == task'[p].sale
      <3>1. /\ task[p].order \in Order /\ task[p].ref \in Payload
            /\ task'[p].order = task[p].order /\ i \in SaleId
            /\ Serve(i, task[p].order, task[p].ref)
        <4>1. task[p].order \in Order /\ task[p].ref \in Payload
          BY <2>4, ExecutorHas DEF Create, At, Executing
        <4>2. QED
          BY <1>0, <2>4, <4>1, CreateIs DEF GoesOn
      <3>2. sales'[i].order = task[p].order
        BY <1>0, <3>1, ServeIs
      <3>3. QED
        BY <3>1, <3>2 DEF IsSaleOf
    <2>5. CASE Commit(p)
      BY <1>0, <1>1, <2>2, <2>5, CommitIs DEF GoesOn, Idle, WritingBack
    <2>6. CASE p = "worker" /\ Dispatch
      <3> DEFINE o == task["worker"].order
                 i == jobs[o].result
      <3>1. o \in Order /\ IsSaleOf(i, o) /\ task'[p].order = o /\ task'[p].sale = i
        BY <1>0, <1>1, <2>6, DispatchIs DEF GoesOn, Busy, Idle, WritingBack
      <3>2. QED
        BY <2>1, <3>1
    <2>7. ASSUME NEW o \in Order, p = "worker", ReadOrder(o) PROVE task'[p] = task[p]
      BY <1>0, <1>1, <2>7, ReadOrderIs DEF WritingBack
    <2>8. ASSUME NEW o \in Order, p = "retrier", RetryDue(o) PROVE FALSE
      BY <1>0, <1>1, <2>8, RetryDueIs DEF WritingBack
    <2>9. CASE p = "worker" /\ (ReadRetailer \/ Insert)
      BY <1>0, <1>1, <2>9, ReadRetailerIs, InsertIs DEF GoesOn, WritingBack
    <2>10. CASE Resume(p)
      BY <1>0, <1>1, <2>10, ResumeIs DEF GoesOn, WritingBack
    <2>11. CASE task'[p] = task[p]
      BY <1>1, <2>2, <2>11
    <2>12. QED
      BY <1>1, <2>2, <2>3, <2>4, <2>5, <2>6, <2>7, <2>8, <2>9, <2>11, <2>10, TaskMoves
      DEF GoesOn, Idle, WritingBack
  <1>2. ASSUME NEW o \in Order, jobs'[o].status = "completed" PROVE IsSaleOf(jobs[o].result, o)'
    <2>1. ASSUME NEW i, IsSaleOf(i, o), jobs'[o].result = i PROVE IsSaleOf(jobs[o].result, o)'
      <3>1. IsSaleOf(i, o)'
        BY <2>1, IsSaleKept
      <3>2. QED
        BY <2>1, <3>1 DEF IsSaleOf
    <2>2. CASE jobs[o].status = "completed" /\ jobs'[o].result = jobs[o].result
      BY <1>0, <2>1, <2>2 DEF SalesAreReal
    <2>3. CASE Insert
      <3>1. CASE jobs'[o] = jobs[o]
        BY <1>2, <2>2, <3>1
      <3>2. CASE jobs'[o] = NewJob(task["worker"].ref)
        BY <1>2, <3>2 DEF NewJob, NoJob
      <3>3. QED
        BY <1>0, <2>3, <3>1, <3>2, InsertIs
    <2>4. ASSUME NEW p \in Executor, Resume(p) PROVE IsSaleOf(jobs[o].result, o)'
      <3>1. CASE jobs'[o] = jobs[o]
        BY <1>2, <2>2, <3>1
      <3>2. CASE jobs'[o].status = "running"
        BY <1>2, <3>2
      <3>3. QED
        BY <1>0, <2>4, <3>1, <3>2, ResumeIs
    <2>5. ASSUME NEW q \in Order, Reopen(q) PROVE IsSaleOf(jobs[o].result, o)'
      <3>1. RetryJob(jobs[q]).status = "failed"
        BY <1>0, StoredStatus DEF TypeOK
      <3>2. QED
        BY <1>0, <1>2, <2>2, <2>5, <3>1 DEF Reopen, TypeOK
    <2>6. ASSUME NEW q \in Order, Elapse(q) PROVE IsSaleOf(jobs[o].result, o)'
      <3>1. jobs'[o].status = jobs[o].status /\ jobs'[o].result = jobs[o].result
        BY <1>0, <2>6 DEF Elapse, TypeOK, Job
      <3>2. QED
        BY <1>2, <2>2, <3>1
    <2>7. ASSUME NEW p \in Executor, Commit(p) PROVE IsSaleOf(jobs[o].result, o)'
      <3>1. /\ task[p].pc = "commit" /\ task[p].order \in Order /\ jobs[task[p].order] \in Job
            /\ IsSaleOf(task[p].sale, task[p].order)
        BY <1>0, <2>7, ExecutorHas DEF Commit, At, Executing, SalesAreReal
      <3>2. jobs' = [jobs EXCEPT ![task[p].order] = CommitJob(jobs[task[p].order], task[p].sale)]
        BY <2>7 DEF Commit
      <3>3. CASE o # task[p].order
        BY <1>0, <1>2, <2>2, <3>2, <3>3 DEF TypeOK
      <3>4. CASE o = task[p].order
        <4>1. jobs'[o].result = task[p].sale
          BY <1>0, <3>1, <3>2, <3>4 DEF TypeOK, CommitJob, Job
        <4>2. QED
          BY <2>1, <3>1, <3>4, <4>1
      <3>5. QED
        BY <3>3, <3>4
    <2>8. ASSUME NEW p \in Executor, MarkFailed(p) PROVE IsSaleOf(jobs[o].result, o)'
      <3>1. task[p].order \in Order /\ jobs[task[p].order] \in Job
        BY <2>8, ExecutorHas DEF MarkFailed, Executing
      <3>2. FailJob(jobs[task[p].order], At(p, "failed")).status \in {"failed", "dead"}
        BY <3>1, StoredStatus
      <3>3. \A q \in Order : jobs'[q] = IF q = task[p].order
                                          THEN FailJob(jobs[q], At(p, "failed")) ELSE jobs[q]
        BY <1>0, <2>8, <3>1 DEF MarkFailed, TypeOK
      <3>4. QED
        BY <1>2, <2>2, <3>2, <3>3
    <2>9. CASE UNCHANGED jobs
      BY <1>2, <2>2, <2>9
    <2>10. QED
      BY <2>3, <2>4, <2>5, <2>6, <2>7, <2>8, <2>9
      DEF Next, Work, Execute, Poll, ReadOrder, OrderUnread, ReadRetailer, RetailerUnread,
          Dispatch, RetryDue, Find, Create, CallLost, Refuse, CallDelayed, WritePartner, CommitPartner, WriteSale, Ack,
          WritebackLost, PlaceOrder, MapPartner, CommitRecord, Crash, ServeLate, vars, core, refs, odoo, table
  <1>3. ASSUME NEW o \in Order, mapped'[o] # Null PROVE IsSaleOf(mapped[o], o)'
    <2>1. ASSUME NEW i, IsSaleOf(i, o), mapped'[o] = i PROVE IsSaleOf(mapped[o], o)'
      <3>1. IsSaleOf(i, o)'
        BY <2>1, IsSaleKept
      <3>2. QED
        BY <2>1, <3>1 DEF IsSaleOf
    <2>2. CASE mapped'[o] = mapped[o]
      BY <1>0, <1>3, <2>1, <2>2 DEF SalesAreReal
    <2>3. CASE /\ At("worker", "write_sale") /\ o = task["worker"].order
               /\ mapped'[o] = task["worker"].sale
      BY <1>0, <2>1, <2>3 DEF SalesAreReal, At, WritingBack
    <2>4. QED
      BY <2>2, <2>3, CoreKept
  <1>4. QED
    BY <1>1, <1>2, <1>3 DEF SalesAreReal, IsSaleOf


\* Nobody but the worker itself leaves the writeback, and Core keeps what it needs.
LEMMA PartnerStep == ExportInv /\ [Next]_vars => PartnerIsKept'
  <1> SUFFICES ASSUME ExportInv, [Next]_vars PROVE PartnerIsKept'
    OBVIOUS
  <1> DEFINE t == task["worker"]
             u == task'["worker"]
             r == Buyer[t.order]
  <1>0. TypeOK /\ SamePayload /\ SalesAreReal /\ PartnerIsKept /\ "worker" \in Executor
        /\ "retrier" \in Executor
    BY DEF ExportInv, Executor
  <1> DEFINE Kept(x) == Buyer[x.order] \in replaced \/ partner[Buyer[x.order]] = x.ref
             KeptNext(x) == Buyer[x.order] \in replaced' \/ partner'[Buyer[x.order]] = x.ref
  <1>1. ASSUME t.pc \in {"dispatch", "insert"} \cup Executing \cup WritingBack,
               Kept(t), u.order = t.order, u.ref = t.ref
        PROVE  KeptNext(u)
    <2>1. t \in Busy /\ t.order \in Order /\ r \in Retailer
      BY <1>0, <1>1, IsBusy, OrderAssumption DEF Executing, WritingBack, Busy
    <2>2. t.ref # Null
      <3>1. CASE t.pc \in {"dispatch", "insert"}
        BY <1>0, <3>1, NullAssumption DEF SamePayload
      <3>2. CASE t.pc \in Executing \cup WritingBack
        BY <1>0, <3>2, ExecutorHas, NullAssumption
      <3>3. QED
        BY <1>1, <3>1, <3>2
    <2>3. QED
      BY <1>1, <2>1, <2>2, CoreKept
  <1>2. ASSUME u.pc \in {"dispatch", "insert"} \cup Executing \cup WritingBack
        PROVE  u.seen = Null \/ KeptNext(u)
    <2>1. ASSUME t.pc \in {"dispatch", "insert"} \cup Executing \cup WritingBack,
                 u.order = t.order, u.seen = t.seen, u.ref = t.ref
          PROVE  u.seen = Null \/ KeptNext(u)
      <3>1. t.seen = Null \/ Kept(t)
        BY <1>0, <2>1 DEF PartnerIsKept
      <3>2. QED
        BY <1>1, <2>1, <3>1
    <2>2. CASE ReadRetailer
      <3>1. u.order = t.order /\ partner' = partner
        BY <1>0, <2>2, ReadRetailerIs DEF ReadRetailer, core, refs
      <3>2. QED
        BY <1>0, <2>2, <3>1, ReadRetailerIs
    <2>3. CASE Dispatch \/ Insert
      BY <1>0, <1>2, <2>1, <2>3, DispatchIs, InsertIs DEF GoesOn, Idle, Executing, WritingBack
    <2>4. CASE Resume("worker") \/ Find("worker") \/ Create("worker") \/ Commit("worker")
      <3>1. t.pc \in Executing
        BY <2>4 DEF Resume, Find, Create, Commit, At, Executing
      <3>2. u.order = t.order /\ u.seen = t.seen /\ u.ref = t.ref
        BY <1>0, <1>2, <2>4, ResumeIs, FindIs, CreateIs, CommitIs
        DEF GoesOn, Idle, Executing, WritingBack
      <3>3. QED
        BY <2>1, <3>1, <3>2
    <2>5. ASSUME NEW o \in Order, ReadOrder(o) PROVE u = t
      BY <1>0, <1>2, <2>5, ReadOrderIs DEF Executing, WritingBack
    <2>6. QED
      BY <1>0, <1>2, <2>1, <2>2, <2>3, <2>4, <2>5, TaskMoves
      DEF GoesOn, Idle, Executing, WritingBack
  <1>3. ASSUME u.pc \in {"write_sale", "ack"} PROVE KeptNext(u)
    <2>1. CASE u.seen # Null
      BY <1>2, <1>3, <2>1 DEF WritingBack
    <2>2. CASE u.seen = Null
      <3>1. ASSUME t.pc \in {"write_sale", "ack"}, u.order = t.order, u.ref = t.ref
            PROVE  KeptNext(u)
        <4>1. Kept(t)
          BY <1>0, <3>1 DEF PartnerIsKept
        <4>2. QED
          BY <1>1, <3>1, <4>1 DEF WritingBack
      <3>2. ASSUME NEW o \in Order, ReadOrder(o) PROVE u = t
        BY <1>0, <1>3, <3>2, ReadOrderIs
      <3>3. CASE Dispatch \/ Insert \/ ReadRetailer
        BY <1>0, <1>3, <2>2, <3>3, DispatchIs, InsertIs, ReadRetailerIs DEF GoesOn, Idle
      <3>4. CASE Resume("worker") \/ Find("worker") \/ Create("worker") \/ Commit("worker")
        BY <1>0, <1>3, <2>2, <3>4, ResumeIs, FindIs, CreateIs, CommitIs DEF GoesOn, Idle
      <3>5. CASE GoesOn("worker", "write_sale") /\ partner'[r] = t.ref
        BY <3>5 DEF GoesOn
      <3>6. QED
        BY <1>0, <1>3, <3>1, <3>2, <3>3, <3>4, <3>5, TaskMoves DEF GoesOn, Idle
    <2>3. QED
      BY <2>1, <2>2
  <1>4. ASSUME u.pc = "ack" PROVE mapped'[u.order] # Null
    <2>1. CASE t.pc = "ack" /\ u.order = t.order
      <3>1. t.order \in Order /\ mapped[t.order] # Null
        BY <1>0, <2>1, ExecutorHas DEF WritingBack, PartnerIsKept
      <3>2. QED
        BY <2>1, <3>1, CoreKept
    <2>2. CASE t.pc = "write_sale" /\ GoesOn("worker", "ack") /\ mapped'[t.order] = t.sale
      <3>1. t.sale \in SaleId
        BY <1>0, <2>2, ExecutorHas DEF WritingBack
      <3>2. QED
        BY <2>2, <3>1, NullAssumption, PayloadAssumption DEF GoesOn
    <2>3. ASSUME NEW o \in Order, ReadOrder(o) PROVE FALSE
      BY <1>0, <1>4, <2>1, <2>3, ReadOrderIs
    <2>4. CASE Dispatch \/ Insert \/ ReadRetailer
      BY <1>0, <1>4, <2>4, DispatchIs, InsertIs, ReadRetailerIs DEF GoesOn, Idle
    <2>5. CASE Resume("worker") \/ Find("worker") \/ Create("worker") \/ Commit("worker")
      BY <1>0, <1>4, <2>5, ResumeIs, FindIs, CreateIs, CommitIs DEF GoesOn, Idle
    <2>6. QED
      BY <1>0, <1>4, <2>1, <2>2, <2>3, <2>4, <2>5, TaskMoves DEF GoesOn, Idle
  <1>5. task'["retrier"].pc \in {"idle"} \cup Executing
    <2>1. CASE task'["retrier"] = task["retrier"]
      BY <1>0, <2>1 DEF PartnerIsKept
    <2>2. ASSUME NEW o \in Order, RetryDue(o) PROVE task'["retrier"].pc = "resume"
      BY <1>0, <2>2, RetryDueIs
    <2>3. CASE Resume("retrier") \/ Find("retrier") \/ Create("retrier") \/ Commit("retrier")
      BY <1>0, <2>3, ResumeIs, FindIs, CreateIs, CommitIs DEF GoesOn, Idle, Executing
    <2>4. QED
      BY <1>0, <2>1, <2>2, <2>3, TaskMoves DEF GoesOn, Idle, Executing
  <1>6. QED
    BY <1>2, <1>3, <1>4, <1>5 DEF PartnerIsKept

\* An event is acknowledged when the order is mapped, found so or made so.
LEMMA AckedStep == ExportInv /\ [Next]_vars => AckedIsMapped'
  <1> SUFFICES ASSUME ExportInv, [Next]_vars, NEW o \in acked' PROVE mapped'[o] # Null
    BY DEF AckedIsMapped
  <1>0. TypeOK /\ AckedIsMapped /\ PartnerIsKept /\ acked \subseteq Order
        /\ "worker" \in Executor
    BY DEF ExportInv, TypeOK, Executor
  <1>1. ASSUME o \in Order, mapped[o] # Null PROVE mapped'[o] # Null
    BY <1>1, CoreKept
  <1>2. CASE o \in acked
    BY <1>0, <1>1, <1>2 DEF AckedIsMapped
  <1>3. ASSUME NEW q \in Order, ReadOrder(q) \/ OrderUnread(q), o \notin acked
        PROVE  o \in Order /\ mapped[o] # Null
    BY <1>3 DEF ReadOrder, OrderUnread
  <1>4. ASSUME Ack \/ WritebackLost, o \notin acked
        PROVE  o \in Order /\ mapped[o] # Null
    <2>1. task["worker"].pc = "ack" /\ o = task["worker"].order
      BY <1>4 DEF Ack, WritebackLost, At, core
    <2>2. QED
      BY <1>0, <2>1, ExecutorHas DEF WritingBack, PartnerIsKept
  <1>5. QED
    BY <1>1, <1>2, <1>3, <1>4
    DEF Next, Work, Execute, Poll, ReadRetailer, RetailerUnread, Dispatch, Insert, RetryDue, Reopen,
        Resume, Find, Create, CallLost, Refuse, CallDelayed, Commit, MarkFailed, WritePartner, CommitPartner,
        WriteSale, PlaceOrder, MapPartner, CommitRecord, Elapse, Crash, ServeLate, vars, core, refs, odoo, table

\* An order is mapped at write_sale only, when Core has the partner of the command,
\* unless it was replaced, which is the one of the sale order.
LEMMA PartnerSameStep == ExportInv /\ [Next]_vars => SamePartner'
  <1> SUFFICES ASSUME ExportInv, [Next]_vars, NEW o \in Order,
                      mapped'[o] # Null, Buyer[o] \notin replaced'
               PROVE  sales'[mapped'[o]].ref = partner'[Buyer[o]]
    BY DEF SamePartner
  <1>0. /\ TypeOK /\ SamePayload /\ SalesArePayloads /\ SalesAreReal /\ PartnerIsKept
        /\ SamePartner /\ "worker" \in Executor /\ Buyer[o] \in Retailer
    BY OrderAssumption DEF ExportInv, Executor
  <1>1. Buyer[o] \notin replaced
    BY CoreKept
  <1>2. ASSUME NEW i \in SaleId, sales[i].order = o, partner[Buyer[o]] = sales[i].ref,
               mapped'[o] = i
        PROVE  sales'[mapped'[o]].ref = partner'[Buyer[o]]
    <2>1. sales[i] # NoSale
      BY <1>2, OrderAssumption DEF NoSale
    <2>2. sales[i].ref # Null
      BY <1>0, <2>1, NullAssumption DEF TypeOK
    <2>3. QED
      BY <1>0, <1>2, <2>1, <2>2, SaleKept, CoreKept
  <1>3. CASE mapped'[o] = mapped[o]
    <2>1. mapped[o] \in SaleId /\ sales[mapped[o]].order = o
      BY <1>0, <1>3 DEF SalesAreReal, IsSaleOf
    <2>2. partner[Buyer[o]] = sales[mapped[o]].ref
      BY <1>0, <1>3, <1>1 DEF SamePartner
    <2>3. QED
      BY <1>2, <1>3, <2>1, <2>2
  <1>4. CASE /\ At("worker", "write_sale") /\ o = task["worker"].order
             /\ mapped'[o] = task["worker"].sale
    <2> DEFINE i == task["worker"].sale
    <2>1. i \in SaleId /\ sales[i].order = o
      BY <1>0, <1>4 DEF SalesAreReal, IsSaleOf, At, WritingBack
    <2>2. sales[i].ref = jobs[o].payload_hash
      <3>1. sales[i] # NoSale
        BY <2>1, OrderAssumption DEF NoSale
      <3>2. IsPayload(sales[i].order, sales[i].ref)
        BY <1>0, <2>1, <3>1 DEF SalesArePayloads
      <3>3. QED
        BY <2>1, <3>2 DEF IsPayload
    <2>3. task["worker"].ref = jobs[o].payload_hash
      BY <1>0, <1>4 DEF SamePayload, At, WritingBack, IsPayload
    <2>4. partner[Buyer[o]] = task["worker"].ref
      BY <1>0, <1>4, <1>1 DEF PartnerIsKept, At
    <2>5. QED
      BY <1>2, <1>4, <2>1, <2>2, <2>3, <2>4
  <1>5. QED
    BY <1>3, <1>4, CoreKept

-----------------------------------------------------------------------------
(* The invariant *)

LEMMA ExportInit == Init => ExportInv
  <1> SUFFICES ASSUME Init PROVE ExportInv
    OBVIOUS
  <1>1. Idle \in Task /\ NoJob \in Job /\ NoSale \in SaleOrder
    BY BusyIsTask, NoJobType DEF SaleOrder
  <1>2. TypeOK
    BY <1>1, BoundAssumption, BoundsAre DEF Init, TypeOK, SaleOrder
  <1>3. /\ \A p \in Executor : task[p].pc = "idle"
        /\ "worker" \in Executor /\ "retrier" \in Executor
    BY DEF Init, Idle, Executor
  <1>4. WorkIsPlaced /\ PartnerIsKept /\ AckedIsMapped
    BY <1>3 DEF Init, WorkIsPlaced, PartnerIsKept, AckedIsMapped, At, Executing, WritingBack
  <1>5. SamePayload /\ SalesAreReal
    BY <1>3 DEF Init, SamePayload, SalesAreReal, NoJob, At, Executing, WritingBack
  <1>6. SalesArePayloads
    BY DEF Init, SalesArePayloads
  <1>7. SamePartner
    BY DEF Init, SamePartner
  <1>8. QED
    BY <1>2, <1>4, <1>5, <1>6, <1>7 DEF ExportInv

LEMMA ExportInvariance == Spec => []ExportInv
  <1>1. ExportInv /\ [Next]_vars => ExportInv'
    BY TypeStep, PlacedStep, PayloadStep, SalesPayloadStep, RealStep, PartnerStep, AckedStep,
       PartnerSameStep DEF ExportInv
  <1>2. QED
    BY ExportInit, <1>1, PTL DEF Spec

\* Core, Odoo, the jobs and the two workers stay well formed through every lost
\* answer, late call, death and operator retry.
THEOREM TypeCorrect == Spec => []TypeOK
  <1>1. ExportInv => TypeOK
    BY DEF ExportInv
  <1>2. QED
    BY <1>1, ExportInvariance, PTL

\* No event is consumed before Core has the id of a sale order of this very order
\* that exists in Odoo (_process_event acknowledges last, worker.py).
THEOREM ConsumedIsExported == Spec => []AckedIsExported
  <1>1. ExportInv => AckedIsExported
    <2> SUFFICES ASSUME ExportInv, NEW o \in acked
                 PROVE  mapped[o] # Null /\ sales[mapped[o]].order = o
      BY DEF AckedIsExported
    <2>1. o \in Order /\ mapped[o] # Null
      BY DEF ExportInv, TypeOK, AckedIsMapped
    <2>2. QED
      BY <2>1 DEF ExportInv, SalesAreReal, IsSaleOf
  <1>2. QED
    BY <1>1, ExportInvariance, PTL

\* The sale order that is written back to Core was made out to the partner Core has
\* for the buyer, whoever else maps the buyer during the export, except for buyers
\* whose ref a COMMIT has replaced: record_odoo_partner reads without a lock.
THEOREM PartnerOfSale == Spec => []SamePartner
  <1>1. ExportInv => SamePartner
    BY DEF ExportInv
  <1>2. QED
    BY <1>1, ExportInvariance, PTL


-----------------------------------------------------------------------------
(* At most one sale order *)

LEMMA RivalledGrows == [Next]_vars => rivalled \subseteq rivalled'
  BY DEF Next, Work, Execute, Poll, ReadOrder, OrderUnread, ReadRetailer, RetailerUnread,
         Dispatch, Insert, RetryDue, Reopen, Resume, Find, Create, CallLost, Refuse,
         CallDelayed, Commit, MarkFailed, WritePartner, CommitPartner, WriteSale, Ack,
         WritebackLost, PlaceOrder, MapPartner, CommitRecord, Elapse, Crash, ServeLate,
         vars, core, refs, odoo, table

\* A process begins to export an order after begin() has written the row.
LEMMA Begins ==
  ASSUME ExportInv, [Next]_vars, NEW p \in Executor, NEW o \in Order, Exports(p, o)'
  PROVE  Exports(p, o) \/ (p = "worker" /\ Insert) \/ Resume(p)
  <1>0. TypeOK /\ SamePayload /\ SalesAreReal
    BY DEF ExportInv
  <1>1. CASE task'[p] = task[p]
    BY <1>1 DEF Exports
  <1>2. CASE Find(p)
    BY <1>0, <1>2, FindIs DEF Exports, GoesOn, Find, At
  <1>3. CASE Create(p) \/ Commit(p)
    BY <1>0, <1>3, CreateIs, CommitIs DEF Exports, GoesOn, Idle
  <1>4. ASSUME NEW q \in Order, p = "worker", ReadOrder(q) PROVE task'[p] = task[p]
    BY <1>0, <1>4, ReadOrderIs DEF Exports
  <1>5. CASE p = "worker" /\ (ReadRetailer \/ Dispatch)
    BY <1>0, <1>5, ReadRetailerIs, DispatchIs DEF Exports, GoesOn, Idle
  <1>6. ASSUME NEW q \in Order, p = "retrier", RetryDue(q) PROVE FALSE
    BY <1>0, <1>6, RetryDueIs DEF Exports
  <1>7. QED
    BY <1>1, <1>2, <1>3, <1>4, <1>5, <1>6, TaskMoves DEF Exports, GoesOn, Idle

\* rivalled remembers the orders that a second process has begun to export; a new
\* row has no first one.
LEMMA ExecutesStep == ExportInv /\ OneExecutes /\ [Next]_vars => OneExecutes'
  <1> SUFFICES ASSUME ExportInv, OneExecutes, [Next]_vars,
                      NEW o \in Order, o \notin rivalled',
                      NEW p \in Executor, NEW q \in Executor, p # q,
                      Exports(p, o)', Exports(q, o)'
               PROVE  FALSE
    BY DEF OneExecutes, Exports
  <1>0. TypeOK /\ SamePayload
    BY DEF ExportInv
  <1>1. o \notin rivalled
    BY RivalledGrows
  <1>2. ASSUME NEW x \in Executor, NEW y \in Executor, x # y,
               Exports(x, o)', Exports(y, o)', ~Exports(x, o)
        PROVE  FALSE
    <2>1. task'[x].order = o
      BY <1>2 DEF Exports
    <2>2. CASE x = "worker" /\ Insert
      <3>1. task'[y] = task[y] /\ task'[x].order = task[x].order /\ jobs[o].status = "absent"
        BY <1>0, <1>2, <2>1, <2>2, InsertIs DEF GoesOn, Executor
      <3>2. Exports(y, o)
        BY <1>2, <3>1 DEF Exports
      <3>3. jobs[o].status # "absent"
        BY <3>2, ExecutorHas DEF Exports, Executing, IsPayload
      <3>4. QED
        BY <3>1, <3>3
    <2>3. CASE Resume(x)
      <3>1. task'[y] = task[y] /\ task'[x].order = task[x].order
        BY <1>0, <1>2, <2>3, ResumeIs DEF GoesOn
      <3>2. Exports(y, o) /\ task[x].order = o
        BY <1>2, <2>1, <3>1 DEF Exports
      <3>3. o \in rivalled'
        BY <2>3, <3>2 DEF Resume
      <3>4. QED
        BY <3>3
    <2>4. QED
      BY <1>2, <2>2, <2>3, Begins
  <1>3. QED
    BY <1>1, <1>2 DEF OneExecutes

\* No call has been late yet, if none has after the step.
LEMMA NoneLate ==
  ASSUME TypeOK, [Next]_vars, used'.late = 0
  PROVE  used.late = 0 /\ \A p \in Executor : ~CallDelayed(p)
  <1>1. \A b \in DOMAIN Bounds : used[b] \in Nat
    BY DEF TypeOK
  <1>2. "late" \in DOMAIN Bounds /\ used.late \in Nat
    BY <1>1, BoundsAre
  <1>3. ASSUME NEW b \in DOMAIN Bounds, Spend(b) PROVE used.late = 0 /\ b # "late"
    <2>1. CASE b = "late"
      <3>1. used'["late"] = used["late"] + 1
        BY <1>2, <1>3, <2>1, SpendType
      <3>2. QED
        BY <1>2, <3>1
    <2>2. CASE b # "late"
      <3>1. used'["late"] = used["late"]
        BY <1>2, <1>3, <2>2, SpendType
      <3>2. QED
        BY <2>2, <3>1
    <2>3. QED
      BY <2>1, <2>2
  <1>4. ASSUME NEW p \in Executor PROVE ~CallDelayed(p)
    BY <1>2, <1>3 DEF CallDelayed
  <1>5. used' = used \/ \E b \in DOMAIN Bounds : Spend(b)
    BY BoundsAre
    DEF Next, Work, Execute, Poll, ReadOrder, OrderUnread, ReadRetailer, RetailerUnread,
        Dispatch, Insert, RetryDue, Reopen, Resume, Find, Create, CallLost, Refuse, CallDelayed, Commit,
        MarkFailed, WritePartner, CommitPartner, WriteSale, Ack, WritebackLost, PlaceOrder, MapPartner, CommitRecord,
        Elapse, Crash, ServeLate, vars, core, refs, odoo, table
  <1>6. QED
    BY <1>3, <1>4, <1>5

\* A sale order that appears while nothing is late is made by a process that has
\* found none.
LEMMA SaleAppears ==
  ASSUME ExportInv, OneSale, used.late = 0, [Next]_vars, sales' # sales
  PROVE  \E p \in Executor, i \in SaleId :
           /\ task[p].pc = "create" /\ task'[p].pc # "create"
           /\ \A q \in Executor : q # p => task'[q] = task[q]
           /\ task[p].order \in Order /\ sales'[i].order = task[p].order
           /\ \A j \in SaleId : j # i => sales'[j] = sales[j]
  <1>0. TypeOK /\ late = {}
    BY DEF ExportInv, OneSale
  <1>1. PICK p \in Executor : Create(p) \/ CallLost(p)
    BY <1>0
    DEF Next, Work, Execute, Poll, ReadOrder, OrderUnread, ReadRetailer, RetailerUnread,
        Dispatch, Insert, RetryDue, Reopen, Resume, Find, Refuse, CallDelayed, Commit,
        MarkFailed, WritePartner, CommitPartner, WriteSale, Ack, WritebackLost, PlaceOrder,
        MapPartner, CommitRecord, Elapse, Crash, vars, core, refs, odoo, table
  <1>2. PICK i \in SaleId : task[p].pc = "create" /\ Serve(i, task[p].order, task[p].ref)
    BY <1>1 DEF Create, CallLost, At
  <1>3. task[p].order \in Order /\ task[p].ref \in Payload
    BY <1>2, ExecutorHas DEF Executing
  <1>4. sales'[i].order = task[p].order /\ \A j \in SaleId : j # i => sales'[j] = sales[j]
    BY <1>0, <1>2, <1>3, ServeIs
  <1>5. task'[p].pc # "create" /\ \A q \in Executor : q # p => task'[q] = task[q]
    <2>1. CASE Create(p)
      BY <1>0, <2>1, CreateIs DEF GoesOn
    <2>2. CASE CallLost(p)
      <3>1. Goto(p, "failed") /\ task[p].pc # "idle" /\ "failed" \in Point
        BY <2>2 DEF CallLost, Point
      <3>2. QED
        BY <1>0, <3>1, GotoIs DEF GoesOn
    <2>3. QED
      BY <1>1, <2>1, <2>2
  <1>6. QED
    BY <1>2, <1>3, <1>4, <1>5

LEMMA OneSaleStep == ExportInv /\ OneExecutes /\ OneSale /\ [Next]_vars => OneSale'
  <1> SUFFICES ASSUME ExportInv, OneExecutes, OneSale, [Next]_vars, used'.late = 0
               PROVE  /\ late' = {}
                      /\ \A o \in Order \ rivalled' :
                           /\ \A i, j \in SalesOf(o)' : i = j
                           /\ \A p \in Executor :
                                task'[p].pc = "create" /\ task'[p].order = o => SalesOf(o)' = {}
    BY DEF OneSale, At
  <1>0. /\ TypeOK /\ SamePayload /\ SalesAreReal
        /\ used.late = 0 /\ late = {} /\ \A p \in Executor : ~CallDelayed(p)
    BY NoneLate DEF ExportInv, OneSale
  <1>1. late' = {}
    BY <1>0
    DEF Next, Work, Execute, Poll, ReadOrder, OrderUnread, ReadRetailer, RetailerUnread,
        Dispatch, Insert, RetryDue, Reopen, Resume, Find, Create, CallLost, Refuse, Commit,
        MarkFailed, WritePartner, CommitPartner, WriteSale, Ack, WritebackLost, PlaceOrder,
        MapPartner, CommitRecord, Elapse, Crash, ServeLate, vars, core, refs, odoo, table
  <1>2. ASSUME NEW o \in Order, o \notin rivalled'
        PROVE  /\ \A i, j \in SalesOf(o)' : i = j
               /\ \A p \in Executor :
                    task'[p].pc = "create" /\ task'[p].order = o => SalesOf(o)' = {}
    <2>0. o \notin rivalled
      BY <1>2, RivalledGrows
    <2>1. /\ \A i, j \in SalesOf(o) : i = j
          /\ \A p \in Executor : task[p].pc = "create" /\ task[p].order = o => SalesOf(o) = {}
      BY <1>0, <1>2, <2>0 DEF OneSale, At
    <2>2. ASSUME NEW p \in Executor, task'[p].pc = "create", task'[p].order = o
          PROVE  \/ task'[p] = task[p]
                 \/ SalesOf(o) = {} /\ sales' = sales
      <3>1. CASE Find(p)
        BY <1>0, <2>2, <3>1, FindIs DEF GoesOn, Find, odoo
      <3>2. ASSUME NEW q \in Order, p = "worker", ReadOrder(q) PROVE task'[p] = task[p]
        BY <1>0, <2>2, <3>2, ReadOrderIs
      <3>3. ASSUME NEW q \in Order, p = "retrier", RetryDue(q) PROVE FALSE
        BY <1>0, <2>2, <3>3, RetryDueIs
      <3>4. CASE p = "worker" /\ (ReadRetailer \/ Dispatch \/ Insert)
        BY <1>0, <2>2, <3>4, ReadRetailerIs, DispatchIs, InsertIs DEF GoesOn, Idle
      <3>5. CASE Resume(p) \/ Create(p) \/ Commit(p)
        BY <1>0, <2>2, <3>5, ResumeIs, CreateIs, CommitIs DEF GoesOn, Idle
      <3>6. QED
        BY <2>2, <3>1, <3>2, <3>3, <3>4, <3>5, TaskMoves DEF GoesOn, Idle
    <2>3. CASE sales' = sales
      <3>1. SalesOf(o)' = SalesOf(o)
        BY <2>3 DEF SalesOf
      <3>2. QED
        BY <2>1, <2>2, <3>1
    <2>4. CASE sales' # sales
      <3>1. PICK q \in Executor, i \in SaleId :
              /\ task[q].pc = "create" /\ task'[q].pc # "create"
              /\ \A x \in Executor : x # q => task'[x] = task[x]
              /\ task[q].order \in Order /\ sales'[i].order = task[q].order
              /\ \A j \in SaleId : j # i => sales'[j] = sales[j]
        BY <1>0, <2>4, SaleAppears
      <3>2. CASE task[q].order = o
        <4>1. SalesOf(o)' \subseteq {i}
          BY <2>1, <3>1, <3>2 DEF SalesOf
        <4>2. ASSUME NEW p \in Executor, task'[p].pc = "create", task'[p].order = o
              PROVE  FALSE
          <5>1. Exports(p, o) /\ Exports(q, o) /\ p # q
            BY <2>2, <2>4, <3>1, <3>2, <4>2 DEF Exports
          <5>2. QED
            BY <2>0, <5>1 DEF OneExecutes
        <4>3. QED
          BY <4>1, <4>2
      <3>3. CASE task[q].order # o
        <4>1. SalesOf(o)' \subseteq SalesOf(o)
          BY <3>1, <3>3 DEF SalesOf
        <4>2. QED
          BY <2>1, <2>2, <2>4, <4>1
      <3>4. QED
        BY <3>2, <3>3
    <2>5. QED
      BY <2>3, <2>4
  <1>3. QED
    BY <1>1, <1>2

LEMMA SingleInvariance == Spec => []SingleInv
  <1>1. Init => SingleInv
    <2> SUFFICES ASSUME Init PROVE OneExecutes /\ OneSale
      BY ExportInit DEF SingleInv
    <2>1. \A p \in Executor : task[p].pc = "idle"
      BY DEF Init, Idle
    <2>2. QED
      BY <2>1, OrderAssumption DEF Init, OneExecutes, OneSale, Exports, At, SalesOf, NoSale
  <1>2. SingleInv /\ [Next]_vars => SingleInv'
    <2>1. ExportInv /\ [Next]_vars => ExportInv'
      BY TypeStep, PlacedStep, PayloadStep, SalesPayloadStep, RealStep, PartnerStep, AckedStep,
         PartnerSameStep DEF ExportInv
    <2>2. QED
      BY <2>1, ExecutesStep, OneSaleStep DEF SingleInv
  <1>3. QED
    BY <1>1, <1>2, PTL DEF Spec

\* Whatever answers are lost, whatever dies and however often an operator retries, an
\* order has at most one sale order as long as Odoo serves no call after its caller
\* has given up and no two processes were exporting it at once, which begin() does
\* not exclude: create_sale_order searches before it creates.
THEOREM OneSalePerOrder == Spec => []AtMostOneSaleOrder
  <1>1. SingleInv => AtMostOneSaleOrder
    <2> SUFFICES ASSUME SingleInv, used.late = 0, NEW o \in Order \ rivalled
                 PROVE  Cardinality(SalesOf(o)) <= 1
      BY DEF AtMostOneSaleOrder
    <2>1. \A i, j \in SalesOf(o) : i = j
      BY DEF SingleInv, OneSale
    <2>2. CASE SalesOf(o) = {}
      BY <2>2, FS_EmptySet
    <2>3. CASE SalesOf(o) # {}
      <3>1. PICK i \in SalesOf(o) : SalesOf(o) = {i}
        BY <2>1, <2>3
      <3>2. QED
        BY <3>1, FS_Singleton
    <2>4. QED
      BY <2>2, <2>3
  <1>2. QED
    BY <1>1, SingleInvariance, PTL
=============================================================================
