---------------------------- MODULE OrderExport ----------------------------
(***************************************************************************)
(* The export of orders to Odoo: OrderExportWorker polls the events        *)
(* commerce.order.created of the outbox of Core, creates a sale order in   *)
(* Odoo for each through a sync job, writes the partner and the sale order *)
(* back to Core, and only then acknowledges the event.  RetryWorker runs   *)
(* the due jobs again but writes nothing back.                             *)
(*                                                                         *)
(* begin() of the job store SELECTs a row in one step and writes it in     *)
(* another, and so does Core's record_odoo_partner.  The other methods of  *)
(* the job store and requests to Core are one step each (SyncJobs and      *)
(* CoreOrders have the interleavings within them).  A call to Odoo that    *)
(* times out may still be served later.                                    *)
(***************************************************************************)
EXTENDS SyncJobTable, FiniteSets

CONSTANTS Order,        \* orders, numbered in the order of their events
          Retailer,     \* buyers
          Buyer,        \* order -> its buyer
          SaleId,       \* ids Odoo gives to sale orders, in ascending order
          Limits,       \* how many events run_once may be told to ask for
          MaxFaults,    \* bound: calls that fail, time out or lose their answer
          MaxLate,      \* bound: calls served after their caller gave up
          MaxCrashes,   \* bound: deaths of a process in the middle of a task
          MaxReopened,  \* bound: operator retries
          MaxUpsets     \* bound: all of these together, for each of the Limits

ASSUME OrderAssumption ==
  /\ Order \subseteq Nat /\ SaleId \subseteq Nat /\ Buyer \in [Order -> Retailer]
  /\ Null \notin Order

\* The only part of the command that may differ between two polls of an event is
\* how it names the partner: by the retailer's own id or by the ref Core has.
ASSUME PayloadAssumption == Payload = {"own", "canonical"} /\ Result = SaleId

ASSUME BoundAssumption ==
  /\ Limits \subseteq Nat \ {0}
  /\ {MaxFaults, MaxLate, MaxCrashes, MaxReopened} \subseteq Nat
  /\ MaxUpsets \in [Limits -> Nat]

VARIABLES placed,     \* Core: orders that are placed, hence announced by an event
          acked,      \* Core: orders whose event is acknowledged
          mapped,     \* Core: order -> odoo_sale_order_id
          partner,    \* Core: retailer -> odoo_partner_ref
          recording,  \* Core: refs about to be committed for nobody who waits
          sales,      \* Odoo: sale order id -> its client_order_ref and partner
          jobs,       \* sync_jobs: order -> row
          task,       \* what the export worker and the retry worker are executing
          limit,      \* export worker: events a poll asks for
          batch,      \* export worker: events of this poll still to process
          late,       \* creations on their way to Odoo that nobody waits for
          used,       \* history: how much of each bound is used
          rivalled,   \* history: orders that two processes were exporting at once
          replaced    \* history: retailers whose ref was replaced by another one

refs == <<partner, recording, replaced>>
core == <<placed, acked, mapped, refs>>
odoo == <<sales, late>>
table == <<jobs, rivalled>>
vars == <<core, odoo, table, task, limit, batch, used>>

Bounds == [faults |-> MaxFaults, late |-> MaxLate,
           crashes |-> MaxCrashes, reopened |-> MaxReopened]

Spend(bound) ==
  /\ used[bound] < Bounds[bound]
  /\ used.faults + used.late + used.crashes + used.reopened < MaxUpsets[limit]
  /\ used' = [used EXCEPT ![bound] = @ + 1]

Executor == {"worker", "retrier"}

\* Where a process is: read_retailer, dispatch, write_partner .. ack are steps of
\* the export worker, insert .. rejected the execution of the sync job.
Point == {"read_retailer", "dispatch", "insert", "resume", "find", "create", "commit",
          "failed", "rejected", "write_partner", "commit_partner", "write_sale", "ack"}

Task == [pc : {"idle"}] \cup
        [pc : Point, order : Order, seen : Payload \cup {Null},
         ref : Payload \cup {Null}, sale : SaleId \cup {Null}]

Idle == [pc |-> "idle"]

At(p, point) == task[p].pc = point

Goto(p, point) == task' = [task EXCEPT ![p].pc = point]

Rest(p) == task' = [task EXCEPT ![p] = Idle]

NoSale == [order |-> Null, ref |-> Null]

Init ==
  /\ placed = {}
  /\ acked = {}
  /\ mapped = [o \in Order |-> Null]
  /\ partner = [r \in Retailer |-> Null]
  /\ recording = {}
  /\ sales = [i \in SaleId |-> NoSale]
  /\ jobs = [o \in Order |-> NoJob]
  /\ task = [p \in Executor |-> Idle]
  /\ limit \in Limits
  /\ batch = {}
  /\ late = {}
  /\ used = [bound \in DOMAIN Bounds |-> 0]
  /\ rivalled = {}
  /\ replaced = {}

-----------------------------------------------------------------------------
(* OrderExportWorker: poll, read the order and its buyer *)

(* Operators named M_... are faulty variants of the definition that follows
   them, as a slip of the code would have it; no specification uses them. *)

M_OldestReversed(orders) == {o \in orders : Cardinality({q \in orders : q > o}) < limit}

\* list_pending_events: the oldest events that are not acknowledged.
Oldest(orders) == {o \in orders : Cardinality({q \in orders : q < o}) < limit}

Poll ==
  /\ At("worker", "idle") /\ batch = {}
  /\ batch' = Oldest(placed \ acked)
  /\ UNCHANGED <<core, odoo, table, task, used, limit>>

\* The event whose turn it is.
IsNext(o) ==
  /\ At("worker", "idle")
  /\ o \in batch /\ \A q \in batch : o <= q
  /\ batch' = batch \ {o}

\* An order that is mapped already needs only the acknowledgement.
ReadOrder(o) ==
  /\ IsNext(o)
  /\ IF mapped[o] # Null
       THEN /\ acked' = acked \cup {o}
            /\ UNCHANGED task
       ELSE /\ task' = [task EXCEPT !["worker"] =
                          [pc |-> "read_retailer", order |-> o, seen |-> Null,
                           ref |-> Null, sale |-> Null]]
            /\ UNCHANGED acked
  /\ UNCHANGED <<placed, mapped, refs, odoo, table, used, limit>>

\* Reading or acknowledging fails: the event is left to the next poll.
OrderUnread(o) ==
  /\ IsNext(o)
  /\ Spend("faults")
  /\ \/ UNCHANGED acked
     \/ mapped[o] # Null /\ acked' = acked \cup {o}
  /\ UNCHANGED <<placed, mapped, refs, odoo, table, task, limit>>

\* The command names the partner by odoo_partner_ref if Core has one.
ReadRetailer ==
  LET t == task["worker"]
      known == partner[Buyer[t.order]]
  IN
  /\ At("worker", "read_retailer")
  /\ task' = [task EXCEPT !["worker"] =
                [t EXCEPT !.pc = "dispatch", !.seen = known,
                          !.ref = IF known = Null THEN "own" ELSE known]]
  /\ UNCHANGED <<core, odoo, table, batch, used, limit>>

RetailerUnread ==
  /\ At("worker", "read_retailer")
  /\ Spend("faults")
  /\ Rest("worker")
  /\ UNCHANGED <<core, odoo, table, batch, limit>>

\* What the worker does after an export that has succeeded, now or earlier.
M_WritebackSaleFirst(t, sale) == [t EXCEPT !.pc = "write_sale", !.sale = sale]

Writeback(t, sale) ==
  [t EXCEPT !.pc = IF t.seen = Null THEN "write_partner" ELSE "write_sale",
            !.sale = sale]

\* The SELECT of begin().  A conflict is raised through the loop over the batch,
\* which ends; a job that is running, deferred or dead ends the turn of its event.
Dispatch ==
  LET t == task["worker"]
      reply == BeginReply(jobs[t.order], t.ref)
  IN
  /\ At("worker", "dispatch")
  /\ task' = [task EXCEPT !["worker"] =
                CASE reply \in {"insert", "resume"} -> [t EXCEPT !.pc = reply]
                  [] reply = "completed" -> Writeback(t, jobs[t.order].result)
                  [] OTHER -> Idle]
  /\ batch' = IF reply = "conflict" THEN {} ELSE batch
  /\ UNCHANGED <<core, odoo, table, used, limit>>

\* The COMMIT of a new row: no one else makes rows, so that the key is free.
Insert ==
  LET t == task["worker"] IN
  /\ At("worker", "insert")
  /\ jobs' = [jobs EXCEPT ![t.order] = NewJob(t.ref)]
  /\ Goto("worker", "find")
  /\ UNCHANGED <<core, odoo, rivalled, batch, used, limit>>

\* The process is between the search for a sale order and its creation.
Exports(p, o) == task[p].pc \in {"find", "create"} /\ task[p].order = o

\* The UPDATE of a row that was due when it was read, whatever it is by now.
Resume(p) ==
  LET o == task[p].order IN
  /\ At(p, "resume")
  /\ jobs' = [jobs EXCEPT ![o].status = "running"]
  /\ rivalled' = rivalled \cup {q \in {o} : \E x \in Executor : Exports(x, q)}
  /\ Goto(p, "find")
  /\ UNCHANGED <<core, odoo, batch, used, limit>>

-----------------------------------------------------------------------------
(* RetryWorker and the operator *)

\* list_jobs() and the SELECT of begin(), which looks at the row once more.
RetryDue(o) ==
  /\ At("retrier", "idle")
  /\ IsListed(jobs[o])
  /\ task' = [task EXCEPT !["retrier"] =
                [pc |-> "resume", order |-> o, seen |-> Null,
                 ref |-> jobs[o].payload_hash, sale |-> Null]]
  /\ UNCHANGED <<core, odoo, table, batch, used, limit>>

Reopen(o) ==
  /\ CanRetry(jobs[o])
  /\ Spend("reopened")
  /\ jobs' = [jobs EXCEPT ![o] = RetryJob(@)]
  /\ UNCHANGED <<core, odoo, rivalled, task, batch, limit>>

-----------------------------------------------------------------------------
(* ExportOrderTask.handle: create_sale_order of the Odoo adapter *)

SalesOf(o) == {i \in SaleId : sales[i].order = o}

M_FindMisses(p) ==
  /\ At(p, "find")
  /\ Goto(p, "create")
  /\ UNCHANGED <<core, odoo, table, batch, used, limit>>

\* _find_sale_order: a sale order with this client_order_ref is used again.
Find(p) ==
  LET t == task[p] IN
  /\ At(p, "find")
  /\ IF SalesOf(t.order) = {}
       THEN Goto(p, "create")
       ELSE \E i \in SalesOf(t.order) :
              task' = [task EXCEPT ![p] = [t EXCEPT !.pc = "commit", !.sale = i]]
  /\ UNCHANGED <<core, odoo, table, batch, used, limit>>

\* The sale order of an order, made out to the partner with this ref, which is
\* found or created on the way.
SaleFor(o, ref) == [order |-> o, ref |-> ref]

Serve(i, o, ref) ==
  /\ sales[i] = NoSale
  /\ \A j \in SaleId : j < i => sales[j] # NoSale
  /\ sales' = [sales EXCEPT ![i] = SaleFor(o, ref)]

Create(p) ==
  LET t == task[p] IN
  /\ At(p, "create")
  /\ \E i \in SaleId :
       /\ Serve(i, t.order, t.ref)
       /\ task' = [task EXCEPT ![p] = [t EXCEPT !.pc = "commit", !.sale = i]]
  /\ UNCHANGED <<core, late, table, batch, used, limit>>

\* A call to Odoo fails, or its answer is lost after the sale order was created.
CallLost(p) ==
  LET t == task[p] IN
  /\ task[p].pc \in {"find", "create"}
  /\ Spend("faults")
  /\ \/ UNCHANGED sales
     \/ At(p, "create") /\ \E i \in SaleId : Serve(i, t.order, t.ref)
  /\ Goto(p, "failed")
  /\ UNCHANGED <<core, late, table, batch, limit>>

\* Odoo refuses the call for good: the login, or a product that it does not have.
Refuse(p) ==
  /\ task[p].pc \in {"find", "create"}
  /\ Goto(p, "rejected")
  /\ UNCHANGED <<core, odoo, table, batch, used, limit>>

\* The caller gives up, and Odoo has yet to serve the call.
CallDelayed(p) ==
  LET t == task[p] IN
  /\ At(p, "create")
  /\ Spend("late")
  /\ late' = late \cup {SaleFor(t.order, t.ref)}
  /\ Goto(p, "failed")
  /\ UNCHANGED <<core, sales, table, batch, limit>>

ServeLate(call) ==
  /\ call \in late
  /\ late' = late \ {call}
  /\ \E i \in SaleId : Serve(i, call.order, call.ref)
  /\ UNCHANGED <<core, table, task, batch, used, limit>>

\* execute() records the outcome; the worker goes on with the writeback, the
\* retry worker has nothing left to do.
Commit(p) ==
  LET t == task[p] IN
  /\ At(p, "commit")
  /\ jobs' = [jobs EXCEPT ![t.order] = CommitJob(@, t.sale)]
  /\ task' = [task EXCEPT ![p] = IF p = "worker" THEN Writeback(t, t.sale) ELSE Idle]
  /\ UNCHANGED <<core, odoo, rivalled, batch, used, limit>>

MarkFailed(p) ==
  /\ task[p].pc \in {"failed", "rejected"}
  /\ jobs' = [jobs EXCEPT ![task[p].order] = FailJob(@, At(p, "failed"))]
  /\ Rest(p)
  /\ UNCHANGED <<core, odoo, rivalled, batch, used, limit>>

-----------------------------------------------------------------------------
(* the writeback *)

\* record_odoo_partner reads the retailer without a lock: 409 when it has another
\* ref by now, nothing to do when it has this one ...
WritePartner ==
  LET t == task["worker"]
      known == partner[Buyer[t.order]]
  IN
  /\ At("worker", "write_partner")
  /\ task' = [task EXCEPT !["worker"] =
                CASE known = Null  -> [t EXCEPT !.pc = "commit_partner"]
                  [] known = t.ref -> [t EXCEPT !.pc = "write_sale"]
                  [] OTHER         -> Idle]
  /\ UNCHANGED <<core, odoo, table, batch, used, limit>>

\* ... and commits the ref over whatever the retailer has by then.
RecordPartner(r, ref) ==
  /\ partner' = [partner EXCEPT ![r] = ref]
  /\ replaced' = IF partner[r] \in {Null, ref} THEN replaced ELSE replaced \cup {r}

CommitPartner ==
  LET t == task["worker"] IN
  /\ At("worker", "commit_partner")
  /\ RecordPartner(Buyer[t.order], t.ref)
  /\ Goto("worker", "write_sale")
  /\ UNCHANGED <<placed, acked, mapped, recording, odoo, table, batch, used, limit>>

\* What Core may go on with when the worker waits no longer.
LeftToRecord ==
  LET t == task["worker"] IN
  IF At("worker", "commit_partner")
    THEN SUBSET {[retailer |-> Buyer[t.order], ref |-> t.ref]}
    ELSE {{}}

\* record_odoo_sale_order: 409 when the order has another sale order by now.
WriteSale ==
  LET t == task["worker"] IN
  /\ At("worker", "write_sale")
  /\ IF mapped[t.order] \in {Null, t.sale}
       THEN /\ mapped' = [mapped EXCEPT ![t.order] = t.sale]
            /\ Goto("worker", "ack")
       ELSE /\ Rest("worker")
            /\ UNCHANGED mapped
  /\ UNCHANGED <<placed, acked, refs, odoo, table, batch, used, limit>>

M_AckAfterFailure ==
  LET t == task["worker"] IN
  /\ task["worker"].pc \in {"ack", "failed"}
  /\ acked' = acked \cup {t.order}
  /\ Rest("worker")
  /\ UNCHANGED <<placed, mapped, refs, odoo, table, batch, used, limit>>

Ack ==
  LET t == task["worker"] IN
  /\ At("worker", "ack")
  /\ acked' = acked \cup {t.order}
  /\ Rest("worker")
  /\ UNCHANGED <<placed, mapped, refs, odoo, table, batch, used, limit>>

\* A writeback that fails leaves the event to the next poll.  The error of the
\* final acknowledgement is raised through the loop over the batch.
WritebackLost ==
  LET t == task["worker"] IN
  /\ task["worker"].pc \in {"write_partner", "commit_partner", "write_sale", "ack"}
  /\ Spend("faults")
  /\ \/ UNCHANGED <<acked, mapped>>
     \/ /\ At("worker", "write_sale") /\ mapped[t.order] = Null
        /\ mapped' = [mapped EXCEPT ![t.order] = t.sale]
        /\ UNCHANGED acked
     \/ /\ At("worker", "ack")
        /\ acked' = acked \cup {t.order}
        /\ UNCHANGED mapped
  /\ \E left \in LeftToRecord : recording' = recording \cup left
  /\ batch' = IF At("worker", "ack") THEN {} ELSE batch
  /\ Rest("worker")
  /\ UNCHANGED <<placed, partner, replaced, odoo, table, limit>>

-----------------------------------------------------------------------------
(* the environment *)

\* Orders are placed one after the other.
PlaceOrder(o) ==
  /\ o \notin placed
  /\ \A q \in Order : q < o => q \in placed
  /\ placed' = placed \cup {o}
  /\ UNCHANGED <<acked, mapped, refs, odoo, table, task, batch, used, limit>>

\* An administrator gives a retailer the ref of a partner that Odoo has already:
\* the same function of Core, which has read that there is none yet.  A request
\* that is rolled back stays uncommitted.
MapPartner(r) ==
  /\ partner[r] = Null
  /\ recording' = recording \cup {[retailer |-> r, ref |-> "canonical"]}
  /\ UNCHANGED <<placed, acked, mapped, partner, replaced, odoo, table, task, batch, used, limit>>

CommitRecord(c) ==
  /\ c \in recording
  /\ recording' = recording \ {c}
  /\ RecordPartner(c.retailer, c.ref)
  /\ UNCHANGED <<placed, acked, mapped, odoo, table, task, batch, used, limit>>

Elapse(o) ==
  /\ jobs[o].next_retry_at = "waiting"
  /\ jobs' = [jobs EXCEPT ![o].next_retry_at = "due"]
  /\ UNCHANGED <<core, odoo, rivalled, task, batch, used, limit>>

Crash(p) ==
  /\ ~At(p, "idle")
  /\ Spend("crashes")
  /\ Rest(p)
  /\ batch' = IF p = "worker" THEN {} ELSE batch
  /\ \E left \in IF p = "worker" THEN LeftToRecord ELSE {{}} :
       recording' = recording \cup left
  /\ UNCHANGED <<placed, acked, mapped, partner, replaced, odoo, table, limit>>

-----------------------------------------------------------------------------

Execute(p) == Resume(p) \/ Find(p) \/ Create(p) \/ CallLost(p) \/ Refuse(p)
                \/ CallDelayed(p) \/ Commit(p) \/ MarkFailed(p)

\* What the export worker does about the events of its batch.
Work ==
  \/ ReadRetailer \/ RetailerUnread \/ Dispatch \/ Insert
  \/ WritePartner \/ CommitPartner \/ WriteSale \/ Ack \/ WritebackLost
  \/ \E o \in Order : ReadOrder(o) \/ OrderUnread(o)

Next ==
  \/ Poll \/ Work
  \/ \E p \in Executor : Execute(p) \/ Crash(p)
  \/ \E o \in Order : PlaceOrder(o) \/ RetryDue(o) \/ Reopen(o) \/ Elapse(o)
  \/ \E call \in late : ServeLate(call)
  \/ \E r \in Retailer : MapPartner(r)
  \/ \E c \in recording : CommitRecord(c)

Spec == Init /\ [][Next]_vars

\* A process ends what it has begun (every call has a timeout), the loop of
\* run_once goes on to the next event, and time passes.
Fairness ==
  /\ WF_vars(Work)
  /\ \A p \in Executor : WF_vars(Execute(p))
  /\ \A o \in Order : WF_vars(Elapse(o))

FairSpec == Spec /\ Fairness

\* An assumption about the deployment and none about the code, for no command of
\* the repository starts an OrderExportWorker: somebody calls run_once again and
\* again, whether it has raised or not.
Polled == WF_vars(Poll)

-----------------------------------------------------------------------------
(* Properties *)

\* Core, Odoo, the jobs and the two workers are well formed.
TypeOK ==
  /\ placed \subseteq Order
  /\ acked \subseteq placed
  /\ mapped \in [Order -> SaleId \cup {Null}]
  /\ partner \in [Retailer -> Payload \cup {Null}]
  /\ sales \in [SaleId -> {NoSale} \cup [order : Order, ref : Payload]]
  /\ jobs \in [Order -> Job]
  /\ task \in [Executor -> Task]
  /\ limit \in Limits
  /\ batch \subseteq Order
  /\ late \subseteq [order : Order, ref : Payload]
  /\ recording \subseteq [retailer : Retailer, ref : Payload]
  /\ used \in [DOMAIN Bounds -> Nat]
  /\ rivalled \subseteq Order
  /\ replaced \subseteq Retailer

\* An event is not consumed before Core knows a sale order that Odoo really has
\* for it, whatever answers are lost and whoever dies in between.
AckedIsExported ==
  \A o \in acked : mapped[o] # Null /\ sales[mapped[o]].order = o

\* Lost answers, retries, deaths and an operator never give an order two sale
\* orders, as long as Odoo serves no call after its caller has given up, and no
\* two processes were between search and creation at once, which begin() does not
\* exclude.
AtMostOneSaleOrder ==
  used.late = 0 =>
    \A o \in Order \ rivalled : Cardinality(SalesOf(o)) <= 1

\* The sale order Core has for an order belongs to the partner Core has for its
\* buyer, although others may map the buyer during the export, unless their
\* COMMIT has replaced the ref that the worker had written.
SamePartner ==
  \A o \in Order :
    mapped[o] # Null /\ Buyer[o] \notin replaced
      => sales[mapped[o]].ref = partner[Buyer[o]]

\* The job of the order needs an operator: it is dead-lettered, or running
\* although no process executes it.
Flagged(o) ==
  \/ jobs[o].status = "dead"
  \/ /\ jobs[o].status = "running"
     /\ \A p \in Executor : At(p, "idle") \/ task[p].order # o

\* The job of the order was begun with another name of the partner than the
\* command would have now.
Conflicting(o) ==
  /\ jobs[o].status # "absent"
  /\ partner[Buyer[o]] \notin {Null, jobs[o].payload_hash}

\* The events of so many older orders are left for an operator that polls do not
\* get past them.
Blocked(o) ==
  Cardinality({q \in placed \ acked : q < o /\ Flagged(q)}) >= limit

\* If run_once is called again and again, every order reaches Odoo and its event is
\* acknowledged, unless its job needs an operator, or the jobs of a whole page of
\* older orders do, or the partner of a buyer was mapped under an export.
ExportedUnlessBlocked ==
  Polled =>
    \A o \in Order :
      o \in placed \ acked
        ~> o \in acked \/ Flagged(o) \/ Blocked(o) \/ \E q \in Order : Conflicting(q)

-----------------------------------------------------------------------------
(* What the documentation says, and the code does not keep *)

\* An event that fails does not hold up the others: every order whose own job is
\* in order is exported (run_once: "a failing event does not block the batch").
OthersExported ==
  Polled =>
    \A o \in Order : o \in placed \ acked ~> o \in acked \/ Flagged(o) \/ Conflicting(o)

\* However often an order is exported, it has one sale order (worker.py, and the
\* README of the integration layer: three levels of deduplication).
NeverTwoSaleOrders ==
  used.late = 0 => \A o \in Order : Cardinality(SalesOf(o)) <= 1
=============================================================================
