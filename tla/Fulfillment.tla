---------------------------- MODULE Fulfillment ----------------------------
(***************************************************************************)
(* The fulfillment synchronisation: FulfillmentSyncWorker polls the orders *)
(* of Core, reads the delivery of each in Odoo, and reports the statuses   *)
(* in between to Core one by one, each as a sync job of its own;           *)
(* RetryWorker dispatches the jobs that are due again.  Both run           *)
(* SyncTask.execute(ReportFulfillmentTask).                                *)
(*                                                                         *)
(* Nobody but these two reports a fulfillment, so that Core changes only   *)
(* by their calls; a request to Core is one step here (CoreOrders has the  *)
(* interleavings within Core), and so is a method of the job store         *)
(* (SyncJobs has the interleavings within the store).                      *)
(***************************************************************************)
EXTENDS SyncJobTable, OrderStateMachine, Sequences, FiniteSets

CONSTANTS Order,        \* orders exported to Odoo, numbered as they were created
          Limit,        \* orders a poll asks for
          MaxNewer,     \* bound: orders created after these
          MaxFaults,    \* bound: calls that time out or do not arrive
          MaxCrashes,   \* bound: deaths of a process in the middle of a task
          MaxReopened   \* bound: operator retries

ASSUME OrderAssumption == Order \subseteq Nat /\ Limit \in Nat \ {0}

\* Every report has a payload, and a handler that returns has a result.
ASSUME ReportAssumption == Payload # {} /\ Result # {}

ASSUME BoundAssumption ==
  /\ MaxNewer \in Nat
  /\ MaxFaults \in Nat
  /\ MaxCrashes \in Nat
  /\ MaxReopened \in Nat

VARIABLES orders,    \* Core: order -> status and restore point
          newer,     \* Core: how many orders have been created since
          delivery,  \* Odoo: order -> state of its outgoing picking
          jobs,      \* sync_jobs: order, status to report -> row
          task,      \* what the poller and the retry worker are executing
          batch,     \* poller: the orders of this poll it has still to process
          path,      \* poller: the order and the statuses it has still to report
          picked,    \* history: rung of the ladder the delivery has come to
          faults, crashes, reopened   \* history: how much of each bound is used

vars == <<orders, newer, delivery, jobs, task, batch, path, picked, faults, crashes, reopened>>

FULFILLMENT_STATUS_LADDER ==
  <<"odoo_confirmed", "inventory_reserved", "picking_ready", "shipped">>

POLLABLE_STATUSES ==
  {"sent_to_odoo", "odoo_confirmed", "inventory_reserved", "picking_ready"}

Step == {FULFILLMENT_STATUS_LADDER[i] : i \in 1 .. 4} \cup {"cancelled"}

Key == Order \X Step

\* "none": the sale order has no outgoing picking yet.
PickingState == {"none", "draft", "waiting", "confirmed", "assigned", "done", "cancel"}

(* Operators named M_... are faulty variants of the definition that follows
   them, as a slip of the code would have it; no specification uses them. *)

M_OrderStatusOfEager(picking) ==
  CASE picking \in {"confirmed", "waiting"} -> "inventory_reserved"
    [] picking = "assigned"                 -> "picking_ready"
    [] picking = "done"                     -> "shipped"
    [] picking = "cancel"                   -> "cancelled"
    [] OTHER                                -> "none"

\* map_delivery_status_to_order_status; "none" stands for None.
OrderStatusOf(picking) ==
  CASE picking = "confirmed" -> "inventory_reserved"
    [] picking = "assigned"  -> "picking_ready"
    [] picking = "done"      -> "shipped"
    [] picking = "cancel"    -> "cancelled"
    [] OTHER                 -> "none"

\* The position of a status on the ladder, 0 when it is not on it.
Rung(status) ==
  IF \E i \in 1 .. 4 : FULFILLMENT_STATUS_LADDER[i] = status
    THEN CHOOSE i \in 1 .. 4 : FULFILLMENT_STATUS_LADDER[i] = status
    ELSE 0

M_StatusPathJumps(current, target) ==
  IF target = "none" THEN <<>>
  ELSE IF target = "cancelled"
    THEN IF current \in {"shipped", "completed", "cancelled"} THEN <<>> ELSE <<"cancelled">>
    ELSE IF Rung(target) > Rung(current) THEN <<target>> ELSE <<>>

M_StatusPathShort(current, target) ==
  IF target = "none" THEN <<>>
  ELSE IF target = "cancelled"
    THEN IF current \in {"shipped", "completed", "cancelled"} THEN <<>> ELSE <<"cancelled">>
    ELSE SubSeq(FULFILLMENT_STATUS_LADDER, Rung(current) + 1, Rung(target) - 1)

\* fulfillment_status_path: what to report, in order, to take Core from its
\* current status to the target.
StatusPath(current, target) ==
  IF target = "none" THEN <<>>
  ELSE IF target = "cancelled"
    THEN IF current \in {"shipped", "completed", "cancelled"} THEN <<>> ELSE <<"cancelled">>
    ELSE SubSeq(FULFILLMENT_STATUS_LADDER, Rung(current) + 1, Rung(target))

Polled == [order : Order, status : POLLABLE_STATUSES]

NoPath == [order |-> Null, steps |-> <<>>]

\* A process that is executing a key calls Core, then commits or marks the job
\* failed with a retryable or another error.
Executor == {"poller", "retrier"}

Task == [pc : {"idle"}] \cup
        [pc : {"call", "commit", "failed", "rejected"}, key : Key]

Idle == [pc |-> "idle"]

At(p, point) == task[p].pc = point

Init ==
  /\ orders = [o \in Order |-> [status |-> "sent_to_odoo", sync_failed_from |-> NoSource]]
  /\ newer = 0
  /\ delivery = [o \in Order |-> "none"]
  /\ jobs = [k \in Key |-> NoJob]
  /\ task = [p \in Executor |-> Idle]
  /\ batch = {}
  /\ path = NoPath
  /\ picked = [o \in Order |-> 0]
  /\ faults = 0
  /\ crashes = 0
  /\ reopened = 0

-----------------------------------------------------------------------------
(* FulfillmentSyncWorker *)

Resting == At("poller", "idle") /\ path.steps = <<>>

\* list_orders: the newest orders of all, whatever their status.
NewerThan(o) == newer + Cardinality({q \in Order : q > o})

Listed(o) == NewerThan(o) < Limit

\* run_once: the statuses are those of the moment of the poll.
Poll ==
  /\ Resting
  /\ batch = {}
  /\ batch' = {[order |-> o, status |-> orders[o].status] :
                 o \in {q \in Order : Listed(q) /\ orders[q].status \in POLLABLE_STATUSES}}
  /\ UNCHANGED <<newer, orders, delivery, jobs, task, path, picked, faults, crashes, reopened>>

\* _process_order reads the delivery and computes the path from the polled status.
ProcessOrder(b) ==
  /\ Resting
  /\ b \in batch
  /\ batch' = batch \ {b}
  /\ path' = [order |-> b.order,
              steps |-> StatusPath(b.status, OrderStatusOf(delivery[b.order]))]
  /\ UNCHANGED <<newer, orders, delivery, jobs, task, picked, faults, crashes, reopened>>

\* The read of the delivery fails: the order is left to the next poll.
DeliveryUnread(b) ==
  /\ Resting
  /\ b \in batch
  /\ faults < MaxFaults
  /\ batch' = batch \ {b}
  /\ faults' = faults + 1
  /\ UNCHANGED <<newer, orders, delivery, jobs, task, path, picked, crashes, reopened>>

ThePayload == CHOOSE h \in Payload : TRUE

TheResult == CHOOSE r \in Result : TRUE

\* begin() for a key whose payload is always the same: whether the process may
\* execute it, and the row it leaves.
Begun(k) == BeginReply(jobs[k], ThePayload) \in {"insert", "resume"}

M_BegunJobNew(k) ==
  IF jobs[k].status = "absent" THEN [NewJob(ThePayload) EXCEPT !.status = "new"]
                               ELSE [jobs[k] EXCEPT !.status = "running"]

BegunJob(k) ==
  IF jobs[k].status = "absent" THEN NewJob(ThePayload)
                               ELSE [jobs[k] EXCEPT !.status = "running"]

\* The loop over the path dispatches one report after the other, whatever came
\* of those before; one that is running, deferred, dead or done is passed over.
DispatchStep ==
  LET k == <<path.order, Head(path.steps)>> IN
  /\ At("poller", "idle")
  /\ path.steps # <<>>
  /\ path' = [path EXCEPT !.steps = Tail(@)]
  /\ IF Begun(k)
       THEN /\ jobs' = [jobs EXCEPT ![k] = BegunJob(k)]
            /\ task' = [task EXCEPT !["poller"] = [pc |-> "call", key |-> k]]
       ELSE UNCHANGED <<jobs, task>>
  /\ UNCHANGED <<newer, orders, delivery, batch, picked, faults, crashes, reopened>>

-----------------------------------------------------------------------------
(* RetryWorker and the operator *)

\* run_retries dispatches what list_jobs(due_only) returns.
RetryDue(k) ==
  /\ At("retrier", "idle")
  /\ IsListed(jobs[k])
  /\ jobs' = [jobs EXCEPT ![k] = BegunJob(k)]
  /\ task' = [task EXCEPT !["retrier"] = [pc |-> "call", key |-> k]]
  /\ UNCHANGED <<newer, orders, delivery, batch, path, picked, faults, crashes, reopened>>

Reopen(k) ==
  /\ CanRetry(jobs[k])
  /\ reopened < MaxReopened
  /\ jobs' = [jobs EXCEPT ![k] = RetryJob(@)]
  /\ reopened' = reopened + 1
  /\ UNCHANGED <<newer, orders, delivery, task, batch, path, picked, faults, crashes>>

-----------------------------------------------------------------------------
(* ReportFulfillmentTask.handle: report_fulfillment of Core *)

Goto(p, point) == task' = [task EXCEPT ![p].pc = point]

Report(k) ==
  orders' = IF CanTransition(orders[k[1]], k[2])
              THEN [orders EXCEPT ![k[1]] = TransitionTo(@, k[2])]
              ELSE orders

\* Core answers: 200, or 409 when its state machine has no such transition.
CallAnswered(p) ==
  /\ At(p, "call")
  /\ Report(task[p].key)
  /\ Goto(p, IF CanTransition(orders[task[p].key[1]], task[p].key[2])
               THEN "commit" ELSE "rejected")
  /\ UNCHANGED <<newer, delivery, jobs, batch, path, picked, faults, crashes, reopened>>

\* The call does not arrive, or its answer does not.
CallLost(p) ==
  /\ At(p, "call")
  /\ faults < MaxFaults
  /\ Report(task[p].key) \/ UNCHANGED orders
  /\ Goto(p, "failed")
  /\ faults' = faults + 1
  /\ UNCHANGED <<newer, delivery, jobs, batch, path, picked, crashes, reopened>>

\* execute() records the outcome; a report has no result worth keeping apart.
M_RecordCommitsAll(p) ==
  LET k == task[p].key IN
  /\ task[p].pc \in {"commit", "failed", "rejected"}
  /\ jobs' = [jobs EXCEPT ![k] = CommitJob(@, TheResult)]
  /\ task' = [task EXCEPT ![p] = Idle]
  /\ UNCHANGED <<newer, orders, delivery, batch, path, picked, faults, crashes, reopened>>

Record(p) ==
  LET k == task[p].key IN
  /\ task[p].pc \in {"commit", "failed", "rejected"}
  /\ jobs' = [jobs EXCEPT ![k] =
                IF At(p, "commit") THEN CommitJob(@, TheResult)
                                   ELSE FailJob(@, At(p, "failed"))]
  /\ task' = [task EXCEPT ![p] = Idle]
  /\ UNCHANGED <<newer, orders, delivery, batch, path, picked, faults, crashes, reopened>>

-----------------------------------------------------------------------------
(* Odoo, the clock, and death *)

Reached(picking) ==
  CASE picking = "none"      -> 0
    [] picking = "draft"     -> 1
    [] picking = "waiting"   -> 2
    [] picking = "confirmed" -> 3
    [] picking = "assigned"  -> 4
    [] picking = "done"      -> 5
    [] picking = "cancel"    -> 5

\* What a picking means for the customer: reserved, ready, shipped.
PickedRung(picking) ==
  CASE picking = "confirmed" -> 2
    [] picking = "assigned"  -> 3
    [] picking = "done"      -> 4
    [] OTHER                 -> 0

\* The warehouse takes the delivery on, or cancels it before it is done.
Progress(o, picking) ==
  /\ Reached(picking) > Reached(delivery[o])
  /\ delivery' = [delivery EXCEPT ![o] = picking]
  /\ picked' = [picked EXCEPT ![o] = IF picking = "cancel" THEN @ ELSE PickedRung(picking)]
  /\ UNCHANGED <<newer, orders, jobs, task, batch, path, faults, crashes, reopened>>

\* Another order is placed, which has yet to be exported.
PlaceNewer ==
  /\ newer < MaxNewer
  /\ newer' = newer + 1
  /\ UNCHANGED <<orders, delivery, jobs, task, batch, path, picked, faults, crashes, reopened>>

Elapse(k) ==
  /\ jobs[k].next_retry_at = "waiting"
  /\ jobs' = [jobs EXCEPT ![k].next_retry_at = "due"]
  /\ UNCHANGED <<newer, orders, delivery, task, batch, path, picked, faults, crashes, reopened>>

\* A process dies and is started again; a poller forgets its batch and its path.
Crash(p) ==
  /\ ~At(p, "idle")
  /\ crashes < MaxCrashes
  /\ task' = [task EXCEPT ![p] = Idle]
  /\ crashes' = crashes + 1
  /\ IF p = "poller" THEN batch' = {} /\ path' = NoPath ELSE UNCHANGED <<batch, path>>
  /\ UNCHANGED <<newer, orders, delivery, jobs, picked, faults, reopened>>

-----------------------------------------------------------------------------

Execute(p) == CallAnswered(p) \/ CallLost(p) \/ Record(p)

Work ==
  \/ Poll \/ DispatchStep
  \/ \E b \in batch : ProcessOrder(b) \/ DeliveryUnread(b)

Next ==
  \/ Work \/ PlaceNewer
  \/ \E p \in Executor : Execute(p) \/ Crash(p)
  \/ \E k \in Key : RetryDue(k) \/ Reopen(k) \/ Elapse(k)
  \/ \E o \in Order, picking \in PickingState : Progress(o, picking)

Spec == Init /\ [][Next]_vars

\* The poller is run for ever and time passes; what a process has begun it ends
\* (every call has a timeout).  Nothing says that a retry worker is running.
Fairness ==
  /\ WF_vars(Work)
  /\ \A p \in Executor : WF_vars(Execute(p))
  /\ \A k \in Key : WF_vars(Elapse(k))

FairSpec == Spec /\ Fairness

-----------------------------------------------------------------------------
(* Properties *)

\* Core, Odoo, the jobs and the two workers are well formed.
TypeOK ==
  /\ orders \in [Order -> [status : OrderStatus, sync_failed_from : OrderStatus \cup {NoSource}]]
  /\ newer \in 0..MaxNewer
  /\ delivery \in [Order -> PickingState]
  /\ jobs \in [Key -> Job]
  /\ task \in [Executor -> Task]
  /\ batch \in SUBSET Polled
  /\ path \in [order : Order \cup {Null}, steps : Seq(Step)]
  /\ path.steps # <<>> => path.order \in Order
  /\ picked \in [Order -> 0..4]
  /\ faults \in Nat /\ crashes \in Nat /\ reopened \in Nat

\* A report that is marked completed, hence never sent again, was really made:
\* Core is at that status or past it, whichever process made it and whatever
\* answers were lost on the way.
CompletedIsReported ==
  \A o \in Order, s \in Step : jobs[<<o, s>>].status = "completed" =>
    \/ orders[o].status = "cancelled"
    \/ s # "cancelled" /\ Rung(orders[o].status) >= Rung(s)

\* As long as no call is lost and no process dies, Core accepts every report:
\* the poller never asks for a step that the state machine of Core does not have.
SmoothReportsAccepted ==
  faults = 0 /\ crashes = 0 =>
    \A k \in Key : jobs[k].status \in {"absent", "running", "completed"}

\* A job of the order that an operator can see to be stuck: dead-lettered, or
\* running although no process executes it.
Flagged(o) ==
  \E s \in Step :
    \/ jobs[<<o, s>>].status = "dead"
    \/ /\ jobs[<<o, s>>].status = "running"
       /\ \A p \in Executor : At(p, "idle") \/ task[p].key # <<o, s>>

\* The end of a delivery is not lost silently: Core comes to show the order as
\* shipped or cancelled, or some job of the order is there for an operator, unless
\* so many orders have been created since that polls no longer list this one.
OutcomeReportedOrFlagged ==
  \A o \in Order :
    delivery[o] \in {"done", "cancel"}
      ~> orders[o].status = OrderStatusOf(delivery[o]) \/ Flagged(o) \/ ~Listed(o)

Shown == [o \in Order |-> Rung(orders[o].status)]

CalledOff == {o \in Order : delivery[o] = "cancel"}

Dropped == {o \in Order : orders[o].status = "cancelled"}

\* What Core shows follows Odoo rung by rung and never runs ahead of it, and an
\* order is cancelled only after its delivery, whatever is polled, retried,
\* repeated, answered late or lost: the promise of DeliveryMirror.
Mirror == INSTANCE DeliveryMirror
            WITH shown <- Shown, called_off <- CalledOff, dropped <- Dropped

ImplementsMirror == Mirror!Spec

-----------------------------------------------------------------------------
(* What the README says, and a single lost call breaks *)

\* A report is not lost when the network fails for a moment: once the goods
\* have left, Core comes to show the order as shipped.
ShipmentReported ==
  \A o \in Order : delivery[o] = "done" ~> orders[o].status = "shipped"
=============================================================================
