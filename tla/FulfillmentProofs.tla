------------------------- MODULE FulfillmentProofs -------------------------
(***************************************************************************)
(* What holds of the fulfillment synchronisation for every set of orders,  *)
(* every limit of a poll and any number of lost calls, deaths and operator *)
(* retries, with its proofs.                                               *)
(***************************************************************************)
EXTENDS Fulfillment, SyncJobTableProofs, SequenceTheorems

LADDER == FULFILLMENT_STATUS_LADDER

-----------------------------------------------------------------------------
(* What is proved below to hold in every state *)

\* The statuses of Core a report can lead to.
Reportable == POLLABLE_STATUSES \cup {"shipped", "cancelled"}

\* Core knows no more of an order than Odoo does, and cancels it only after Odoo.
Followed ==
  \A o \in Order :
    /\ orders[o].status \in Reportable
    /\ orders[o].sync_failed_from = NoSource
    /\ orders[o].status = "cancelled" => delivery[o] = "cancel"
    /\ Rung(orders[o].status) <= picked[o]
    /\ IF delivery[o] = "cancel" THEN picked[o] < 4
                                 ELSE picked[o] = PickedRung(delivery[o])

\* A report that may be made whenever it comes: the delivery is that far.
Warranted(o, s) ==
  IF s = "cancelled" THEN delivery[o] = "cancel" ELSE Rung(s) <= picked[o]

\* Whatever is planned, under way or kept for a retry is a report of that kind.
PlannedIsWarranted ==
  \A i \in 1 .. Len(path.steps) : Warranted(path.order, path.steps[i])

BusyIsWarranted ==
  \A p \in Executor : ~At(p, "idle") => Warranted(task[p].key[1], task[p].key[2])

KeptIsWarranted ==
  \A o \in Order, s \in Step : jobs[<<o, s>>].status # "absent" => Warranted(o, s)

FollowInv == /\ TypeOK /\ Followed
             /\ PlannedIsWarranted /\ BusyIsWarranted /\ KeptIsWarranted

\* Core is at the reported status or past it.
Reported(o, s) ==
  \/ orders[o].status = "cancelled"
  \/ s # "cancelled" /\ Rung(orders[o].status) >= Rung(s)

AcceptedIsReported ==
  \A p \in Executor : At(p, "commit") => Reported(task[p].key[1], task[p].key[2])

ReportInv == FollowInv /\ AcceptedIsReported /\ CompletedIsReported

-----------------------------------------------------------------------------
(* The same as long as nothing goes wrong: only the poller works, and what it *)
(* has read is still so                                                       *)

\* Steps that lead up the ladder from a rung, leaving none out.
Climbs(steps, rung) ==
  \A i \in 1 .. Len(steps) : rung + i <= 4 /\ steps[i] = LADDER[rung + i]

\* The order is still to be reported on, and s is the next step for it.
IsNextStep(o, s) ==
  /\ orders[o].status \in POLLABLE_STATUSES
  /\ s = "cancelled" \/ s = LADDER[Rung(orders[o].status) + 1]

BatchIsFresh ==
  /\ \A b \in batch : b.status = orders[b.order].status
  /\ \A b, c \in batch : b.order = c.order => b = c
  /\ \A b \in batch : /\ path.steps # <<>> => b.order # path.order
                      /\ ~At("poller", "idle") => b.order # task["poller"].key[1]

PathIsFresh ==
  path.steps # <<>> =>
    IF At("poller", "idle")
      THEN /\ orders[path.order].status \in POLLABLE_STATUSES
           /\ \/ path.steps = <<"cancelled">>
              \/ Climbs(path.steps, Rung(orders[path.order].status))
      ELSE /\ path.order = task["poller"].key[1]
           /\ task["poller"].key[2] # "cancelled"
           /\ Climbs(path.steps, Rung(task["poller"].key[2]))

CallIsNext ==
  /\ task["poller"].pc \in {"idle", "call", "commit"}
  /\ At("poller", "call") => IsNextStep(task["poller"].key[1], task["poller"].key[2])
  /\ At("poller", "commit") =>
       orders[task["poller"].key[1]].status = task["poller"].key[2]

OnlyPollerRuns ==
  /\ At("retrier", "idle")
  /\ \A k \in Key : /\ jobs[k].status \in {"absent", "running", "completed"}
                    /\ jobs[k].status = "running" =>
                         ~At("poller", "idle") /\ task["poller"].key = k

Smooth == BatchIsFresh /\ PathIsFresh /\ CallIsNext /\ OnlyPollerRuns

SmoothInv == faults = 0 /\ crashes = 0 => Smooth

-----------------------------------------------------------------------------
(* The ladder *)

LEMMA StepIs ==
  /\ Step = {"odoo_confirmed", "inventory_reserved", "picking_ready", "shipped", "cancelled"}
  /\ Step \subseteq OrderStatus
  /\ \A i \in 1 .. 4 : LADDER[i] \in Step
  BY DEF Step, LADDER, FULFILLMENT_STATUS_LADDER, OrderStatus

\* The rungs of the statuses, as fulfillment_status_path counts them.
LEMMA Rungs ==
  /\ Rung("odoo_confirmed") = 1 /\ Rung("inventory_reserved") = 2
  /\ Rung("picking_ready") = 3 /\ Rung("shipped") = 4
  /\ Rung("sent_to_odoo") = 0 /\ Rung("cancelled") = 0
  <1>1. ASSUME NEW i \in 1 .. 4 PROVE Rung(LADDER[i]) = i
    <2>1. \E j \in 1 .. 4 : FULFILLMENT_STATUS_LADDER[j] = LADDER[i]
      BY DEF LADDER
    <2>2. \A j \in 1 .. 4 : FULFILLMENT_STATUS_LADDER[j] = LADDER[i] => j = i
      BY DEF LADDER, FULFILLMENT_STATUS_LADDER
    <2>3. QED
      BY <2>1, <2>2 DEF Rung
  <1>2. /\ LADDER[1] = "odoo_confirmed" /\ LADDER[2] = "inventory_reserved"
        /\ LADDER[3] = "picking_ready" /\ LADDER[4] = "shipped"
    BY DEF LADDER, FULFILLMENT_STATUS_LADDER
  <1>3. ASSUME NEW s \in {"sent_to_odoo", "cancelled"} PROVE Rung(s) = 0
    BY DEF Rung, FULFILLMENT_STATUS_LADDER
  <1>4. QED
    BY <1>1, <1>2, <1>3

LEMMA LadderIs ==
  /\ LADDER[1] = "odoo_confirmed" /\ LADDER[2] = "inventory_reserved"
  /\ LADDER[3] = "picking_ready" /\ LADDER[4] = "shipped"
  /\ LADDER \in Seq(Step) /\ Len(LADDER) = 4
  BY DEF LADDER, FULFILLMENT_STATUS_LADDER, Step

\* A path is either the single step "cancelled" or a stretch of the ladder, from
\* the rung above the polled status to what the delivery has come to.
LEMMA PathIs ==
  ASSUME NEW status \in POLLABLE_STATUSES, NEW picking \in PickingState
  PROVE  LET steps == StatusPath(status, OrderStatusOf(picking)) IN
         /\ steps \in Seq(Step)
         /\ picking = "cancel" => steps = <<"cancelled">>
         /\ picking # "cancel" =>
              /\ Climbs(steps, Rung(status))
              /\ \A i \in 1 .. Len(steps) : Rung(status) + i <= PickedRung(picking)
  <1> DEFINE target == OrderStatusOf(picking)
             steps == StatusPath(status, target)
  <1>1. Rung(status) \in 0 .. 3
    BY Rungs DEF POLLABLE_STATUSES
  <1>2. CASE picking = "cancel"
    <2>1. steps = <<"cancelled">>
      BY <1>2 DEF StatusPath, OrderStatusOf, POLLABLE_STATUSES
    <2>2. <<"cancelled">> \in Seq(Step)
      BY StepIs
    <2>3. QED
      BY <1>2, <2>1, <2>2
  <1>3. CASE picking \in {"none", "draft", "waiting"}
    <2>1. steps = <<>>
      BY <1>3 DEF StatusPath, OrderStatusOf
    <2>2. QED
      BY <1>3, <2>1 DEF Climbs
  <1>4. CASE picking \in {"confirmed", "assigned", "done"}
    <2>1. Rung(target) = PickedRung(picking) /\ Rung(target) \in 1 .. 4
      BY <1>4, Rungs DEF OrderStatusOf, PickedRung
    <2>2. steps = SubSeq(LADDER, Rung(status) + 1, Rung(target))
      BY <1>4 DEF StatusPath, OrderStatusOf, LADDER
    <2>3. /\ \A i \in Rung(status) + 1 .. Rung(target) : LADDER[i] \in Step
          /\ Rung(status) + 1 \in Int /\ Rung(target) \in Int
      BY <1>1, <2>1, StepIs
    <2>4. /\ steps \in Seq(Step)
          /\ Len(steps) = IF Rung(status) + 1 <= Rung(target)
                           THEN Rung(target) - (Rung(status) + 1) + 1 ELSE 0
          /\ \A i \in 1 .. Rung(target) - (Rung(status) + 1) + 1 :
               steps[i] = LADDER[Rung(status) + 1 + i - 1]
      BY <2>2, <2>3, SubSeqProperties
    <2>5. \A i \in 1 .. Len(steps) :
            /\ Rung(status) + i <= PickedRung(picking)
            /\ Rung(status) + i <= 4
            /\ steps[i] = LADDER[Rung(status) + i]
      BY <1>1, <2>1, <2>4
    <2>6. QED
      BY <1>4, <2>4, <2>5 DEF Climbs
  <1>5. QED
    BY <1>2, <1>3, <1>4 DEF PickingState

-----------------------------------------------------------------------------
(* Type correctness *)

OrderRecord == [status : OrderStatus, sync_failed_from : OrderStatus \cup {NoSource}]

LEMMA TransitionType ==
  ASSUME NEW order \in OrderRecord, NEW target \in OrderStatus
  PROVE  TransitionTo(order, target) \in OrderRecord
  <1>1. RestorePoint(order, target) \in OrderStatus \cup {NoSource}
    BY DEF RestorePoint, OrderRecord
  <1>2. QED
    BY <1>1 DEF TransitionTo, OrderRecord

\* A process that is not idle has a key.
LEMMA BusyTask ==
  ASSUME TypeOK, NEW p \in Executor, ~At(p, "idle")
  PROVE  /\ task[p] \in [pc : {"call", "commit", "failed", "rejected"}, key : Key]
         /\ task[p].key \in Key
         /\ task[p].key = <<task[p].key[1], task[p].key[2]>>
         /\ task[p].key[1] \in Order /\ task[p].key[2] \in Step
  BY DEF TypeOK, Task, At, Key

LEMMA GotoType ==
  ASSUME TypeOK, NEW p \in Executor, ~At(p, "idle"),
         NEW point \in {"call", "commit", "failed", "rejected"}, Goto(p, point)
  PROVE  /\ task' \in [Executor -> Task]
         /\ task' = [task EXCEPT ![p] = [pc |-> point, key |-> task[p].key]]
  <1>1. task[p] \in [pc : {"call", "commit", "failed", "rejected"}, key : Key]
    BY BusyTask
  <1>2. task' = [task EXCEPT ![p] = [pc |-> point, key |-> task[p].key]]
    <2>1. [task[p] EXCEPT !.pc = point] = [pc |-> point, key |-> task[p].key]
      BY <1>1
    <2>2. task' = [task EXCEPT ![p] = [task[p] EXCEPT !.pc = point]]
      BY DEF Goto
    <2>3. QED
      BY <2>1, <2>2
  <1>3. QED
    BY <1>1, <1>2 DEF TypeOK, Task

LEMMA ReportType ==
  ASSUME TypeOK, NEW k \in Key, Report(k)
  PROVE  orders' \in [Order -> OrderRecord]
  <1>1. k[1] \in Order /\ k[2] \in OrderStatus
    BY StepIs DEF Key
  <1>2. TransitionTo(orders[k[1]], k[2]) \in OrderRecord
    BY <1>1, TransitionType DEF TypeOK, OrderRecord
  <1>3. QED
    BY <1>1, <1>2 DEF Report, TypeOK, OrderRecord

LEMMA BegunType ==
  ASSUME TypeOK, NEW k \in Key PROVE BegunJob(k) \in Job
  <1>1. ThePayload \in Payload
    BY ReportAssumption DEF ThePayload
  <1>2. jobs[k] \in Job
    BY DEF TypeOK
  <1>3. QED
    BY <1>1, <1>2, NewJobType, ResumeType DEF BegunJob

LEMMA TypeStep == TypeOK /\ [Next]_vars => TypeOK'
  <1> SUFFICES ASSUME TypeOK, [Next]_vars PROVE TypeOK'
    OBVIOUS
  <1> USE DEF TypeOK
  <1>1. CASE Poll
    BY <1>1 DEF Poll, Polled
  <1>2. CASE DispatchStep
    <2> DEFINE k == <<path.order, Head(path.steps)>>
    <2>1. /\ Head(path.steps) \in Step
          /\ Tail(path.steps) \in Seq(Step)
      BY <1>2, HeadTailProperties DEF DispatchStep
    <2>2. k \in Key
      BY <1>2, <2>1 DEF DispatchStep, Key
    <2>3. path' \in [order : Order \cup {Null}, steps : Seq(Step)]
          /\ path'.order = path.order
      BY <1>2, <2>1 DEF DispatchStep
    <2>4. jobs' \in [Key -> Job]
      BY <1>2, <2>2, BegunType DEF DispatchStep
    <2>5. task' \in [Executor -> Task]
      <3>1. [pc |-> "call", key |-> k] \in Task
        BY <2>2 DEF Task
      <3> DEFINE t == [pc |-> "call", key |-> k]
      <3>2. task' = task \/ task' = [task EXCEPT !["poller"] = t]
        BY <1>2 DEF DispatchStep
      <3> HIDE DEF t
      <3>3. QED
        BY <3>1, <3>2 DEF t
    <2>6. QED
      BY <1>2, <2>3, <2>4, <2>5 DEF DispatchStep
  <1>3. ASSUME NEW b \in batch, ProcessOrder(b) PROVE TypeOK'
    <2>1. b.order \in Order /\ b.status \in POLLABLE_STATUSES /\ delivery[b.order] \in PickingState
      BY DEF Polled
    <2>2. StatusPath(b.status, OrderStatusOf(delivery[b.order])) \in Seq(Step)
      BY <2>1, PathIs
    <2>3. QED
      BY <1>3, <2>1, <2>2 DEF ProcessOrder
  <1>4. ASSUME NEW b \in batch, DeliveryUnread(b) PROVE TypeOK'
    BY <1>4 DEF DeliveryUnread
  <1>5. CASE PlaceNewer
    BY <1>5, BoundAssumption DEF PlaceNewer
  <1>6. ASSUME NEW p \in Executor, CallAnswered(p) PROVE TypeOK'
    BY <1>6, BusyTask, ReportType, GotoType DEF CallAnswered, At, OrderRecord
  <1>7. ASSUME NEW p \in Executor, CallLost(p) PROVE TypeOK'
    BY <1>7, BusyTask, ReportType, GotoType DEF CallLost, At, OrderRecord
  <1>8. ASSUME NEW p \in Executor, Record(p) PROVE TypeOK'
    <2>1. ThePayload \in Payload /\ TheResult \in Result
      BY ReportAssumption DEF ThePayload, TheResult
    <2>2. task[p].key \in Key /\ jobs[task[p].key] \in Job
      BY <1>8, BusyTask DEF Record, At
    <2>3. jobs' \in [Key -> Job]
      BY <1>8, <2>1, <2>2, CommitJobType, FailJobType DEF Record
    <2>4. task' \in [Executor -> Task]
      BY <1>8 DEF Record, Idle, Task
    <2>5. QED
      BY <1>8, <2>3, <2>4 DEF Record
  <1>9. ASSUME NEW p \in Executor, Crash(p) PROVE TypeOK'
    <2>1. task' \in [Executor -> Task]
      BY <1>9 DEF Crash, Idle, Task
    <2>2. NoPath \in [order : Order \cup {Null}, steps : Seq(Step)] /\ NoPath.steps = <<>>
      BY DEF NoPath
    <2>3. QED
      BY <1>9, <2>1, <2>2 DEF Crash
  <1>10. ASSUME NEW k \in Key, RetryDue(k) PROVE TypeOK'
    BY <1>10, BegunType DEF RetryDue, Task, Executor
  <1>11. ASSUME NEW k \in Key, Reopen(k) PROVE TypeOK'
    BY <1>11, RetryJobType DEF Reopen
  <1>12. ASSUME NEW k \in Key, Elapse(k) PROVE TypeOK'
    BY <1>12, ElapseType DEF Elapse
  <1>13. ASSUME NEW o \in Order, NEW picking \in PickingState, Progress(o, picking) PROVE TypeOK'
    <2>1. PickedRung(picking) \in 0 .. 4
      BY DEF PickedRung
    <2>2. QED
      BY <1>13, <2>1 DEF Progress
  <1>14. CASE UNCHANGED vars
    BY <1>14 DEF vars
  <1>15. QED
    BY <1>1, <1>2, <1>3, <1>4, <1>5, <1>6, <1>7, <1>8, <1>9, <1>10, <1>11, <1>12, <1>13, <1>14
    DEF Next, Work, Execute

LEMMA TypeInit == Init => TypeOK
  BY NoJobType, BoundAssumption
  DEF Init, TypeOK, OrderStatus, NoSource, PickingState, Idle, Task, Polled, NoPath

\* Core, Odoo, the jobs and both workers stay well formed.
THEOREM TypeCorrect == Spec => []TypeOK
  BY TypeInit, TypeStep, PTL DEF Spec

-----------------------------------------------------------------------------
(* Core follows Odoo *)

\* What Core makes of a report: nothing, a cancellation, or one rung up.
LEMMA ReportMoves ==
  ASSUME TypeOK, Followed, NEW k \in Key, Report(k)
  PROVE  LET o == k[1]
             s == k[2]
             status == orders[o].status
         IN
         /\ \A q \in Order : q # o => orders'[q] = orders[q]
         /\ orders'[o].sync_failed_from = NoSource
         /\ ~CanTransition(orders[o], s) => orders' = orders
         /\ CanTransition(orders[o], s) => orders'[o].status = s
         /\ \/ orders' = orders
            \/ /\ status \in POLLABLE_STATUSES
               /\ s = "cancelled" /\ orders'[o].status = s
            \/ /\ status \in POLLABLE_STATUSES
               /\ s # "cancelled" /\ orders'[o].status = s
               /\ Rung(s) = Rung(status) + 1
  <1> DEFINE o == k[1]
             s == k[2]
             status == orders[o].status
  <1>1. o \in Order /\ s \in Step /\ s \in OrderStatus
    BY StepIs DEF Key
  <1>2. /\ orders[o] \in OrderRecord
        /\ status \in Reportable /\ orders[o].sync_failed_from = NoSource
    BY <1>1 DEF TypeOK, OrderRecord, Followed
  <1>3. CASE ~CanTransition(orders[o], s)
    BY <1>2, <1>3 DEF Report
  <1>4. CASE CanTransition(orders[o], s)
    <2>1. TransitionTo(orders[o], s) = [status |-> s, sync_failed_from |-> NoSource]
      <3>1. RestorePoint(orders[o], s) = NoSource
        BY <1>1, <1>2, StepIs DEF RestorePoint, Reportable, POLLABLE_STATUSES
      <3> DEFINE after == TransitionTo(orders[o], s)
      <3>2. after \in OrderRecord
        BY <1>1, <1>2, TransitionType
      <3>3. after.status = s /\ after.sync_failed_from = NoSource
        BY <1>2, <3>1 DEF TransitionTo, OrderRecord
      <3> HIDE DEF after
      <3>4. after = [status |-> s, sync_failed_from |-> NoSource]
        BY <3>2, <3>3 DEF OrderRecord
      <3>5. QED
        BY <3>4 DEF after
    <2>2. orders' = [orders EXCEPT ![o] = [status |-> s, sync_failed_from |-> NoSource]]
      BY <1>4, <2>1 DEF Report
    <2>3. CASE s = status
      <3>1. orders[o] = [status |-> s, sync_failed_from |-> NoSource]
        BY <1>2, <2>3 DEF OrderRecord
      <3>2. orders' = orders
        BY <1>1, <2>2, <3>1 DEF TypeOK
      <3>3. QED
        BY <1>2, <1>4, <2>3, <3>2
    <2>4. CASE s # status
      <3>1. s \in ORDER_TRANSITIONS[status]
        BY <1>2, <1>4, <2>4 DEF CanTransition, AllowedTransitions, Reportable, POLLABLE_STATUSES
      <3>2. status \in POLLABLE_STATUSES /\ (s = "cancelled" \/ Rung(s) = Rung(status) + 1)
        BY <1>1, <1>2, <3>1, StepIs, Rungs DEF Reportable, POLLABLE_STATUSES, ORDER_TRANSITIONS
      <3>3. \A q \in Order : orders'[q] = IF q = o THEN [status |-> s, sync_failed_from |-> NoSource]
                                                   ELSE orders[q]
        BY <1>1, <2>2 DEF TypeOK
      <3>4. QED
        BY <1>1, <1>4, <3>2, <3>3
    <2>5. QED
      BY <2>3, <2>4
  <1>5. QED
    BY <1>3, <1>4

\* The delivery goes on, and a cancelled one stays cancelled.
LEMMA DeliveryGrows ==
  ASSUME TypeOK, Followed, [Next]_vars, NEW o \in Order
  PROVE  /\ picked[o] <= picked'[o]
         /\ delivery[o] = "cancel" => delivery'[o] = "cancel"
  <1>1. CASE UNCHANGED <<delivery, picked>>
    BY <1>1 DEF TypeOK
  <1>2. ASSUME NEW q \in Order, NEW picking \in PickingState, Progress(q, picking)
        PROVE  /\ picked[o] <= picked'[o]
               /\ delivery[o] = "cancel" => delivery'[o] = "cancel"
    <2>1. CASE o # q
      BY <1>2, <2>1 DEF Progress, TypeOK
    <2>2. CASE o = q
      <3>1. delivery[o] \in PickingState \ {"cancel"} /\ picked[o] = PickedRung(delivery[o])
        BY <1>2, <2>2 DEF Progress, TypeOK, Followed, Reached, PickingState
      <3>2. picking # "cancel" => PickedRung(delivery[o]) <= PickedRung(picking)
        BY <1>2, <2>2, <3>1 DEF Progress, Reached, PickedRung, PickingState
      <3>3. QED
        BY <1>2, <2>2, <3>1, <3>2 DEF Progress, TypeOK
    <2>3. QED
      BY <2>1, <2>2
  <1>3. QED
    BY <1>1, <1>2
    DEF Next, Work, Execute, Poll, DispatchStep, ProcessOrder, DeliveryUnread, PlaceNewer,
        CallAnswered, CallLost, Record, Crash, RetryDue, Reopen, Elapse, vars

LEMMA PickedIsRung ==
  ASSUME TypeOK, [Next]_vars, NEW o \in Order
  PROVE  picked[o] \in 0 .. 4 /\ picked'[o] \in 0 .. 4
  <1>1. TypeOK'
    BY TypeStep
  <1>2. picked \in [Order -> 0 .. 4] /\ picked' \in [Order -> 0 .. 4]
    BY <1>1 DEF TypeOK
  <1>3. QED
    BY <1>2

LEMMA WarrantKept ==
  ASSUME TypeOK, Followed, [Next]_vars, NEW o \in Order, NEW s \in Step, Warranted(o, s)
  PROVE  Warranted(o, s)'
  <1>1. Rung(s) \in Nat
    BY StepIs, Rungs
  <1>2. picked[o] \in Nat /\ picked'[o] \in Nat
    BY PickedIsRung
  <1>3. QED
    BY <1>1, <1>2, DeliveryGrows DEF Warranted

LEMMA FollowedStep == FollowInv /\ [Next]_vars => Followed'
  <1> SUFFICES ASSUME FollowInv, [Next]_vars PROVE Followed'
    OBVIOUS
  <1> USE DEF FollowInv
  <1>1. CASE UNCHANGED <<orders, delivery, picked>>
    BY <1>1 DEF Followed
  <1>2. ASSUME NEW p \in Executor, ~At(p, "idle"), Report(task[p].key),
               UNCHANGED <<delivery, picked>>
        PROVE  Followed'
    <2> DEFINE k == task[p].key
    <2>1. k \in Key /\ k[1] \in Order /\ k[2] \in Step /\ Warranted(k[1], k[2])
      BY <1>2, BusyTask DEF BusyIsWarranted
    <2>2. /\ \A q \in Order : q # k[1] => orders'[q] = orders[q]
          /\ orders'[k[1]].sync_failed_from = NoSource
          /\ \/ orders' = orders
             \/ k[2] = "cancelled" /\ orders'[k[1]].status = k[2]
             \/ k[2] # "cancelled" /\ orders'[k[1]].status = k[2]
      BY <1>2, <2>1, ReportMoves
    <2>3. k[2] \in Reportable
      BY <2>1, StepIs DEF Reportable, POLLABLE_STATUSES
    <2>4. SUFFICES ASSUME orders' # orders, orders'[k[1]].status = k[2]
                   PROVE  Followed'
      BY <1>1, <1>2, <2>2
    <2>5. /\ k[2] = "cancelled" => delivery[k[1]] = "cancel"
          /\ Rung(k[2]) <= picked[k[1]]
      <3>1. picked[k[1]] \in Nat
        BY <2>1, PickedIsRung
      <3>2. QED
        BY <2>1, <3>1, Rungs DEF Warranted
    <2>6. QED
      BY <1>2, <2>1, <2>2, <2>3, <2>4, <2>5 DEF Followed
  <1>3. ASSUME NEW q \in Order, NEW picking \in PickingState, Progress(q, picking)
        PROVE  Followed'
    <2> SUFFICES ASSUME NEW o \in Order
                 PROVE  /\ orders[o].status \in Reportable
                        /\ orders[o].sync_failed_from = NoSource
                        /\ orders[o].status = "cancelled" => delivery'[o] = "cancel"
                        /\ Rung(orders[o].status) <= picked'[o]
                        /\ IF delivery'[o] = "cancel" THEN picked'[o] < 4
                                                      ELSE picked'[o] = PickedRung(delivery'[o])
      BY <1>3 DEF Followed, Progress
    <2>1. Rung(orders[o].status) \in Nat /\ picked[o] \in Nat /\ picked'[o] \in Nat
      BY Rungs, PickedIsRung DEF Followed, Reportable, POLLABLE_STATUSES
    <2>2. CASE o # q
      BY <1>3, <2>2 DEF Progress, TypeOK, Followed
    <2>3. CASE o = q
      <3>1. delivery[o] \in PickingState \ {"cancel"} /\ picked[o] = PickedRung(delivery[o])
        BY <1>3, <2>3 DEF Progress, TypeOK, Followed, Reached, PickingState
      <3>2. picking = "cancel" => picked[o] < 4
        BY <1>3, <2>3, <3>1 DEF Progress, Reached, PickedRung, PickingState
      <3>3. QED
        BY <1>3, <2>1, <2>3, <3>2, DeliveryGrows DEF Progress, TypeOK, Followed
    <2>4. QED
      BY <2>2, <2>3
  <1>4. QED
    BY <1>1, <1>2, <1>3
    DEF Next, Work, Execute, Poll, DispatchStep, ProcessOrder, DeliveryUnread, PlaceNewer,
        CallAnswered, CallLost, Record, Crash, RetryDue, Reopen, Elapse, vars, At

\* The poller takes the next step off a path.
LEMMA TakeStep ==
  ASSUME TypeOK, path.steps # <<>>
  PROVE  /\ path.order \in Order /\ path.steps \in Seq(Step)
         /\ Head(path.steps) \in Step /\ Head(path.steps) = path.steps[1]
         /\ Len(path.steps) \in Nat \ {0}
         /\ Tail(path.steps) \in Seq(Step)
         /\ Len(Tail(path.steps)) = Len(path.steps) - 1
         /\ \A i \in 1 .. Len(Tail(path.steps)) : Tail(path.steps)[i] = path.steps[i + 1]
         /\ <<path.order, Head(path.steps)>> \in Key
  <1>1. path.order \in Order /\ path.steps \in Seq(Step)
    BY DEF TypeOK
  <1>2. Head(path.steps) \in Step /\ Head(path.steps) = path.steps[1]
    BY <1>1, HeadTailProperties
  <1>3. Len(path.steps) \in Nat \ {0}
    BY <1>1, EmptySeq, LenProperties
  <1>4. QED
    BY <1>1, <1>2, <1>3, HeadTailProperties DEF Key

LEMMA PlannedStep == FollowInv /\ [Next]_vars => PlannedIsWarranted'
  <1> SUFFICES ASSUME FollowInv, [Next]_vars PROVE PlannedIsWarranted'
    OBVIOUS
  <1> USE DEF FollowInv
  <1>1. CASE UNCHANGED path
    <2>1. SUFFICES ASSUME NEW i \in 1 .. Len(path.steps) PROVE Warranted(path.order, path.steps[i])'
      BY <1>1 DEF PlannedIsWarranted
    <2>2. path.steps # <<>>
      BY <2>1 DEF TypeOK
    <2>3. path.order \in Order /\ path.steps[i] \in Step
      BY <2>1, <2>2, TakeStep, ElementOfSeq
    <2>4. Warranted(path.order, path.steps[i])
      BY <2>1 DEF PlannedIsWarranted
    <2>5. QED
      BY <1>1, <2>3, <2>4, WarrantKept DEF Warranted
  <1>2. CASE DispatchStep
    <2>1. path'.order = path.order /\ path'.steps = Tail(path.steps)
      BY <1>2 DEF DispatchStep, TypeOK
    <2>2. SUFFICES ASSUME NEW i \in 1 .. Len(Tail(path.steps)),
                          NEW o, o = path.order, NEW s, s = path.steps[i + 1]
                   PROVE  Warranted(o, s)'
      BY <1>2, <2>1, TakeStep DEF PlannedIsWarranted, Warranted, DispatchStep
    <2>3. i + 1 \in 1 .. Len(path.steps) /\ o \in Order /\ s \in Step
      BY <1>2, <2>2, TakeStep, ElementOfSeq DEF DispatchStep
    <2>4. Warranted(o, s)
      BY <2>2, <2>3 DEF PlannedIsWarranted
    <2>5. QED
      BY <2>3, <2>4, WarrantKept
  <1>3. ASSUME NEW b \in batch, ProcessOrder(b) PROVE PlannedIsWarranted'
    <2> DEFINE steps == StatusPath(b.status, OrderStatusOf(delivery[b.order]))
    <2>1. b.order \in Order /\ b.status \in POLLABLE_STATUSES /\ delivery[b.order] \in PickingState
      BY DEF Polled, TypeOK
    <2>2. ASSUME NEW i \in 1 .. Len(steps) PROVE Warranted(b.order, steps[i])
      <3>1. CASE delivery[b.order] = "cancel"
        <4>1. steps = <<"cancelled">>
          BY <2>1, <3>1, PathIs
        <4>2. QED
          BY <2>2, <3>1, <4>1 DEF Warranted
      <3>2. CASE delivery[b.order] # "cancel"
        <4>1. /\ steps[i] = LADDER[Rung(b.status) + i]
              /\ Rung(b.status) + i \in 1 .. 4
              /\ Rung(b.status) + i <= PickedRung(delivery[b.order])
          <5>1. Rung(b.status) \in Nat
            BY <2>1, Rungs DEF POLLABLE_STATUSES
          <5>2. QED
            BY <2>1, <2>2, <3>2, <5>1, PathIs DEF Climbs
        <4>2. Rung(steps[i]) = Rung(b.status) + i /\ steps[i] # "cancelled"
          BY <4>1, LadderIs, Rungs
        <4>3. QED
          BY <2>1, <3>2, <4>1, <4>2 DEF Followed, Warranted
      <3>3. QED
        BY <3>1, <3>2
    <2>3. path' = [order |-> b.order, steps |-> steps] /\ UNCHANGED <<delivery, picked>>
      BY <1>3 DEF ProcessOrder
    <2> HIDE DEF steps
    <2>4. QED
      BY <2>2, <2>3 DEF PlannedIsWarranted, Warranted
  <1>4. CASE path' = NoPath
    BY <1>4 DEF NoPath, PlannedIsWarranted
  <1>5. QED
    BY <1>1, <1>2, <1>3, <1>4
    DEF Next, Work, Execute, Poll, DeliveryUnread, PlaceNewer,
        CallAnswered, CallLost, Record, Crash, RetryDue, Reopen, Elapse, Progress, vars

LEMMA BusyStep == FollowInv /\ [Next]_vars => BusyIsWarranted'
  <1> SUFFICES ASSUME FollowInv, [Next]_vars,
                      NEW q \in Executor, task'[q].pc # "idle"
               PROVE  Warranted(task[q].key[1], task[q].key[2])'
    BY DEF BusyIsWarranted, At
  <1> USE DEF FollowInv
  <1>1. CASE task[q].pc # "idle" /\ task'[q].key = task[q].key
    BY <1>1, BusyTask, WarrantKept DEF BusyIsWarranted, At, Warranted
  <1>2. ASSUME NEW k \in Key, Warranted(k[1], k[2]), UNCHANGED <<delivery, picked>>,
               task'[q].key = k
        PROVE  Warranted(task[q].key[1], task[q].key[2])'
    BY <1>2 DEF Warranted
  <1>3. CASE UNCHANGED task
    BY <1>1, <1>3
  <1>4. ASSUME NEW p \in Executor, ~At(p, "idle"),
               \E point \in {"call", "commit", "failed", "rejected"} : Goto(p, point)
        PROVE  Warranted(task[q].key[1], task[q].key[2])'
    <2>1. task[q].pc # "idle" /\ task'[q].key = task[q].key
      BY <1>4, GotoType DEF TypeOK, At
    <2>2. QED
      BY <1>1, <2>1
  <1>5. ASSUME NEW p \in Executor, task' = [task EXCEPT ![p] = Idle]
        PROVE  Warranted(task[q].key[1], task[q].key[2])'
    <2>1. p # q
      BY <1>5 DEF TypeOK, Idle
    <2>2. QED
      BY <1>1, <1>5, <2>1 DEF TypeOK
  <1>6. ASSUME NEW p \in Executor, NEW k \in Key, Warranted(k[1], k[2]),
               UNCHANGED <<delivery, picked>>,
               task' = [task EXCEPT ![p] = [pc |-> "call", key |-> k]]
        PROVE  Warranted(task[q].key[1], task[q].key[2])'
    <2>1. CASE p # q
      BY <1>1, <1>6, <2>1 DEF TypeOK
    <2>2. CASE p = q
      BY <1>2, <1>6, <2>2 DEF TypeOK
    <2>3. QED
      BY <2>1, <2>2
  <1>7. CASE DispatchStep
    <2> DEFINE k == <<path.order, Head(path.steps)>>
    <2>1. k \in Key /\ Warranted(k[1], k[2])
      BY <1>7, TakeStep DEF DispatchStep, PlannedIsWarranted
    <2>2. \/ UNCHANGED task
          \/ task' = [task EXCEPT !["poller"] = [pc |-> "call", key |-> k]]
      BY <1>7 DEF DispatchStep
    <2>3. UNCHANGED <<delivery, picked>> /\ "poller" \in Executor
      BY <1>7 DEF DispatchStep, Executor
    <2> HIDE DEF k
    <2>4. QED
      BY <1>3, <1>6, <2>1, <2>2, <2>3
  <1>8. ASSUME NEW k \in Key, RetryDue(k) PROVE Warranted(task[q].key[1], task[q].key[2])'
    <2>1. Warranted(k[1], k[2])
      BY <1>8 DEF RetryDue, IsListed, KeptIsWarranted, Key
    <2>2. QED
      BY <1>6, <1>8, <2>1 DEF RetryDue, Executor
  <1>9. ASSUME NEW p \in Executor, CallAnswered(p) \/ CallLost(p)
        PROVE  Warranted(task[q].key[1], task[q].key[2])'
    BY <1>4, <1>9 DEF CallAnswered, CallLost, At
  <1>10. ASSUME NEW p \in Executor, Record(p) \/ Crash(p)
         PROVE  Warranted(task[q].key[1], task[q].key[2])'
    BY <1>5, <1>10 DEF Record, Crash
  <1>11. QED
    BY <1>3, <1>7, <1>8, <1>9, <1>10
    DEF Next, Work, Execute, Poll, ProcessOrder, DeliveryUnread, PlaceNewer,
        Reopen, Elapse, Progress, vars

\* A step gives a job a row only when it begins a report on the poller's path.
LEMMA RowsBegin ==
  ASSUME TypeOK, [Next]_vars, NEW k \in Key,
         jobs[k].status = "absent", jobs'[k].status # "absent"
  PROVE  \/ DispatchStep /\ k = <<path.order, Head(path.steps)>>
         \/ \E p \in Executor : ~At(p, "idle") /\ k = task[p].key
  <1>1. ASSUME NEW q \in Key, NEW job \in Job, jobs' = [jobs EXCEPT ![q] = job] PROVE k = q
    BY <1>1 DEF TypeOK
  <1>2. CASE DispatchStep
    <2> DEFINE q == <<path.order, Head(path.steps)>>
    <2>1. q \in Key
      BY <1>2, TakeStep DEF DispatchStep
    <2>2. BegunJob(q) \in Job
      BY <2>1, BegunType
    <2>3. UNCHANGED jobs \/ jobs' = [jobs EXCEPT ![q] = BegunJob(q)]
      BY <1>2 DEF DispatchStep
    <2> HIDE DEF q
    <2>4. k = q
      BY <1>1, <2>1, <2>2, <2>3
    <2>5. QED
      BY <1>2, <2>4 DEF q
  <1>3. ASSUME NEW q \in Key, RetryDue(q) PROVE FALSE
    <2>1. k = q
      BY <1>1, <1>3, BegunType DEF RetryDue
    <2>2. QED
      BY <1>3, <2>1 DEF RetryDue, IsListed
  <1>4. ASSUME NEW q \in Key, Reopen(q) PROVE FALSE
    <2>1. k = q
      BY <1>1, <1>4, RetryJobType DEF Reopen, TypeOK
    <2>2. QED
      BY <1>4, <2>1 DEF Reopen, CanRetry
  <1>5. ASSUME NEW q \in Key, Elapse(q) PROVE FALSE
    BY <1>5 DEF Elapse, TypeOK, Job
  <1>6. ASSUME NEW p \in Executor, Record(p)
        PROVE  \E r \in Executor : ~At(r, "idle") /\ k = task[r].key
    <2>1. ~At(p, "idle") /\ task[p].key \in Key
      BY <1>6, BusyTask DEF Record, At
    <2>2. k = task[p].key
      BY <1>6, <2>1 DEF Record, TypeOK
    <2>3. QED
      BY <2>1, <2>2
  <1>7. QED
    BY <1>2, <1>3, <1>4, <1>5, <1>6
    DEF Next, Work, Execute, Poll, ProcessOrder, DeliveryUnread, PlaceNewer,
        CallAnswered, CallLost, Crash, Progress, vars

LEMMA KeptStep == FollowInv /\ [Next]_vars => KeptIsWarranted'
  <1> SUFFICES ASSUME FollowInv, [Next]_vars, NEW o \in Order, NEW s \in Step,
                      jobs'[<<o, s>>].status # "absent"
               PROVE  Warranted(o, s)'
    BY DEF KeptIsWarranted
  <1> USE DEF FollowInv
  <1>1. SUFFICES Warranted(o, s)
    BY WarrantKept
  <1>2. <<o, s>> \in Key
    BY DEF Key
  <1>3. CASE jobs[<<o, s>>].status # "absent"
    BY <1>3 DEF KeptIsWarranted
  <1>4. CASE DispatchStep /\ <<o, s>> = <<path.order, Head(path.steps)>>
    BY <1>4, TakeStep DEF DispatchStep, PlannedIsWarranted
  <1>5. ASSUME NEW p \in Executor, ~At(p, "idle"), <<o, s>> = task[p].key
        PROVE  Warranted(o, s)
    <2>1. task[p].key[1] = o /\ task[p].key[2] = s
      BY <1>5
    <2>2. QED
      BY <1>5, <2>1 DEF BusyIsWarranted
  <1>6. QED
    BY <1>2, <1>3, <1>4, <1>5, RowsBegin

LEMMA FollowInit == Init => FollowInv
  <1> SUFFICES ASSUME Init PROVE FollowInv
    OBVIOUS
  <1>1. TypeOK
    BY TypeInit
  <1>2. Followed
    BY Rungs DEF Init, Followed, Reportable, POLLABLE_STATUSES, PickedRung
  <1>3. PlannedIsWarranted
    BY DEF Init, NoPath, PlannedIsWarranted
  <1>4. BusyIsWarranted
    BY DEF Init, Idle, At, BusyIsWarranted
  <1>5. KeptIsWarranted
    BY DEF Init, NoJob, KeptIsWarranted, Key
  <1>6. QED
    BY <1>1, <1>2, <1>3, <1>4, <1>5 DEF FollowInv

LEMMA FollowStep == FollowInv /\ [Next]_vars => FollowInv'
  BY TypeStep, FollowedStep, PlannedStep, BusyStep, KeptStep DEF FollowInv

LEMMA FollowInvariance == Spec => []FollowInv
  BY FollowInit, FollowStep, PTL DEF Spec

-----------------------------------------------------------------------------
(* The detailed workers implement DeliveryMirror *)

LEMMA ReportMaps ==
  ASSUME FollowInv, NEW k \in Key, Warranted(k[1], k[2]), Report(k),
         UNCHANGED <<delivery, picked>>
  PROVE  [Mirror!Next]_<<picked, Shown, CalledOff, Dropped>>
  <1> USE DEF FollowInv
  <1> DEFINE o == k[1]
             s == k[2]
             status == orders[o].status
  <1>1. o \in Order /\ s \in Step /\ CalledOff' = CalledOff /\ picked' = picked
    BY DEF Key, CalledOff
  <1>2. \A q \in Order : q # o => orders'[q] = orders[q]
    BY ReportMoves
  <1>3. CASE orders' = orders
    BY <1>1, <1>3 DEF Shown, Dropped
  <1>4. CASE status \in POLLABLE_STATUSES /\ s = "cancelled" /\ orders'[o].status = s
    <2>1. o \in CalledOff
      BY <1>1, <1>4 DEF Warranted, CalledOff
    <2>2. Shown[o] < 4
      BY <1>1, <1>4, Rungs DEF Shown, POLLABLE_STATUSES
    <2>3. Dropped' = Dropped \cup {o}
      BY <1>1, <1>2, <1>4 DEF Dropped
    <2>4. Shown' = [Shown EXCEPT ![o] = 0]
      BY <1>1, <1>2, <1>4, Rungs DEF Shown
    <2>5. Mirror!Drop(o)
      BY <1>1, <2>1, <2>2, <2>3, <2>4 DEF Mirror!Drop, Mirror!Shipped
    <2>6. QED
      BY <1>1, <2>5 DEF Mirror!Next
  <1>5. CASE /\ status \in POLLABLE_STATUSES
             /\ s # "cancelled" /\ orders'[o].status = s
             /\ Rung(s) = Rung(status) + 1
    <2>1. o \notin Dropped
      BY <1>1, <1>5 DEF Dropped, POLLABLE_STATUSES
    <2>2. Shown[o] = Rung(status) /\ Rung(status) \in Nat /\ picked[o] \in Nat
      <3>1. picked[o] \in 0 .. 4
        BY <1>1 DEF TypeOK
      <3>2. QED
        BY <1>1, <1>5, <3>1, Rungs DEF Shown, POLLABLE_STATUSES
    <2>3. Shown[o] < picked[o]
      BY <1>5, <2>2 DEF Warranted
    <2>4. Dropped' = Dropped
      BY <1>1, <1>2, <1>5, <2>1 DEF Dropped
    <2>5. Shown' = [Shown EXCEPT ![o] = Shown[o] + 1]
      BY <1>1, <1>2, <1>5, <2>2 DEF Shown
    <2>6. Mirror!Climb(o)
      BY <1>1, <2>1, <2>3, <2>4, <2>5 DEF Mirror!Climb
    <2>7. QED
      BY <1>1, <2>6 DEF Mirror!Next
  <1>6. QED
    BY <1>3, <1>4, <1>5, ReportMoves

LEMMA ProgressMaps ==
  ASSUME FollowInv, NEW o \in Order, NEW picking \in PickingState, Progress(o, picking)
  PROVE  [Mirror!Next]_<<picked, Shown, CalledOff, Dropped>>
  <1> USE DEF FollowInv
  <1>1. delivery[o] \in PickingState \ {"cancel"} /\ picked[o] = PickedRung(delivery[o])
    BY DEF Progress, TypeOK, Followed, Reached, PickingState
  <1>2. o \notin CalledOff /\ Shown' = Shown /\ Dropped' = Dropped
    BY <1>1 DEF CalledOff, Shown, Dropped, Progress
  <1>3. CASE picking = "cancel"
    <2>1. picked[o] < 4
      BY <1>1, <1>3 DEF Progress, Reached, PickedRung, PickingState
    <2>2. picked' = picked
      BY <1>3 DEF Progress, TypeOK
    <2>3. CalledOff' = CalledOff \cup {o}
      BY <1>3 DEF Progress, TypeOK, CalledOff
    <2>4. Mirror!CallOff(o)
      BY <1>2, <2>1, <2>2, <2>3 DEF Mirror!CallOff, Mirror!Shipped
    <2>5. QED
      BY <2>4 DEF Mirror!Next
  <1>4. CASE picking # "cancel"
    <2>1. /\ PickedRung(picking) \in 0 .. 4 /\ picked[o] \in 0 .. 4
          /\ picked[o] <= PickedRung(picking)
      BY <1>1, <1>4 DEF Progress, Reached, PickedRung, PickingState
    <2>2. picked' = [picked EXCEPT ![o] = PickedRung(picking)]
      BY <1>4 DEF Progress
    <2>3. CalledOff' = CalledOff
      BY <1>1, <1>4 DEF Progress, TypeOK, CalledOff
    <2>4. CASE PickedRung(picking) = picked[o]
      BY <1>2, <2>2, <2>3, <2>4 DEF TypeOK
    <2>5. CASE PickedRung(picking) # picked[o]
      <3>1. /\ PickedRung(picking) \in (picked[o] + 1) .. 4
            /\ PickedRung(picking) \in 1 .. 4
        BY <2>1, <2>5
      <3>2. Mirror!Progress(o, PickedRung(picking))
        BY <1>2, <2>2, <2>3, <3>1 DEF Mirror!Progress, Mirror!Shipped
      <3>3. QED
        BY <3>1, <3>2 DEF Mirror!Next, Mirror!Shipped
    <2>6. QED
      BY <2>4, <2>5
  <1>5. QED
    BY <1>3, <1>4

LEMMA StepMaps ==
  FollowInv /\ [Next]_vars => [Mirror!Next]_<<picked, Shown, CalledOff, Dropped>>
  <1> SUFFICES ASSUME FollowInv, [Next]_vars
               PROVE  [Mirror!Next]_<<picked, Shown, CalledOff, Dropped>>
    OBVIOUS
  <1>1. CASE UNCHANGED <<orders, delivery, picked>>
    BY <1>1 DEF Shown, CalledOff, Dropped
  <1>2. ASSUME NEW p \in Executor, ~At(p, "idle"), Report(task[p].key),
               UNCHANGED <<delivery, picked>>
        PROVE  [Mirror!Next]_<<picked, Shown, CalledOff, Dropped>>
    BY <1>2, BusyTask, ReportMaps DEF FollowInv, BusyIsWarranted
  <1>3. ASSUME NEW o \in Order, NEW picking \in PickingState, Progress(o, picking)
        PROVE  [Mirror!Next]_<<picked, Shown, CalledOff, Dropped>>
    BY <1>3, ProgressMaps
  <1>4. QED
    BY <1>1, <1>2, <1>3
    DEF Next, Work, Execute, Poll, DispatchStep, ProcessOrder, DeliveryUnread, PlaceNewer,
        CallAnswered, CallLost, Record, Crash, RetryDue, Reopen, Elapse, vars, At

\* Polls, paths, jobs, retries by two workers and operators, lost calls and lost
\* answers, deaths: Core follows Odoo rung by rung, never runs ahead of it, and
\* cancels an order only after its delivery.
THEOREM FollowsDelivery == Spec => ImplementsMirror
  <1>1. Init => Mirror!Init
    BY Rungs DEF Init, Mirror!Init, Shown, CalledOff, Dropped
  <1>2. QED
    BY <1>1, StepMaps, FollowInvariance, PTL DEF Spec, ImplementsMirror, Mirror!Spec

-----------------------------------------------------------------------------
(* A completed report was made *)

\* Core does not go back.
LEMMA CoreMovesOn ==
  ASSUME FollowInv, [Next]_vars, NEW o \in Order
  PROVE  \/ orders'[o].status = orders[o].status
         \/ orders'[o].status = "cancelled"
         \/ /\ orders[o].status # "cancelled" /\ orders'[o].status # "cancelled"
            /\ Rung(orders'[o].status) = Rung(orders[o].status) + 1
  <1> USE DEF FollowInv
  <1>1. CASE UNCHANGED orders
    BY <1>1
  <1>2. ASSUME NEW p \in Executor, ~At(p, "idle"), Report(task[p].key)
        PROVE  \/ orders'[o].status = orders[o].status
               \/ orders'[o].status = "cancelled"
               \/ /\ orders[o].status # "cancelled" /\ orders'[o].status # "cancelled"
                  /\ Rung(orders'[o].status) = Rung(orders[o].status) + 1
    <2> DEFINE k == task[p].key
    <2>1. k \in Key
      BY <1>2, BusyTask
    <2>2. /\ \A q \in Order : q # k[1] => orders'[q] = orders[q]
          /\ \/ orders' = orders
             \/ k[2] = "cancelled" /\ orders'[k[1]].status = k[2]
             \/ /\ orders[k[1]].status \in POLLABLE_STATUSES
                /\ k[2] # "cancelled" /\ orders'[k[1]].status = k[2]
                /\ Rung(k[2]) = Rung(orders[k[1]].status) + 1
      BY <1>2, <2>1, ReportMoves
    <2> HIDE DEF k
    <2>3. QED
      BY <2>2 DEF POLLABLE_STATUSES
  <1>3. QED
    BY <1>1, <1>2
    DEF Next, Work, Execute, Poll, DispatchStep, ProcessOrder, DeliveryUnread, PlaceNewer,
        CallAnswered, CallLost, Record, Crash, RetryDue, Reopen, Elapse, Progress, vars, At

LEMMA ReportedKept ==
  ASSUME FollowInv, [Next]_vars, NEW o \in Order, NEW s \in Step, Reported(o, s)
  PROVE  Reported(o, s)'
  <1>1. Rung(s) \in Nat /\ Rung(orders[o].status) \in Nat
    BY StepIs, Rungs DEF FollowInv, Followed, Reportable, POLLABLE_STATUSES
  <1>2. QED
    BY <1>1, CoreMovesOn DEF Reported

LEMMA AcceptedStep == ReportInv /\ [Next]_vars => AcceptedIsReported'
  <1> SUFFICES ASSUME ReportInv, [Next]_vars, NEW q \in Executor, task'[q].pc = "commit"
               PROVE  Reported(task[q].key[1], task[q].key[2])'
    BY DEF AcceptedIsReported, At
  <1> USE DEF ReportInv, FollowInv
  <1>1. CASE task'[q] = task[q]
    BY <1>1, BusyTask, ReportedKept DEF AcceptedIsReported, At, Reported
  <1>2. ASSUME NEW p \in Executor, CallAnswered(p) PROVE Reported(task[q].key[1], task[q].key[2])'
    <2> DEFINE k == task[p].key
    <2>1. ~At(p, "idle") /\ k \in Key /\ k[1] \in Order /\ k[2] \in Step
      BY <1>2, BusyTask DEF CallAnswered, At
    <2>2. CASE p # q
      BY <1>1, <1>2, <2>2 DEF CallAnswered, Goto, TypeOK
    <2>3. CASE p = q /\ ~CanTransition(orders[k[1]], k[2])
      BY <1>2, <2>1, <2>3, GotoType DEF CallAnswered, TypeOK
    <2>4. CASE p = q /\ CanTransition(orders[k[1]], k[2])
      <3>1. orders'[k[1]].status = k[2]
        BY <1>2, <2>1, <2>4, ReportMoves DEF CallAnswered
      <3>2. task'[q].key = k
        BY <1>2, <2>1, <2>4, GotoType DEF CallAnswered, TypeOK
      <3>3. Rung(k[2]) \in Nat
        BY <2>1, StepIs, Rungs
      <3> HIDE DEF k
      <3>4. QED
        BY <3>1, <3>2, <3>3 DEF Reported
    <2>5. QED
      BY <2>2, <2>3, <2>4
  <1>3. ASSUME NEW p \in Executor, CallLost(p) PROVE Reported(task[q].key[1], task[q].key[2])'
    <2>1. ~At(p, "idle")
      BY <1>3 DEF CallLost, At
    <2>2. task'[p].pc = "failed"
      BY <1>3, <2>1, GotoType DEF CallLost, TypeOK
    <2>3. QED
      BY <1>1, <1>3, <2>2 DEF CallLost, Goto, TypeOK
  <1>4. ASSUME NEW p \in Executor, NEW t, t.pc # "commit", task' = [task EXCEPT ![p] = t]
        PROVE  Reported(task[q].key[1], task[q].key[2])'
    BY <1>1, <1>4 DEF TypeOK
  <1>5. ASSUME NEW p \in Executor, Record(p) \/ Crash(p)
        PROVE  Reported(task[q].key[1], task[q].key[2])'
    BY <1>4, <1>5 DEF Record, Crash, Idle
  <1>6. CASE DispatchStep
    <2> DEFINE t == [pc |-> "call", key |-> <<path.order, Head(path.steps)>>]
    <2>1. t.pc # "commit" /\ "poller" \in Executor
      BY DEF Executor
    <2>2. UNCHANGED task \/ task' = [task EXCEPT !["poller"] = t]
      BY <1>6 DEF DispatchStep
    <2> HIDE DEF t
    <2>3. QED
      BY <1>1, <1>4, <2>1, <2>2
  <1>7. ASSUME NEW k \in Key, RetryDue(k) PROVE Reported(task[q].key[1], task[q].key[2])'
    <2> DEFINE t == [pc |-> "call", key |-> k]
    <2>1. t.pc # "commit" /\ "retrier" \in Executor
      BY DEF Executor
    <2>2. task' = [task EXCEPT !["retrier"] = t]
      BY <1>7 DEF RetryDue
    <2> HIDE DEF t
    <2>3. QED
      BY <1>4, <2>1, <2>2
  <1>8. CASE UNCHANGED task
    BY <1>1, <1>8
  <1>9. QED
    BY <1>2, <1>3, <1>5, <1>6, <1>7, <1>8
    DEF Next, Work, Execute, Poll, ProcessOrder, DeliveryUnread, PlaceNewer,
        Reopen, Elapse, Progress, vars

\* Only the recording of an accepted report completes a job.
LEMMA OnlyAcceptedCompletes ==
  ASSUME TypeOK, [Next]_vars, NEW k \in Key,
         jobs[k].status # "completed", jobs'[k].status = "completed"
  PROVE  \E p \in Executor : At(p, "commit") /\ k = task[p].key
  <1>1. ASSUME NEW q \in Key, NEW job, job.status # "completed", jobs' = [jobs EXCEPT ![q] = job]
        PROVE  FALSE
    BY <1>1 DEF TypeOK
  <1>2. ASSUME NEW q \in Key PROVE BegunJob(q).status # "completed"
    BY DEF BegunJob, NewJob, NoJob, TypeOK, Job
  <1>3. CASE DispatchStep
    <2> DEFINE q == <<path.order, Head(path.steps)>>
    <2>1. q \in Key
      BY <1>3, TakeStep DEF DispatchStep
    <2>2. UNCHANGED jobs \/ jobs' = [jobs EXCEPT ![q] = BegunJob(q)]
      BY <1>3 DEF DispatchStep
    <2> HIDE DEF q
    <2>3. QED
      BY <1>1, <1>2, <2>1, <2>2
  <1>4. ASSUME NEW q \in Key, RetryDue(q) PROVE FALSE
    BY <1>1, <1>2, <1>4 DEF RetryDue
  <1>5. ASSUME NEW q \in Key, Reopen(q) PROVE FALSE
    BY <1>1, <1>5, StoredStatus DEF Reopen, TypeOK
  <1>6. ASSUME NEW q \in Key, Elapse(q) PROVE FALSE
    BY <1>6 DEF Elapse, TypeOK, Job
  <1>7. ASSUME NEW p \in Executor, Record(p)
        PROVE  At(p, "commit") /\ k = task[p].key
    <2>1. task[p].key \in Key /\ jobs[task[p].key] \in Job
      BY <1>7, BusyTask DEF Record, At, TypeOK
    <2>2. At(p, "commit")
      <3> SUFFICES ASSUME ~At(p, "commit") PROVE FALSE
        OBVIOUS
      <3>1. jobs' = [jobs EXCEPT ![task[p].key] =
                       FailJob(jobs[task[p].key], At(p, "failed"))]
        BY <1>7 DEF Record
      <3>2. FailJob(jobs[task[p].key], At(p, "failed")).status # "completed"
        BY <2>1, StoredStatus
      <3>3. QED
        BY <1>1, <2>1, <3>1, <3>2
    <2>3. k = task[p].key
      BY <1>7, <2>1 DEF Record, TypeOK
    <2>4. QED
      BY <2>2, <2>3
  <1>8. QED
    BY <1>3, <1>4, <1>5, <1>6, <1>7
    DEF Next, Work, Execute, Poll, ProcessOrder, DeliveryUnread, PlaceNewer,
        CallAnswered, CallLost, Crash, Progress, vars

LEMMA CompletedStep == ReportInv /\ [Next]_vars => CompletedIsReported'
  <1> SUFFICES ASSUME ReportInv, [Next]_vars, NEW o \in Order, NEW s \in Step,
                      jobs'[<<o, s>>].status = "completed"
               PROVE  Reported(o, s)'
    BY DEF CompletedIsReported, Reported
  <1> USE DEF ReportInv, FollowInv
  <1>1. SUFFICES Reported(o, s)
    BY ReportedKept
  <1>2. CASE jobs[<<o, s>>].status = "completed"
    BY <1>2 DEF CompletedIsReported, Reported
  <1>3. CASE jobs[<<o, s>>].status # "completed"
    <2>1. PICK p \in Executor : At(p, "commit") /\ <<o, s>> = task[p].key
      BY <1>3, OnlyAcceptedCompletes DEF Key
    <2>2. task[p].key[1] = o /\ task[p].key[2] = s
      BY <2>1
    <2>3. QED
      BY <2>1, <2>2 DEF AcceptedIsReported
  <1>4. QED
    BY <1>2, <1>3

LEMMA ReportInvariance == Spec => []ReportInv
  <1>1. Init => ReportInv
    BY FollowInit
    DEF Init, ReportInv, AcceptedIsReported, CompletedIsReported, Idle, At, NoJob, Key
  <1>2. ReportInv /\ [Next]_vars => ReportInv'
    BY FollowStep, AcceptedStep, CompletedStep DEF ReportInv
  <1>3. QED
    BY <1>1, <1>2, PTL DEF Spec

\* Lost answers, deaths, two workers and operator retries never leave a report
\* marked completed that Core does not show.
THEOREM CompletedReportsMade == Spec => []CompletedIsReported
  BY ReportInvariance, PTL DEF ReportInv

-----------------------------------------------------------------------------
(* Without a fault Core accepts every report *)

LEMMA NextStepAccepted ==
  ASSUME NEW order, order.status \in POLLABLE_STATUSES,
         NEW s, s = "cancelled" \/ s = LADDER[Rung(order.status) + 1]
  PROVE  CanTransition(order, s)
  BY Rungs, LadderIs
  DEF POLLABLE_STATUSES, CanTransition, AllowedTransitions, ORDER_TRANSITIONS

\* A fault or a death once is one for ever.
LEMMA SmoothSoFar ==
  ASSUME TypeOK, [Next]_vars, faults' = 0, crashes' = 0
  PROVE  /\ faults = 0 /\ crashes = 0
         /\ \A p \in Executor : ~CallLost(p) /\ ~Crash(p)
         /\ \A b \in batch : ~DeliveryUnread(b)
  <1>1. faults \in Nat /\ crashes \in Nat
    BY DEF TypeOK
  <1>2. /\ faults' = faults \/ faults' = faults + 1
        /\ crashes' = crashes \/ crashes' = crashes + 1
    BY DEF Next, Work, Execute, Poll, DispatchStep, ProcessOrder, DeliveryUnread, PlaceNewer,
        CallAnswered, CallLost, Record, Crash, RetryDue, Reopen, Elapse, Progress, vars
  <1>3. QED
    BY <1>1, <1>2 DEF CallLost, Crash, DeliveryUnread

\* Nothing the smooth run relies on is changed.
LEMMA SmoothKept ==
  ASSUME Smooth, UNCHANGED <<orders, task, batch, path>>,
         \A k \in Key : jobs'[k].status = jobs[k].status
  PROVE  Smooth'
  BY DEF Smooth, BatchIsFresh, PathIsFresh, CallIsNext, OnlyPollerRuns, At, IsNextStep

LEMMA SmoothProcess ==
  ASSUME ReportInv, Smooth, NEW b \in batch, ProcessOrder(b)
  PROVE  Smooth'
  <1> USE DEF ReportInv, FollowInv
  <1> DEFINE steps == StatusPath(b.status, OrderStatusOf(delivery[b.order]))
  <1>1. b.order \in Order /\ b.status \in POLLABLE_STATUSES /\ delivery[b.order] \in PickingState
    BY DEF Polled, TypeOK
  <1>2. steps = <<"cancelled">> \/ Climbs(steps, Rung(b.status))
    BY <1>1, PathIs
  <1>3. /\ path' = [order |-> b.order, steps |-> steps] /\ batch' = batch \ {b}
        /\ UNCHANGED <<orders, jobs, task>> /\ At("poller", "idle")
    BY DEF ProcessOrder, Resting
  <1>4. b.status = orders[b.order].status
    BY DEF Smooth, BatchIsFresh
  <1> HIDE DEF steps
  <1>5. path'.order = b.order /\ path'.steps = steps
    BY <1>3
  <1>6. BatchIsFresh'
    BY <1>3, <1>5 DEF Smooth, BatchIsFresh, At
  <1>7. PathIsFresh'
    BY <1>1, <1>2, <1>3, <1>4, <1>5 DEF PathIsFresh, At
  <1>8. CallIsNext' /\ OnlyPollerRuns'
    BY <1>3 DEF Smooth, CallIsNext, OnlyPollerRuns, At
  <1>9. QED
    BY <1>6, <1>7, <1>8 DEF Smooth

LEMMA SmoothDispatch ==
  ASSUME ReportInv, Smooth, DispatchStep
  PROVE  Smooth'
  <1> USE DEF ReportInv, FollowInv
  <1> DEFINE o == path.order
             s == Head(path.steps)
             k == <<o, s>>
             rung == Rung(orders[o].status)
  <1>1. /\ At("poller", "idle") /\ path.steps # <<>>
        /\ o \in Order /\ s \in Step /\ k \in Key
    BY TakeStep DEF DispatchStep
  <1>2. orders[o].status \in POLLABLE_STATUSES /\ rung \in 0 .. 3
    BY <1>1, Rungs DEF Smooth, PathIsFresh, POLLABLE_STATUSES
  <1>3. \/ path.steps = <<"cancelled">> /\ s = "cancelled" /\ Tail(path.steps) = <<>>
        \/ /\ s = LADDER[rung + 1] /\ s # "cancelled" /\ Rung(s) = rung + 1
           /\ Climbs(Tail(path.steps), rung + 1)
    <2>1. CASE path.steps = <<"cancelled">>
      BY <2>1
    <2>2. CASE Climbs(path.steps, rung)
      <3>1. s = path.steps[1] /\ Len(path.steps) \in Nat \ {0}
        BY <1>1, TakeStep
      <3>2. s = LADDER[rung + 1]
        BY <2>2, <3>1 DEF Climbs
      <3>3. s # "cancelled" /\ Rung(s) = rung + 1
        BY <1>2, <3>2, LadderIs, Rungs
      <3>4. ASSUME NEW i \in 1 .. Len(Tail(path.steps))
            PROVE  rung + 1 + i <= 4 /\ Tail(path.steps)[i] = LADDER[rung + 1 + i]
        <4>1. Tail(path.steps)[i] = path.steps[i + 1] /\ i + 1 \in 1 .. Len(path.steps)
          BY <1>1, <3>4, TakeStep
        <4>2. rung + (i + 1) <= 4 /\ path.steps[i + 1] = LADDER[rung + (i + 1)]
          BY <2>2, <4>1 DEF Climbs
        <4>3. rung + (i + 1) = rung + 1 + i
          BY <1>2
        <4>4. QED
          BY <4>1, <4>2, <4>3
      <3>5. QED
        BY <3>2, <3>3, <3>4 DEF Climbs
    <2>3. QED
      BY <1>1, <2>1, <2>2 DEF Smooth, PathIsFresh
  \* The step has no job yet: Core would be at the step already.
  <1>4. jobs[k].status = "absent"
    <2>1. jobs[k].status # "running"
      BY <1>1 DEF Smooth, OnlyPollerRuns
    <2>2. ~Reported(o, s)
      BY <1>2, <1>3 DEF Reported, POLLABLE_STATUSES
    <2>3. jobs[k].status # "completed"
      BY <1>1, <2>2 DEF CompletedIsReported, Reported
    <2>4. QED
      BY <1>1, <2>1, <2>3 DEF Smooth, OnlyPollerRuns
  <1>5. /\ jobs' = [jobs EXCEPT ![k] = NewJob(ThePayload)]
        /\ task' = [task EXCEPT !["poller"] = [pc |-> "call", key |-> k]]
        /\ path' = [path EXCEPT !.steps = Tail(path.steps)]
        /\ UNCHANGED <<orders, batch>>
    BY <1>4 DEF DispatchStep, Begun, BeginReply, BegunJob
  <1>6. k[1] = o /\ k[2] = s
    OBVIOUS
  <1> HIDE DEF k, s, o, rung
  <1>7. /\ task'["poller"] = [pc |-> "call", key |-> k]
        /\ task'["retrier"] = task["retrier"]
    BY <1>5 DEF TypeOK, Executor
  <1>8. path'.order = o /\ path'.steps = Tail(path.steps)
    BY <1>5 DEF TypeOK, o
  <1>9. BatchIsFresh'
    BY <1>1, <1>5, <1>6, <1>7, <1>8 DEF Smooth, BatchIsFresh, At, o
  <1>10. PathIsFresh'
    BY <1>3, <1>6, <1>7, <1>8 DEF PathIsFresh, At
  <1>11. CallIsNext'
    BY <1>2, <1>3, <1>5, <1>6, <1>7 DEF CallIsNext, At, IsNextStep, rung
  <1>12. OnlyPollerRuns'
    <2>1. NewJob(ThePayload).status = "running"
      BY DEF NewJob, NoJob
    <2>2. \A q \in Key : jobs'[q] = IF q = k THEN NewJob(ThePayload) ELSE jobs[q]
      BY <1>1, <1>5 DEF TypeOK
    <2>3. QED
      BY <1>1, <1>7, <2>1, <2>2 DEF Smooth, OnlyPollerRuns, At
  <1>13. QED
    BY <1>9, <1>10, <1>11, <1>12 DEF Smooth

LEMMA SmoothCall ==
  ASSUME ReportInv, Smooth, CallAnswered("poller")
  PROVE  Smooth'
  <1> USE DEF ReportInv, FollowInv
  <1> DEFINE k == task["poller"].key
  <1>1. "poller" \in Executor /\ ~At("poller", "idle") /\ At("poller", "call")
    BY DEF Executor, CallAnswered, At
  <1>2. k \in Key /\ k[1] \in Order /\ k[2] \in Step
    BY <1>1, BusyTask
  <1>3. CanTransition(orders[k[1]], k[2])
    BY <1>1, NextStepAccepted DEF Smooth, CallIsNext, IsNextStep
  <1>4. /\ \A q \in Order : q # k[1] => orders'[q] = orders[q]
        /\ orders'[k[1]].status = k[2]
    BY <1>2, <1>3, ReportMoves DEF CallAnswered
  <1>5. task' = [task EXCEPT !["poller"] = [pc |-> "commit", key |-> k]]
    BY <1>1, <1>3, GotoType DEF CallAnswered
  <1> HIDE DEF k
  <1>6. /\ task'["poller"].pc = "commit" /\ task'["poller"].key = k
        /\ task'["retrier"] = task["retrier"]
    BY <1>5 DEF TypeOK, Executor
  <1>7. UNCHANGED <<jobs, batch, path>>
    BY DEF CallAnswered
  <1>8. BatchIsFresh'
    <2>1. \A b \in batch : b.order \in Order /\ b.order # k[1]
      BY <1>1 DEF Smooth, BatchIsFresh, TypeOK, Polled, k
    <2>2. QED
      BY <1>4, <1>6, <1>7, <2>1 DEF Smooth, BatchIsFresh, At
  <1>9. PathIsFresh'
    BY <1>1, <1>6, <1>7 DEF Smooth, PathIsFresh, At, k
  <1>10. CallIsNext'
    BY <1>4, <1>6 DEF CallIsNext, At
  <1>11. OnlyPollerRuns'
    BY <1>1, <1>6, <1>7 DEF Smooth, OnlyPollerRuns, At, k
  <1>12. QED
    BY <1>8, <1>9, <1>10, <1>11 DEF Smooth

LEMMA SmoothRecord ==
  ASSUME ReportInv, Smooth, Record("poller")
  PROVE  Smooth'
  <1> USE DEF ReportInv, FollowInv
  <1> DEFINE k == task["poller"].key
  <1>1. "poller" \in Executor /\ ~At("poller", "idle") /\ At("poller", "commit")
    BY DEF Executor, Record, At, Smooth, CallIsNext
  <1>2. k \in Key /\ k[1] \in Order /\ k[2] \in Step /\ jobs[k] \in Job
    BY <1>1, BusyTask DEF TypeOK
  <1>3. /\ jobs' = [jobs EXCEPT ![k] = CommitJob(jobs[k], TheResult)]
        /\ task' = [task EXCEPT !["poller"] = Idle]
        /\ UNCHANGED <<orders, batch, path>>
    BY <1>1 DEF Record
  <1>4. task'["poller"].pc = "idle" /\ task'["retrier"] = task["retrier"]
    BY <1>3 DEF TypeOK, Executor, Idle
  <1>5. BatchIsFresh'
    BY <1>3, <1>4 DEF Smooth, BatchIsFresh, At
  <1>6. PathIsFresh'
    <2>1. SUFFICES ASSUME path.steps # <<>>
                   PROVE  /\ orders[path.order].status \in POLLABLE_STATUSES
                          /\ Climbs(path.steps, Rung(orders[path.order].status))
      BY <1>3, <1>4 DEF PathIsFresh, At
    <2>2. /\ path.order = k[1] /\ k[2] # "cancelled" /\ orders[k[1]].status = k[2]
          /\ Climbs(path.steps, Rung(k[2]))
      BY <1>1, <2>1 DEF Smooth, PathIsFresh, CallIsNext, At
    <2>3. Rung(k[2]) \in Nat /\ Rung(k[2]) + 1 <= 4
      BY <1>2, <2>1, <2>2, TakeStep, StepIs, Rungs DEF Climbs
    <2>4. k[2] \in POLLABLE_STATUSES
      BY <1>2, <2>2, <2>3, StepIs, Rungs DEF POLLABLE_STATUSES
    <2>5. QED
      BY <2>2, <2>4
  <1>7. CallIsNext'
    BY <1>4 DEF CallIsNext, At
  <1>8. OnlyPollerRuns'
    <2>1. CommitJob(jobs[k], TheResult).status = "completed"
      BY <1>2, StoredStatus
    <2>2. \A q \in Key : q # k => jobs'[q] = jobs[q] /\ jobs[q].status # "running"
      BY <1>2, <1>3 DEF Smooth, OnlyPollerRuns, TypeOK
    <2>3. jobs'[k].status = "completed"
      BY <1>2, <1>3, <2>1 DEF TypeOK
    <2> HIDE DEF k
    <2>4. QED
      BY <1>4, <2>2, <2>3 DEF Smooth, OnlyPollerRuns, At
  <1>9. QED
    BY <1>5, <1>6, <1>7, <1>8 DEF Smooth

LEMMA SmoothStep == ReportInv /\ SmoothInv /\ [Next]_vars => SmoothInv'
  <1> SUFFICES ASSUME ReportInv, SmoothInv, [Next]_vars, faults' = 0, crashes' = 0
               PROVE  Smooth'
    BY DEF SmoothInv
  <1> USE DEF ReportInv, FollowInv
  <1>1. /\ Smooth
        /\ \A p \in Executor : ~CallLost(p) /\ ~Crash(p)
        /\ \A b \in batch : ~DeliveryUnread(b)
    BY SmoothSoFar DEF SmoothInv
  <1>2. /\ \A k \in Key : ~RetryDue(k) /\ ~Reopen(k)
        /\ ~CallAnswered("retrier") /\ ~Record("retrier")
    BY <1>1
    DEF Smooth, OnlyPollerRuns, RetryDue, IsListed, Reopen, CanRetry, CallAnswered, Record, At
  <1>3. CASE Poll
    <2>1. /\ path.steps = <<>> /\ At("poller", "idle") /\ UNCHANGED <<orders, jobs, task, path>>
      BY <1>3 DEF Poll, Resting
    <2>2. \A b \in batch' : b.status = orders[b.order].status
      BY <1>3 DEF Poll
    <2>3. \A b, c \in batch' : b.order = c.order => b = c
      BY <1>3 DEF Poll
    <2>4. BatchIsFresh'
      BY <2>1, <2>2, <2>3 DEF BatchIsFresh, At
    <2>5. QED
      BY <1>1, <2>1, <2>4 DEF Smooth, PathIsFresh, CallIsNext, OnlyPollerRuns, At, IsNextStep
  <1>4. ASSUME NEW b \in batch, ProcessOrder(b) PROVE Smooth'
    BY <1>1, <1>4, SmoothProcess
  <1>5. CASE DispatchStep
    BY <1>1, <1>5, SmoothDispatch
  <1>6. CASE CallAnswered("poller")
    BY <1>1, <1>6, SmoothCall
  <1>7. CASE Record("poller")
    BY <1>1, <1>7, SmoothRecord
  <1>8. ASSUME NEW k \in Key, Elapse(k) PROVE Smooth'
    <2>1. \A q \in Key : jobs'[q].status = jobs[q].status
      BY <1>8 DEF Elapse, TypeOK, Job
    <2>2. QED
      BY <1>1, <1>8, <2>1, SmoothKept DEF Elapse
  <1>9. CASE UNCHANGED <<orders, jobs, task, batch, path>>
    BY <1>1, <1>9, SmoothKept
  <1>10. QED
    BY <1>1, <1>2, <1>3, <1>4, <1>5, <1>6, <1>7, <1>8, <1>9
    DEF Next, Work, Execute, Executor, PlaceNewer, Progress, vars

\* As long as no call is lost and no process dies, Core answers 409 to no report
\* of the poller, and no job of one fails.
THEOREM SmoothAccepted == Spec => []SmoothReportsAccepted
  <1>1. Init => SmoothInv
    BY DEF Init, SmoothInv, Smooth, BatchIsFresh, PathIsFresh, CallIsNext, OnlyPollerRuns,
           NoPath, Idle, NoJob, At, Executor
  <1>2. SmoothInv => SmoothReportsAccepted
    BY DEF SmoothInv, Smooth, OnlyPollerRuns, SmoothReportsAccepted
  <1>3. QED
    BY <1>1, <1>2, SmoothStep, ReportInvariance, PTL DEF Spec
=============================================================================
