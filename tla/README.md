# ShopStore: a TLA+ model of the marketplace

ShopStore is a wholesale marketplace of three systems. *Core* (FastAPI and SQLAlchemy) owns
retailers, catalogue and orders; *WooCommerce* is the shop, with a bridge plugin that asks Core;
*Odoo* is the warehouse. A Python *integration layer* sits between Core and Odoo: workers that poll
Core and Odoo, tasks that call them, and a table of jobs, `sync_jobs`, that makes the tasks
idempotent and retryable.

None of the parts shares a transaction with another, and none locks a row it has read. What is hard
in this code is what happens between two steps: a read and the COMMIT that follows from it, a call
and its lost answer, an export and the acknowledgement of its event, the death of a worker in
between. The modules here model those steps as steps, TLC explores their interleavings on small
instances, and TLAPS proves every safety property that those runs find to hold, for instances of any
size.

Paths below are relative to the repository; `integration/`, `core/` and `bridge/` abbreviate
`src/apps/integration/app/shopstore_integration/`, `src/apps/core/app/` and
`src/apps/woo/plugins/marketplace-bridge/src/`.

## 1. Inventory

| Component | State | Operations | Interacts with |
|---|---|---|---|
| Job store (`integration/sync_jobs.py`) | the table `sync_jobs`: status, payload hash, attempts, next_retry_at, result of each key | `begin`, `commit`, `mark_failed`, `retry`; each a SELECT, then an UPDATE or INSERT, without a lock | every task |
| Task execution (`integration/tasks/`, `commands.py`) | the frame of `execute` | begin, handler, commit or mark_failed | job store, adapters |
| Retry worker, command line (`integration/retry.py`, `cli.py`) | none | `run_retries` rebuilds commands from due rows; `retry`, `retry-dead` by an operator | job store, tasks |
| Fulfillment worker (`integration/fulfillment_worker.py`) | the batch and the status path of the round | poll Core, read the delivery in Odoo, report the path to Core one status at a time | Core, Odoo, job store |
| Order export worker (`integration/worker.py`) | the batch of events | poll the outbox, export to Odoo, write partner and sale order back, acknowledge | Core, Odoo, job store |
| In-memory store and keys (`integration/idempotency.py`) | entries of a process | `begin`, `commit`, `abort`; `IdempotencyKey.parse` rebuilds a key from its text | tasks in tests; the keys: everywhere |
| Odoo adapter (`integration/adapters/odoo_http.py`) | the uid of its session (Odoo: sale orders, pickings, partners, products) | search and create a sale order, its partner, a product; read a delivery | Odoo |
| HTTP client (`integration/http_client.py`, `errors.py`) | none | one call; classifies the failure as retryable or final | all calls of the integration layer |
| Provisioning (`src/apps/odoo/config/provision/`) | one transaction of Odoo's database | set the database up, check it with a demo order, ship a demo order | Odoo, in the records the adapter writes too |
| Core orders (`core/services/orders.py`, `core/models/order.py`, `state_machine.py`) | the order row with status, restore point and mappings; its audit trail; the outbox | `place_order`, `report_fulfillment`, `record_odoo_sale_order`, `record_woo_order` | export worker, fulfillment worker, bridge plugin |
| Outbox (`core/domain/events.py`, `core/services/events.py`) | unacknowledged events | publish in the transaction of the change; list the oldest; acknowledge | export worker |
| Catalogue (`core/services/products.py`, `brands.py`) | brands, products with status, price and MOQ | create, update, publish, archive; create, delete a brand | orders, bridge plugin |
| Retailers (`core/services/retailers.py`) | status of each retailer, mapping to an Odoo partner | register, approve, reject; map the partner | orders, bridge plugin, export worker |
| Bridge plugin (`bridge/class-ss-bridge-*.php`) | user meta `retailer_id`, order meta `marketplace_order_id` | register, validate a checkout, place the order in Core, fail the Woo order | Core, WooCommerce |

What makes each correct:

- **Job store**: one payload per key; completed only after the effect; bounded attempts; no job
  that nobody can see or pick up again; one executor per key.
- **Core orders**: only transitions of the state machine; an order resumed from `sync_failed`
  returns to where it was; the audit trail tells the truth; mappings are not overwritten; shipped
  is final.
- **Fulfillment**: Core follows the warehouse rung by rung and never runs ahead; a shipment or a
  cancellation is never lost without a trace.
- **Export**: one sale order per order; an event is consumed only after Core knows the sale order;
  one bad event does not stop the others.
- **Odoo's database**: one partner per retailer and one product per SKU, although Odoo keeps neither
  unique; a sale order names a partner that exists; a script that is run again changes nothing.
- **Checkout**: sold at terms that were offered and at no less than the MOQ; what the shop shows as
  in process exists in Core; an order of Core is shown by the shop.

The hard behaviours, each at its line, are the `hazards` of `PROJECT.json`, with the properties that
cover them.

Not modelled, with the reason: the theme, the price display and the order list of the shop (read
only; its registration form calls the plugin's `register()`, which is modelled); Core's schemas,
views, middleware and configuration (stateless); the mock adapters (test doubles); migrations,
contracts, infrastructure, test data and the set-up scripts of Woo (no behaviour of their own at run
time). Inside the modelled components: prices of lines and totals, currencies, `confirm_sale_order`
and `get_delivery_status` (no caller), `SyncJobsStore.abort` (no caller), `update_brand` (nothing
reads what it changes), `reset` of the in-memory store, the checks that the verification scripts
print and what they read for them, and an answer of status 2xx without a JSON body, which the HTTP
client turns into `None` and the adapter would take for an empty search.

## 2. Modules

```
OrderStateMachine ------+----------------+
  (transitions)         |                |
SyncJobTable --+        |                |
  (one row)    |        |                |
               |    CoreOrders ----> OrderLifecycle     (abstract)
               |
               +--> SyncJobs ------> JobLifecycle, MemoryStore   (abstract)
               |        |
               |        +--> RetryWorker
               +--> Fulfillment ---> DeliveryMirror     (abstract; extends OrderStateMachine too)
               +--> OrderExport

HttpClient --> OdooAdapter --+
  (outcomes)    (calls)      +--> OdooSite --> SaleOrderCalls    (abstract)
Provisioning ----------------+
  (scripts)

Catalogue, Retailers ----> Checkout                     (instances, operator by operator)
SyncJobTableProofs --> SyncJobsProofs --> SyncJobsSoloProofs     (theorems; the first has lemmas
CoreOrdersProofs, FulfillmentProofs, OrderExportProofs,          on one row, which the proofs of
CheckoutProofs, OdooSiteProofs                                   the workers use too)
MCSyncJobs, MCRetryWorker, MCCoreOrders, MCFulfillment, MCOrderExport, MCCheckout, MCOdooSite
                                                        (constants for TLC)
```

Operators named `M_...` are faulty variants of the definition they precede, written the way a slip
of the code would have it. No specification uses them: they serve to show that the properties do
notice such a slip when the variant takes the definition's place.

### SyncJobTable and SyncJobs

`SyncJobTable` is one row and what each method of `SyncJobsStore` makes of a row it has read, as
functions on records: `BeginReply`, `NewJob`, `CommitJob`, `FailJob`, `RetryJob`. Time is relative:
`next_retry_at` is `none`, `waiting` or `due`, and `Elapse` turns `waiting` into `due`; backoff
delays matter only in that they end. `IsDue` (of `begin`) and `IsListed` (of `list_jobs`) differ as
they do in the code: a failed row without a time can be resumed, but is never listed.

`SyncJobs` is `SyncTask.execute` run by any number of processes on that table, each step of a
process being one transaction: `Begin` reads and decides, `Insert` or `Resume` writes; the handler
returns, raises a final error, or raises a retryable one after or before its effect; `CommitLoad`
and `CommitStore`, `FailLoad` and `FailStore`, `RetryLoad` and `RetryStore` are the two halves of the
methods. SQLAlchemy writes only the attributes that changed since they were loaded, which `Flush`
does; this decides which stale writes do harm. `Crash` may strike anywhere. `applied` and `calls`
are history variables: whether the effect of a key happened, and how often its handler was called.
`contended` collects the keys that two tasks have had at once, from the SELECT of `begin()` or
`retry()` on, which nothing excludes: such tasks overwrite each other's attempts, status and time, and
the budget and the two promises below are about the other keys.

`JobLifecycle` is the promise: a key goes from new through running and backoff to done or dead, with
at most `MaxAttempts` claims of a budget. `MemoryStore` is the other promise: `sync_jobs.py` says
that it has the semantics of `InMemoryIdempotencyStore`, extended by failures. `EntryOf` maps a row
to an entry of that store: a failed or dead row is a key that has been forgotten (`abort`) and may
be begun again.

### RetryWorker

`RetryWorker` adds to `SyncJobs` one process, `Retrier`, that runs `run_retries`: `List` takes the due
rows of the table into a round, and the rows are dispatched one after the other, in any order, while
other processes go on. The worker rebuilds a command from the text of its key, which
`IdempotencyKey.parse` splits at the dots: a key with a dot in its id raises a `ValueError`, which the
round survives (`Skip`). A command type without a task raises an `IntegrationError`, which it does not
(`Unknown`): the rest of the round is lost. An exception of the store ends the round too, or does not
if it is a `ValueError` (`Die`). `Setups` are the tables to explore: how many segments each key has,
and which keys have a task. That matters because the shipped `build_runtime` registers a task for
reports only, while the table also holds the jobs of the export.

No command of the repository starts a `RetryWorker`. `Swept`, that somebody calls `run_retries` again
and again, is therefore no fairness of the specification but a hypothesis of the properties.

### OrderStateMachine, CoreOrders, OrderLifecycle

`OrderStateMachine` holds the tables of `state_machine.py` and `Order.transition_to` with the restore
point of `sync_failed`. `CoreOrders` is the row, its audit trail, its outbox and the open requests
of `services/orders.py`: each request loads the row and prepares its change (with every early
return and conflict of the function), and commits later: the changed attributes, the audit event and
the domain event in one transaction. Requests may be rolled back at any moment. `stale` collects the
orders on which a request has committed having loaded another row than it finds: rows carry no
version, so that it overwrites what others have decided. The first order,
`PlaceOrder`, touches a row nobody else can know and is one step.

`OrderLifecycle` is the promise: an order moves forward stage by stage, may be suspended and resumes
at the stage it was suspended at, and cancellation and completion are final.

### Fulfillment, DeliveryMirror

The poller (`FulfillmentSyncWorker`) and a retry worker over one job table, Core's state machine and
Odoo's deliveries. A poll copies the statuses (`Poll`), so that the path computed later
(`ProcessOrder`, `StatusPath`) may rest on a status that is gone; each report is one key of the
table, named by order and status; `DispatchStep` goes on whatever the previous dispatch returned, as
the loop in the code does. A call may be lost before or after Core has applied it, Core may refuse
it for good (409), either process may die, and an operator may requeue a dead job. The transaction
halves of `SyncJobs` are one step here: what overlapping transactions do to a row is the question
of `SyncJobs`, and this module asks what the workers do with the answers. A poll asks for one page
of `list_orders`, the newest first: `newer` counts the orders created since, and an order with
`Limit` newer ones is not `Listed` any more.

`DeliveryMirror` is the promise: what Core shows climbs one rung at a time, and is called off only
after Odoo has called the delivery off.

### OrderExport

The export worker and a retry worker over the outbox, the job table, Odoo's sale orders and the two
mappings in Core (order to sale order, retailer to partner). The event loop is in the order of the
code: read the order (only acknowledge if it is mapped), read the retailer for the partner ref,
dispatch, write the partner back, write the sale order back, acknowledge. The job's payload depends
on the partner ref: `own` is the ref made from the retailer's own id, `canonical` the one an
administrator maps. `Find` and `Create` are the search by `client_order_ref` and the creation.

Two reads are apart from the COMMIT that follows from them, since other steps of this module come in
between. `Dispatch` and `RetryDue` are the SELECT of `begin()`, `Insert` and `Resume` the write: both
processes may resume one due row, and then both search before either creates. `rivalled` collects the
orders for which that has happened (`Exports`: between search and creation). `WritePartner` and
`MapPartner` are the read of `record_odoo_partner`, `CommitPartner` and `CommitRecord` its COMMIT:
the later of two COMMITs replaces the ref of the earlier one, and `replaced` collects the retailers
to which that has happened; `recording` holds requests that Core serves for nobody who waits. The
remaining methods of the job store and of Core are one step each here. `CallDelayed` and `ServeLate`
are a call that Odoo serves after its caller has given up. The search and creation of the partner
inside `create_sale_order` are one step here; `OdooAdapter` takes them apart. A poll takes the oldest
`limit` events that nobody has acknowledged, so that the events of dead jobs may fill the page.

### HttpClient, OdooAdapter, Provisioning, OdooSite, SaleOrderCalls

`HttpClient` is the table of what the transport reports, the error it becomes and whether
`SyncTask` retries it. `OdooAdapter` is `create_sale_order` and `upsert_product` with one step per
call to Odoo: log in (once per process), search the sale order, search or create the partner, search
the product, create the sale order. Each of these calls may fail with any outcome of the table; one
that is ambiguous (a time-out, a broken connection, a 5xx) has reached Odoo, has not, or is on its
way and served when nobody waits for it (`late`). A caller may die at any point.

`Provisioning` is the three scripts that an operator feeds to `odoo shell`: each is one transaction,
which works on the snapshot of its first query (`script.seen`) and commits at its end or not at
all. Two of them make a demo order each. PostgreSQL refuses a commit that updates a stock quantity
changed since the snapshot (`StockUntouched`); nothing refuses one that creates a partner whose ref
exists by now.

`OdooSite` puts the adapters of any number of processes and the scripts on one database.
`Creators(key)` is everybody who has found no record of a key and is about to create one, and
`raced` collects the keys that had two of them at once. `KeepsUp` is the part of `configured` that a
creation by the adapter may undo (an e-mail address, whether a product is storable).
`SaleOrderCalls` is the promise of `create_sale_order` alone: a call finds the sale order of its
order or creates one for the partner it names; a call that is retried has perhaps created one, a
call that is refused for good has not.

### Catalogue, Retailers, Checkout

`Catalogue` and `Retailers` are the operator's sides of Core: each request reads in one step and
commits in another under the constraints of the tables (unique SKU, foreign key of the brand).
`announced` and `welcomed` record what the outbox has published, `offered` the terms under which a
product was ever published.

`Checkout` instantiates both (`Shop`, `Registry`), adds the plugin and WooCommerce, and interleaves
their actions. A `Try` is a PHP request that checks out a Woo order (`php`): the customer's approval,
the MOQ as Core shows it, Woo's order, the placement in Core, its answer, and the end of the checkout.
A placement in Core is three steps (retailer, product, COMMIT), which go on when the caller has given
up. A Woo order
may be checked out again after a failure, and also while another request is doing so, for neither the
plugin nor Core keeps it from that (`overlapped` collects the orders to which it has happened); up to
`MaxTries` requests. Core makes an order of every placement: it does not read the Idempotency-Key the
plugin sends. Requests that overlap save their ids over meta data that each has loaded for itself, so
that `Answer` leaves open which of the other ids stay. `lost` collects the tries whose own answer
never reached the customer. The classic and the block checkout differ after a
failure: an exception ends the block checkout, while the classic one goes on to `processing`.

## 3. Runs

`tlc -config <cfg> <module>`; the sizes are those of a complete search.

| Run | Instance | What it shows |
|---|---|---|
| `jobs` | 1 key, 3 processes, 2 payloads, 2 attempts, 2 operator retries, 1 death, symmetric (2 800 000 states) | What the table keeps although processes overlap and die: payloads never mix (`PayloadBinding`), completed means applied and carries a result (`CompletedIsApplied`), and the first call of a key has no rival (`FirstCallAlone`). And what it keeps of keys that no two tasks have had at once: the budget (`RetryBudget`), `JobLifecycle` (`ImplementsLifecycle`) and the in-memory store (`ImplementsMemory`). |
| `retry_sweep` | 2 keys, one unregistered or with a dot in its id; the retry worker and 1 other process, 2 attempts, 1 operator retry or death (330 000 states) | If rounds go on (`Swept`), every started job that they can dispatch settles, unless its executor died, its time was lost, or rows of unknown types keep ending the rounds (`SettledIfSwept`). |
| `core_orders` | 1 order, 2 overlapping requests, 2 sale ids, 2 Woo ids, 7 audit events, symmetric (2 100 000 states) | The trail ends at the status (`TrailEndsAtStatus`) and holds only transitions of the state machine (`LegalEvents`), whoever commits last. And, as long as each request commits on the row it has loaded: the trail is a path (`TrailIsPath`), mappings are kept (`MappingsKept`), and the rows implement `OrderLifecycle` (`ImplementsLifecycle`). |
| `core_shipped` (violated) | as `core_orders`, no Woo ids | `ShippedIsFinal`: a cancellation decided before the shipment commits after it. |
| `fulfillment` | 1 order, 5 keys, 1 newer order, pages of 1, 2 attempts, 2 lost calls, 1 death, 1 operator retry (400 000 states) | A completed report was made (`CompletedIsReported`); without faults Core accepts every report (`SmoothReportsAccepted`); Core implements `DeliveryMirror`; the end of a delivery is shown, some job is flagged, or the order is not listed any more (`OutcomeReportedOrFlagged`). |
| `fulfillment_jitter` (violated) | 1 lost call | `ShipmentReported`: one lost call loses the shipment for good. |
| `order_export` | 2 orders of one buyer, 3 sale orders; pages of 1 with any 2 of a lost call, a late call, a death and an operator retry, pages of 2 with any 1 of them (705 000 states) | Acknowledged means exported (`AckedIsExported`); one sale order per order unless a call is served late or two processes were exporting it at once (`AtMostOneSaleOrder`); sale order and mapping name the same partner unless the buyer's ref was replaced (`SamePartner`). If `run_once` is called for ever (`Polled`), every order is exported, flagged, behind a page of flagged ones, or some buyer was mapped under an export (`ExportedUnlessBlocked`). |
| `order_export_poison` (violated) | 2 orders of 2 buyers, no fault | `OthersExported`: one event in conflict with its own job holds up the others. |
| `order_export_rivals` (violated) | 1 order, 1 lost call, no late one | `NeverTwoSaleOrders`: worker and retry worker resume one due row, and both create. |
| `checkout` | 1 product, 1 brand, 1 customer, 2 operator sessions, 1 reviewer, 2 requests on 1 Woo order, 1 fault (682 000 states) | A brand that is deleted while a product of it is created leaves no product behind (`ProductsHaveBrand`); orders are at offered terms and reach the MOQ (`OrdersOnOfferedTerms`), the outbox announces before it sells (`SoldAfterAnnounced`), processing means placed (`ProcessingIsPlaced`); without overlap, two orders of Core take a lost answer each but the last (`OrdersPerCheckout`), and a placed order is shown unless its own answer was lost (`PlacedIsShown`). |
| `checkout_twice` (violated) | as `checkout`, no fault | `OneOrderPerCheckout`: a Woo order that is submitted twice at once becomes two orders of Core. |
| `odoo_site` | 2 callers, 2 orders of 1 buyer, 2 calls, 1 fault, 3 runs of scripts, 2 units of stock (709 000 states) | Records are well formed and name partners that exist (`TypeOK`); one record per key unless two creations overlap (`OneRecordPerKey`); a script that finds its work done changes nothing (`RerunChangesNothing`); the adapter implements `SaleOrderCalls` (`ImplementsSaleCalls`). |

### Bounds, and why they are enough

- *Processes*: three in `jobs`. Two are a reader and a writer, but a third adds more than repetitions:
  it takes two executors and an operator who retries twice for a row to end up failed and without a
  time, which the run reaches. In `order_export` the two processes are the two that the code has. The
  safety properties are proved for any number where the module leaves the number open.
- *Keys*: one in `jobs`, since no method of the store looks at more than one row; `retry_sweep`, whose
  rounds do, has two.
- *Sessions*: two in `core_orders` and in the catalogue of `checkout`, one that reads and one that
  commits in between.
- *Attempts*: two (the code's default is three): the smallest number with a retry and a last
  attempt, so that backoff and dead letter both occur.
- *Faults, deaths, operator retries*: one or two each; a bound on what the environment does, in the
  guards of the actions that do it. `retry_sweep` has one operator retry or one death in a behaviour
  (`MaxUpsets`); with one of each, 1.2 million states, the property holds too. `order_export` has up
  to two of all these together, or one where a poll takes both events.
- *MaxEvents*: seven audit events are the whole main line, from submitted to completed, or a
  suspension, its resumption and most of that line.
- *Limits* one and two, in `order_export`: with two, a page holds every order, so that a batch has a
  second event to lose when the first raises; with one, a dead-lettered order fills the page. In
  `fulfillment` a page of one and one newer order are enough for the order to leave the page at any
  moment.
- *MaxRuns* three: a script that completes, one that repeats it, and one in between.
- *MaxCalls* two: the second call is the retry of the first, or its rival.
- *InitialQty* two: one unit can be shipped and leave one, the state in which a second provisioning
  must not fill up.
- *Sale orders*: one more than the orders, so that a duplicate is representable.
- *Moq* `{1, 2}` with a quantity of 1: a reprice can put the cart below the MOQ.
- *MaxTries* two: a second placement of one Woo order is where duplicates come from. *MaxFaults* one
  in `checkout`: one of the two tries loses its answer or dies, and the other must make up for it.
- *EditsApart*, a constraint of `checkout`: the requests of the operators overlap freely until the
  first checkout begins, and come one after the other from then on, since a checkout sees of them no
  more than what they have committed.

### Fairness, and why the code justifies it

- A process that has begun a task ends it (`WF(Proceed(p))`, `WF(Execute(p))`): every call of the
  integration layer has a timeout (`http_client.py`), and nothing waits for another process. A
  process that dies is no longer under way, so that the assumption says nothing about it.
- Time passes (`WF(Elapse)`), and a round or a batch that has begun goes through its rows (`for`
  loops).
- In `Fulfillment`, the poller is run for ever (`WF(Work)`): `poll-fulfillment` is an endless loop.
  Nothing is assumed of a retry worker.
- In `RetryWorker` and `OrderExport` nothing shipped starts the worker: `cli.py` has only
  `poll-fulfillment`, and `build_runtime` makes only that worker. That somebody calls `run_retries` or
  `run_once` again and again is an assumption about a deployment, not about the code. It is not in
  their specifications but a hypothesis of the properties (`Swept => ...`, `Polled => ...`), where a
  reader sees it. `SettledIfSwept` has a second one, `RoundsEnd`: rows of unknown command types do not
  keep ending the rounds for ever. The first alone is not enough: one such row that is due stays due
  and ends every round.
- `OdooSite` states safety only and assumes no fairness.
- In `Checkout`, PHP and Core go on with a request they have begun (`WF(Handle)`,
  `WF(ServePlacement)`). Nothing is assumed of customers and operators.

`CHECK_DEADLOCK FALSE` is set in every configuration: the systems really stop, when all jobs are
settled, all orders final, or a bound is used up.

## 4. Proofs

`tlapm <module>` for `SyncJobTableProofs`, `SyncJobsProofs`, `SyncJobsSoloProofs`,
`CoreOrdersProofs`, `FulfillmentProofs`, `OrderExportProofs`, `CheckoutProofs` and `OdooSiteProofs`.
The theorems hold for every value of the constants that satisfies the named assumptions of the
modules: any sets of keys, processes, payloads, results, orders, sessions, ids, products, retailers,
callers and partners, any limits and any bounds on what the environment does. The assumptions say
that `Null` is none of the values it stands for the lack of, that the bounds are numbers, and, for
the workers, that there is a payload and a result at all. Each theorem has the same shape: a lemma for
the initial state, a lemma for each action (or for the group of actions that treats a part of the
state alike), a lemma that joins them for `Next`, and the temporal step.

**SyncJobs** (`Spec`, hence without fairness, any number of processes):

- `TypeCorrect`: `[]TypeOK`. Strengthened by `OutcomeOK`, which says what kind of value a task holds
  at the points where it writes it to the row.
- `PayloadBound`: `[]PayloadBinding`. Inductive relative to the types. The case that matters is
  `Flush`: no write after the insertion changes the hash (`FlushKeepsPayload`), and `begin` hands
  out a task only for an equal hash (`BeginChecksPayload`).
- `CompletionIsReal`: `[]CompletedIsApplied`. `CompletedIsApplied` alone is not inductive: a process
  about to store a commit must be known to have had the effect, and one that writes a failure or
  resumes a row must be known to write neither `completed` nor a result. `EffectInv` says this of
  every point of `execute`; `RealInv` is the conjunction, preserved step by step.

- `FirstCallIsAlone`: `[]FirstCallAlone`. Two processes in the handler say nothing of how they got
  there, so `UntriedInv` follows a key from the start: while no call of it is over and no operator
  has retried anything, its row is absent or running, nobody has a task of it beyond the handler,
  and nobody is in the handler while the row is absent. The unique index does the rest
  (`FirstInsert`): the INSERT that succeeds finds no rival in the handler.

**SyncJobs, keys that are not contended** (any number of processes, deaths included): one invariant,
`SoloInv == TypeInv /\ RowsSound /\ TasksSound /\ TasksApart`. `TasksApart` says that a key that is not
contended is in the hands of one task at most. `RowOK` relates the row of such a key to its calls: a
running row has an attempt to spare for the call under way, a row without success has no result.
`TaskOK` says that what a task has decided on or loaded is still so, for nobody else writes. From it,
`SoloNext` shows that a step changes one row at most, and if its key is not contended in one of five
ways (`Moved`: it rests, is claimed, completed, failed or reopened), and the rest is about these five:

- `BudgetKept`: `[]RetryBudget`;
- `KeepsLifecycle`: the refinement of `JobLifecycle`, up to the first step after which a key is
  contended (`LifecycleStep`);
- `KeepsMemory`: likewise the refinement of `MemoryStore` (`MemoryStep`), which needs that no failed
  row keeps a result.

**CoreOrders** (any number of overlapping requests): one inductive invariant,
`IInv == TypeOK /\ TrailEndsAtStatus /\ LegalEvents /\ RequestsSound /\ SourcesResumable`.
`RequestsSound` relates an open request to the row *it* loaded, never to the row as it is, since
others may have committed; `SourcesResumable` says that restore points are states that
`transition_to` allows a return to. Its consequences:

- `TypeCorrect`: `[]TypeOK`; `TrailFollowsStatus`: `[]TrailEndsAtStatus`;
  `EventsAreLegal`: `[]LegalEvents`.

For the orders that are not `stale`, `FreshInv` adds that an order in `sync_failed` has a restore point
(`RowsFit`) and that an open request changes the row it has loaded as `transition_to` does (`Exact`). A
request that commits on another row makes the order stale, so that nothing is left to show of it; one
that leaves the order as it was has loaded the row it writes:

- `TrailUnbroken`: `[]TrailIsPath`, since the event starts at the loaded status, which is the last one;
- `MappingsStay`: `MappingsKept`, an action property, from what each request leaves alone (`Exact`);
- `KeepsOrderLifecycle`: the refinement of `OrderLifecycle`, up to the first commit on another row.
  `MoveOfLife` turns a transition of the tables into one move of the life of the order.

**Fulfillment** (any number of orders, any limit of a page, any number of lost calls, deaths and
operator retries):

- `TypeCorrect`: `[]TypeOK`.
- `FollowsDelivery`: the refinement of `DeliveryMirror`. That Core does not run ahead of the warehouse
  depends on reports that were planned long ago: `FollowInv` says that every report planned in a path,
  under way in a process, or kept in the table for a retry is warranted by the delivery as it is
  (`Warranted`), and deliveries do not go back (`WarrantKept`).
- `CompletedReportsMade`: `[]CompletedIsReported`. `ReportInv` adds the processes that are about to
  record that Core has accepted.
- `SmoothAccepted`: `[]SmoothReportsAccepted`. As long as nothing has gone wrong, the poller's batch,
  its path and its call are about the statuses that Core still has (`Smooth`), so each report is
  the next rung.

**OrderExport** (any number of orders, buyers, sale orders, faults, late calls, deaths, retries):

- `TypeCorrect`: `[]TypeOK`.
- `ConsumedIsExported`: `[]AckedIsExported` and `PartnerOfSale`: `[]SamePartner`, from one invariant,
  `ExportInv`. The partner of a sale order is decided when its job is begun, perhaps executions
  before the one that answers: `SamePayload` and `SalesArePayloads` say that every execution of a job,
  every sale order of its order and every call still on its way names the partner by the payload of
  the job, whoever else executes it. `PartnerIsKept` says that the worker writes back that name or has
  found it in Core, unless the ref of the buyer was replaced: the COMMIT of a mapping that has read
  NULL may come after the worker's own, and the theorem claims nothing of such buyers.
  `SalesAreReal` says that an id recorded anywhere is the one of a sale order of that order.
- `OneSalePerOrder`: `[]AtMostOneSaleOrder`, for orders that no two processes were exporting at once
  and as long as no call was served late. A job may be resumed by both processes, so that `OneExecutes`
  (one process is between search and creation) holds for orders that are not `rivalled` only. With
  `OneSale` (what an executor has not found is still not there when it comes to create it) it is
  inductive: that the two processes take turns in any other way does no harm, for whoever comes second
  finds the sale order.

**Checkout** (any number of products, customers, sessions, tries and faults), from
`CheckoutInv == ShopInv /\ RegistryInv /\ PartsOK /\ PlacementsSound /\ CheckoutsSound`:

- `TypeCorrect`: `[]TypeOK`; `BrandsStay`: `[]ProductsHaveBrand`, by the foreign key at the COMMIT.
- `SoldAsOffered`: `[]OrdersOnOfferedTerms` and `AnnouncedBeforeSold`: `[]SoldAfterAnnounced`. What a
  placement has read may be stale when it commits; `PlacementsSound` states what follows from it for
  the history, which never shrinks. `PublishedIsKnown` and `ApprovedIsWelcome` make the reads true.
- `ShownIsPlaced`: `[]ProcessingIsPlaced`. `CheckoutsSound` says what a request of PHP may rely on at
  each point, that every id in the meta data is one of an order, whichever request has saved it, and
  that a block checkout about to end well has saved one.
- `OneOrderWithoutRivals`: `[]OrdersPerCheckout`. For a Woo order without overlapping requests, `OneTry`
  bounds the placements that are `Live`, which are those not refused and not lost: there is one at
  most, and its request is still under way or has left the Woo order processing, so that no other
  begins. A placement whose caller has given up is not live, though it may still become an order; each
  such order is the lost one of its own try.

**OdooSite** (any number of callers, orders, partners, faults and runs of scripts):

- `TypeCorrect`: `[]TypeOK`, which includes that a call past its partner, a creation on its way and
  a sale order name a partner that exists. Every step of a caller serves at most one creation and
  leaves at most one behind (`CallerOK`), and partners are never fewer than before (`CallStays`,
  `LateOK`, `GrowthOK`).
- `OneRecordUnlessRaced`: `[]OneRecordPerKey`. That there is at most one record is not inductive:
  who is about to create one must know that there is none. `Single(key)` adds that somebody about to
  create means no record yet, and that nobody is about to create beside him. Every step either keeps
  the count and adds a creator only where there is one or the count is zero (`Keeps`), or is the
  creation of one of the creators, who leaves (`CreatedOnce`). `Moves` reduces the twelve actions of
  a caller to these two.
- `RerunsAreQuiet`: `RerunChangesNothing`. A script writes what follows from what it saw when it
  began, so the invariant `SeenHolds` relates the two: there are never fewer records than it saw, and
  what it saw configured is still so as long as no record was created since.
- `ImplementsCalls`: `ImplementsSaleCalls`, the refinement of `SaleOrderCalls`. `Made`, `Asks` and
  `Pending` are the mapping; each action of a caller has a lemma that names the step it is for a
  caller that knows of sale orders only, or that it is none (`AuthenticateMaps` to `ServeLateMaps`).
  That a refused call has left nothing behind rests on the table of `HttpClient`: no outcome that
  leaves open whether Odoo has acted has a code that is not retried (`FailMaps`).

What stays with TLC: all liveness (`SettledIfSwept`, `OutcomeReportedOrFlagged`,
`ExportedUnlessBlocked`, `PlacedIsShown`), since the provers handle neither fairness nor ENABLED, and
what the code's documentation says and TLC refutes (section 5). Every invariant and every action
property or refinement that a run finds to hold is a theorem.

## 5. Where the code and its documentation disagree

Each is a run that TLC ends with a counterexample; the quoted lines are in `PROJECT.json`.

1. Two executors create two sale orders (`order_export_rivals`), although no call is late. `begin()`
   does not exclude rivals: two processes that find a failed job due both execute it, whatever
   `sync_jobs.py:148` says of concurrent callers, and each of the three levels of deduplication reads
   before it writes. Completed jobs and first calls are safe (`CompletedIsApplied`, `FirstCallAlone`).
2. A shipped order can be cancelled by a request that overlaps (`core_shipped`): rows carry no
   version and are not locked.
3. A report lost by a network failure is not made up for (`fulfillment_jitter`): the loop goes on to
   the next status, Core refuses the jump, the refusal is a dead letter, and polls pass over it.
4. One conflicting event ends the batch (`order_export_poison`), since the dispatch is outside the
   `try` of the loop.
5. A Woo order that is submitted twice at once becomes two orders of Core (`checkout_twice`): the
   plugin sends an idempotency key, and nobody reads it. Without overlap, a second order takes a lost
   answer (`OrdersPerCheckout`).

Stated as conditions of properties rather than as runs of their own:

- A failed job may lose its time (`Unlisted` in `SettledIfSwept`). P and Q resume one due row, while an
  operator's `retry()` has loaded it too. P dead-letters it; the retry stores a time and a new budget,
  but not the status, which it has not changed; Q loads the row, dead and due; the operator retries
  again, and the row is failed and due; Q stores what it has changed, which is only that there is no
  time. The row is failed, and no round lists it.
- A row that the dispatcher has no task for ends every round of the retry worker (`RoundsEnd`), and the
  rows behind it are not run. The shipped runtime has a task for reports only.
- A retailer's partner ref is replaced by a request that has read NULL (`replaced` in `SamePartner`),
  where `core/services/retailers.py:131` promises 409.
- A row left in `running` by a death is taken neither by the retry worker nor by `retry`, although
  `sync_jobs.py:63` calls it retryable (`Stranded` in `SettledIfSwept`); a failed job whose id has a
  dot is never retried (`ForOperator`).
- An order with a page of newer ones is not polled any more (`OutcomeReportedOrFlagged`), and
  dead-lettered events fill the page of the export worker (`ExportedUnlessBlocked`).
- Two creations of a partner or product that overlap make two, and the provisioning raises from then
  on if it is the product (`OneRecordPerKey`); a call that Odoo serves late gives a second sale order
  (`AtMostOneSaleOrder`).
- The classic checkout goes on to `processing` after Core's refusal (`ProcessingIsPlaced` is stated for
  the block checkout, whose comment explains the difference).
- Two overlapping reviews of a retailer both succeed, and the later COMMIT wins; a registration whose
  answer is lost leaves the customer without a link, for Core answers 409 from then on.

## 6. Plan

Done, in this order: the job store and the rounds of the retry worker; Core's orders; fulfillment;
export; catalogue, retailers and checkout; the in-memory store; the limits of the two polls; Odoo's
database with the adapter and the provisioning; and the proofs of the safety properties of all of
them.

Next:

1. to prove: the steps on which the liveness properties rest, as action properties without fairness
   (a completed or dead job stays so, an acknowledged event stays exported, a step of an executor
   takes its task nearer to its end), so that what is left to TLC is fairness alone;
2. to prove: which parts of `JobLifecycle` tasks that have a key at once still keep. `KeepsLifecycle`
   claims nothing from then on, and some parts, such as who may leave `dead`, may hold on;
3. to model: the checks that `verify_odoo.py` reads, and an answer of status 2xx without a body.
