# Planet Caravan backend: TLA+ verification

Planet Caravan runs a fork of the Saleor e-commerce platform (Django, GraphQL,
PostgreSQL) together with a set of scripts that keep the web shop in step with
ShopKeep, the point of sale of the physical store, and with Zoho, which holds the
catalogue. This directory holds TLA+ models of the parts that decide *who gets
which goods, for what money*: the warehouse, the fulfillment of orders, draft
orders, payments with Adyen and its notifications, the completion of a checkout,
the two-way sync with ShopKeep and its job queue, and the catalogue import. TLC
checks them on small instances; for the warehouse, fulfillment, draft orders, the queue,
the order sync and the payment's books TLAPS proves the main properties for instances of
every size.

Line references are to the source at the modelled commit, relative to `src/`.

## 1. Inventory

| Component | State | Operations | Talks to |
|---|---|---|---|
| Warehouse stock and allocations (`saleor/warehouse/management.py`, `models.py`) | `Stock(warehouse, variant, quantity)`, `Allocation(order_line, stock, quantity_allocated)` | `allocate_stock`, `deallocate_stock`, `increase_stock`, `decrease_stock`, `deallocate_stock_for_order`; staff's `productVariantStocksUpdate/Delete` | called by checkout, draft orders, fulfillment, cancellation; its tables are also written directly by the sync scripts |
| Order fulfillment (`saleor/order/actions.py`, `utils.py`, `graphql/order/mutations/fulfillments.py`, `orders.py`) | `Order.status`, `OrderLine.quantity_fulfilled`, `Fulfillment(status)`, `FulfillmentLine` | `OrderFulfill`, `FulfillmentCancel`, `OrderCancel` | warehouse |
| Draft orders (`graphql/order/mutations/draft_orders.py`, `bulk_mutations/draft_orders.py`) | orders in status `draft`, their lines and total | create, edit lines, update, delete, `DraftOrderComplete`, `OrderMarkAsPaid` | warehouse |
| Payments (`saleor/payment/gateway.py`, `utils.py`, `models.py`) | `Payment(charge_status, captured_amount, is_active)`, `Transaction` | process, confirm, capture, refund, void and their mutations | Adyen through its plugin, orders |
| Adyen notifications (`payment/gateways/adyen/webhooks.py`) | payments and transactions, orders created late | one handler per event code, the customer's return from the bank | payments, checkout |
| Checkout completion (`saleor/checkout/complete_checkout.py`, `discount/utils.py`) | `Checkout`, `Voucher.used`, `VoucherCustomer`, `GiftCard.current_balance` | `CheckoutPaymentCreate`, `complete_checkout` | payments, warehouse, orders |
| Stock availability (`warehouse/availability.py`) | none | aggregate queries | warehouse tables |
| Order sync (`scripts/planet-caravan/adjust-inventory.py`, `stock-sync.py`, `Lib/Saleor`, `Lib/ShopKeep`) | `OrderSync` rows, plus raw SQL on the order and warehouse tables; ShopKeep's own count | `get_adjustments`, `change_inventories`, `mark_adjusted`, `update_stock` | warehouse and order tables, ShopKeep through a browser |
| Sync job queue (`saleor/sync/`, `scripts/planet-caravan/run-queue.py`) | `QueueJob(status, started_at, completed_at)` | insertion by `/sync/<type>`; select, mark started, run, mark completed | starts the order sync, the stock import and the catalogue import |
| Catalogue import (`scripts/planet-caravan/zoho-sync.py`) | product, variant, category, attribute, collection, image and stock rows | one run: fetch pages, write each record, disable products, renumber the tree, bust the cache | Zoho's CRM, product tables, query cache |
| Query cache (`graphql/views.py`) | answers by query key | get, compute, set, bust | product tables |
| Background jobs (`app/tasks.py`, `csv/tasks.py`, invoices) | `Job.status` | celery tasks and the mutations that start them | external apps, files |
| GraphQL schema; catalogue, accounts, pages, menus, search, feeds; plugins, webhooks, e-mail | rows of their own | one-row updates, reads, notifications | -- |

What is hard in each, and what makes it correct:

* **Warehouse.** Every function is one transaction at READ COMMITTED with row
  locks, but `allocate_stock` bases its decision on an aggregate computed by
  its *first* statement, whose snapshot can predate the locks. Loops spread
  a reservation over several stocks and must be all or nothing. Staff and the
  import overwrite quantities; deleting a stock cascades to allocations.
  Correct means: a stock is never promised twice, a request that raises leaves
  no trace, shipping takes from the line's own reservation, keys hold.
* **Fulfillment.** Each mutation validates on objects read *before* its
  transaction and then saves absolute values computed from them. Correct
  means: the three records of what a line has received (its
  `quantity_fulfilled`, its fulfillments, its reservations) agree, the status
  follows them, and goods are neither created nor lost.
* **Draft orders.** No mutation locks the order. `DraftOrderComplete` saves the
  order and then reserves line by line, each in a transaction of its own, while
  the lines are edited or deleted. Correct means: only a placed order holds
  stock, and of each line all or nothing; the total is that of the lines; a placed
  order stays placed, a deleted one deleted.
* **Payments and Adyen's notifications.** Staff's operations are accepted first
  and decided later; notifications come late, twice and out of order; the call to
  Adyen is inside a transaction that may still be rolled back. Correct means:
  the captured amount is what Adyen holds once everything under way is booked,
  and money Adyen holds can be given back.
* **Checkout.** The customer, the return from the bank and a notification
  complete the same checkout; locks are taken in different orders; voucher uses
  are counted on every attempt. Correct means: one order per checkout, one charge
  per payment, a use of the voucher per order, no money without an order.
* **Order sync.** Raw SQL with autocommit, a browser session in the middle, no
  lock and no transaction: a crash can fall between any two statements, and
  its only memory is the `OrderSync` row written last. Staff ship, take back and
  recount in the dashboard, on the same rows. Correct means: an order is
  shipped once and marked in the end, a marked one is left alone, and the two
  counts of the goods agree but for what only one system was told.
* **Queue.** Processes started by a scheduler may overlap and die. Correct
  means: each job's command runs once and every job gets an outcome.
* **Catalogue import.** Some fifteen statements a record with autocommit, page
  after page; records change meanwhile; images fail; a run can end anywhere;
  the storefront's cache is filled in parallel. Correct means: what was taken
  over stays as the record says, the category tree is the one the parents say,
  no outdated answer is served after a run, and every record is mirrored in the end.
* **Availability.** Aggregates with `distinct=True`; correct means: what is
  offered can be reserved.
* **Jobs.** A status life cycle shared by tasks that retry and mutations that
  delete.

The hazards these give rise to are listed, line by line, in `PROJECT.json`.

## 2. Modules

    Sums ---------------------------------+   Payment
      |                                   |     |
    Warehouse -- WarehouseProofs (proofs) +-- OrderPayments -- OrderPaymentsProofs (proofs)
      |
      +-- Stocks                              CheckoutCompletion -- CheckoutCompletionProofs (proofs)
      |     |
      |   StocksLedger --refines-- StockLedger
      |     |                                 SyncQueue --+
      |   StocksProofs (proofs)                           +-- ScriptProofs (proofs)
      |                                       ZohoSync ---+
      +-- OrderFulfillment -- OrderFulfillmentProofs (proofs)
      +-- DraftOrders -- DraftOrdersProofs (proofs)
      +-- OrderSync -- OrderSyncProofs (proofs)

Each module with a run has an MC module, which gives its constants values.

### Warehouse

The two tables for one product variant as a record (`stocks`, `quantity`,
`rows`, `allocated`), and one operator per function of `management.py` that
maps the tables a call finds to the tables it commits (`Allocated`,
`Deallocated`, `Increased`, `Decreased`, `OrderDeallocated`), with its guard
(`CanAllocate`, ...: the exceptions, the unique key of `Allocation`, the range
of the integer column). The greedy loops (`management.py:45-68`, `84-102`) are
the closed form `Take`: from stock `s`, what it has, as far as the stocks before
it have not covered the demand. Stocks are numbered by primary key, the order of
the loops. `AvailableQuantity` is the aggregate of `availability.py`, with its
`distinct=True`. No variables, so the other modules reuse it.

### Stocks

Any number of sessions call these functions. A function that locks first and
reads afterwards is one action. `allocate_stock` is two: `AllocateCount` takes
the sum of allocations, `AllocateCommit`/`AllocateRefuse` happen when the row
locks are granted, and see current quantities but the old sum. This is
PostgreSQL's READ COMMITTED: a statement that waits for a row lock re-reads that
row, but the snapshot of its other reads stays as it was, and the aggregate is
over another table than the locked rows. `StaffSets` and `StaffDeletesStock`
are the two writers that do not look at allocations.

### StockLedger, StocksLedger

The abstract specification: goods on hand and goods promised to each line;
goods are promised only if nobody else was promised them, and leave only as far
as the remaining promises stay covered. A `Request` keeps what was `covered`
covered; a `Recount`, a count by hand, may leave less than was promised, and until
the promises are covered again the ledger says nothing of the total. `StocksLedger`
maps Stocks to it by sums over stocks: `KeepsLedger` says that a call of
`management.py` is a request and never passes for a recount, and that staff's
two writers are recounts.

### OrderFulfillment

One placed order, with one variant per line (`wh[l]`), several staff sessions.
Each mutation is a validation step (`FulfillClean`, `RestockCheck`,
`CancelCheck`) that remembers what it read, and a transaction in two steps
(`FulfillShip`/`FulfillCommit`, `RestockLock`/`Restock`/`RestockCommit`,
`CancelDeallocate`/`CancelCommit`). The transaction's first step takes the row
locks (`Free`) and makes its last read; the second makes its writes visible.
`Fulfilled` and `Unfulfilled` are what the code saves: values computed from the
remembered read, so a lost update is possible exactly where the code allows it.
`StatusSaved` is the comparison with the in-memory status
(`order/utils.py:165`). Untracked variants skip the warehouse but still need
a stock row to ship from (`actions.py:303-306`). `overlapped` is a history
variable: have two mutations ever been under way together?

### DraftOrders

One draft of two variants, whose lines are numbers by primary key; the last line
is another order's (`Sell`). Each mutation is the check on the order it reads
(`Begin`), then one action per statement or transaction: `CompleteValidate`,
`CompleteSave`, then `CompleteReserve` or `CompleteFail` for each line; `AddRead`,
`AddLine`, `SaveQuantity`, `RemoveLines` followed by `RecalculateRead` and
`RecalculateSave`, which are two because `recalculate_order` adds up lines it
has read; `UpdateSave`, `BulkDelete`, `Cancel`, `Pay`. A session remembers what
it read; `order.save()` writes back every column of it, also to a row that has
been deleted. Prices are 1, so a total is a number of items. `past` is history,
for the properties only.

### Payment, OrderPayments

`Payment` is the row with its transactions and, as operators, what the code
computes from them: `CanCapture`, `CanRefund`, the queries for a transaction of
some kind or reference, and `gateway_postprocess` (`Postprocessed`) with exactly
the fields each branch *saves* (a capture sets `is_active` in memory only,
`utils.py:273`).

`OrderPayments` is the payment of a placed order: `Read` is a mutation up to
`require_active_payment`, on an object read without a lock; `Operate` is the
transaction of `capture`, `refund` or `void` with the row locked;
`LoseCommit` is the same rolled back after Adyen has the request, and
`OperateFailed` a call that fails. Adyen's side (`Authorise`, `CarryOut`,
`TurnDown`, `Fail`) keeps its own account `held` and appends to `sent`;
`Deliver(i)` hands any notification sent to its handler, at most twice each.
One `Handle...` operator per handler of `EVENT_MAP`; `Found` is what
`get_payment` finds (an inactive payment only for a cancellation).

### CheckoutCompletion

Two checkouts that compete for a voucher, a gift card and a stock. A session is
the one database transaction `complete_checkout` runs in, with the locks it has
so far; it goes through `Complete` (or `Notified`/`Return` and `LockCheckout` when
a handler runs it), `PrepareOrderData`, `UseVoucher`, then `Charge`,
`RefusePayment`, `RequireAction` or `FailWithoutPayment`, then `CreateOrder`,
`SoldOut` or `Fails`. What it wrote is in its record until `Commits`. `Abort` is
PostgreSQL breaking a lock cycle (`Deadlocked`), or a crash; Adyen has been called
all the same. `CancelActivePayments` and `CreatePayment` are
`CheckoutPaymentCreate`, which takes no lock. `Booked` and `RefundDone` are
notifications on their own transaction.

### OrderSync

Script processes that may overlap, each going through the statements of
`get_adjustments` one at a time (`NextRow`, `CreateFulfillment`, `InsertLine`,
`SetFulfilled`, `DeleteAllocation`, `UpdateQuantity`, `SetStatus`), then through
ShopKeep (`Adjust` or `AdjustFails`, `MarkAdjusted`), or through the stock import
(`StartImport`, `Import`). `Crash` is possible at every step. A process keeps what the
script keeps: the rows its query returned, and the fulfillment it found or made for
each order, which is any the order has, canceled or not. The rows are the orders times
the stocks of the variant, as in `LEFT JOIN warehouse_stock`. ShopKeep is external: a count.

Around the scripts are the shop's own requests on these rows, each one step here:
`Place`, `Draft` and `Cancel`; staff's `OrderFulfill`, `FulfillmentCancel` with its restock, and
`StaffSets`, a count by hand; and the store sells (`StoreSells`). `OrderFulfill` looks at what
is unfulfilled and not at the status, so that it ships drafts and canceled orders too.
`FulfillmentCancel` restocks all lines of the fulfillment, also those a script
has put there, while `bulk_update` keeps the `quantity_fulfilled` of one of them.

Three variables are history. `disturbed` holds the orders a script died with, two scripts
had at once, or staff shipped before the sync had set their `quantity_fulfilled`
(`Saved`). `taken` and `added` add up what, since the last import, the shop's stock has
lost, and what it has gained on ShopKeep, that the other was not told of; `Owed` is
what scripts that are up have subtracted in the shop and are still to tell ShopKeep.

### SyncQueue

The `QueueJob` table and the processes of `run-queue.py`: `Fetch`, then for each
type `StartCommand` (UPDATE started_at), `Run` or `Reject`, `Succeed` or
`Fail`, with `Crash` anywhere. `runs` counts the executions for a job; it is a
history variable, not a column. The module's own names (`QueueInit`, `QueueNext`,
`QueueSpec`, ...) leave the usual ones to ZohoSync: `ScriptProofs` extends both.

### ZohoSync

One run of the catalogue import, one action per SQL statement in the order of
the script: `FetchPage`, `PickProduct`, `UpsertDepartment` ... `DropImages` for
each record of the page, `DisableProducts` after each page, `ReadTree`,
`NumberRoot` and `NumberChild` for `fix_category_hierarchy`, `ListKeys` and
`DeleteKeys` for `bust_cache`. The script numbers its copy of the rows before
it writes the first; as nobody else writes them, each row's numbers are
computed where they are written, from the state of the numbering (`tid`, `left`). Around it Zoho's records are edited (`Edit`) and leave the 48 hours
that are asked for (`Forget`), the storefront computes and keeps answers (`Ask`,
`Keep`, `Expire`), images fail (`Swallow`) and the process dies (`Die`).
`synced` and three flags are history.

### WarehouseProofs, StocksProofs, OrderFulfillmentProofs, DraftOrdersProofs, OrderSyncProofs, ScriptProofs, OrderPaymentsProofs, CheckoutCompletionProofs

Theorems and their proofs only; see section 4.

### Operators that are deliberately wrong

Operators introduced by a comment `Bug:` are plausible mistakes in the definition
that follows them. They are used nowhere in the specifications; substituted for
that definition they make a property fail, which shows that the property can
tell. `PROJECT.json` ("mutants") says which operator refutes which property.

## 3. What is checked

| Run | Instance | States | Shows |
|---|---|---|---|
| `stocks_concurrent` | 2 sessions, 2 stocks, 2 lines, quantities 1-2 | 190 030 | `TypeOK`; a stock is oversold only through a stale sum (`OversellNeedsOverlap`); `AllocatesExactly` |
| `stocks_serial` | 1 session, 2 stocks, staff edits and deletions | 67 000 | `Integrity`, `NoOversell`, `ShipsExactly`; Stocks implements StockLedger (`KeepsLedger`) |
| `orders` | 2 sessions, 2 warehouses, 2 lines (one untracked), 2 fulfillments at validation | 1 150 000 | until mutations overlap `BooksAgree` and `StatusFollows`; always `Covered`, `DriftNeedsOverlap` |
| `drafts` | 2 sessions, 4 mutations, 2 variants with 2 stocks, 3 line keys and another order | 296 000 | `SerialBooks`, `PlacedStaysPlaced` without overlap; always `NothingForTheGone`, `ValidatedCanBeReserved`, `OverReservedNeeds` |
| `payments` | 1 session, 2 requests, 1 failure, 1 repetition, a payment of 2 | 753 000 | `DriftNeeds`, `MoneyWithinReach`, `InactiveIsFrozen`, `RepeatsChangeNothing` |
| `payments_failedrefund` | the same | violated | `FailedRefundComesBack` |
| `checkout` | 2 checkouts of one customer, 2 sessions, 2 payments, 1 crash | 235 000 | `OrdersWithinLimits`, `ChargedOnce`, `MoneyHasItsOrder`, `UsesFollowOrders`, `ShortOnlyIfCardSpent`, `FirstRefundIsExact` |
| `checkout_secondcall` | the same, no gift card | violated | `RefusedOnlyAfterOrder` |
| `sync_overlap` | 2 processes, 1 order, 1 crash, 1 failure, 1 sale, 1 edit by staff | 1 337 979 | `OvershippedNeeds`, `FollowsShopKeep`, `MarkedNeverAgain` |
| `sync_serial` | 1 process, 2 orders, 1 crash, 1 failure, 1 edit by staff | 269 403 | `EventuallyMarked` (liveness) |
| `queue` | 2 processes, 3 jobs, 3 types, 1 crash | 184 979 | `QueueTypeOK`, `RunsOncePerProcess`, `CompletedMeansRan`, `AbandonedOnlyByCrash`, `EventuallySettled` (liveness) |
| `zoho` | 2 SKUs with 3 records each, pages of 1, 2 incidents | 171 000 | `TakenOverStays`, `NothingToBuyNeedsStop`, `TreeFollowsParents`, `OutdatedNeedsRace`, `EventuallyMirrored` (liveness) |

The type invariant of each module is checked in one run of it: on its own
in `stocks_concurrent` and `queue` (`QueueTypeOK`), and as the first conjunct of `Covered`,
`NothingForTheGone`, `MoneyWithinReach`, `OrdersWithinLimits`,
`OvershippedNeeds` and `NothingToBuyNeedsStop`.

The properties named `...Needs...` are of one form: whatever runs at the same
time, the records leave the state they should be in *only* in the steps listed.
They say where the code is exposed, and that it is exposed nowhere else.
Properties with "until mutations overlap" say what the sequential code
guarantees, over all sequences of mutations; they are checked in the runs with
two sessions, and a history variable tells the two cases apart.

**Bounds.** Two stocks are the least for which the greedy loop, the spreading of
a reservation and "released from one stock, shipped from another" differ from
the one-stock case; two lines are the least for one line's request to touch
another's reservation; quantities 1 and 2 distinguish full and partial takes. A
stale read needs one overlapping session, so two sessions; a third adds only
more of the same kind of overlap. `MaxQuantity` (the column's range) is 2 or 3 in
the Stocks runs, so that `increase_stock` meets it; elsewhere it is never
reached, as those modules never hold more than at first. `MaxFulfillments` bounds
only the validation of new `OrderFulfill` requests; two already validated requests
may exceed it. In `drafts` four mutations are enough to place, revert, edit
and place again, or for a placing to overlap with an edit that another one
follows; the third line key lets a deleted line be added again. In `payments` a
total of 2 lets an amount be refunded in two parts; two requests are a
capture and a refund, two refunds or two captures of which one is lost; one failure
may undo either; the mutation's read and its transaction are separate steps
between which notifications arrive, so that one session has stale reads
already. In `checkout` the price is 2 and the gift card holds 0 or 3, so that it
pays for one order and part of the other; one or two items are in stock; the
limit of the voucher is 3, which leaves room for the uses counted by two calls
that ended without an order; two payments are one for each checkout or
two for one; each can be charged twice (`MaxCharges`), and after `MaxRefunds` refunds
were asked no more calls are made for it. In `zoho` a page holds one
record, so that records change between pages; the three records for each SKU differ in what
the script treats differently: not in the web shop, without a category, without
a department, with the name of the other, with the other's category as its
department. Two incidents are any two of edits, expired windows, requests,
deaths and failed images; three also pass (1.1 million states), but take longer. `MaxCrashes`,
`MaxFailures`, `MaxRepeats`, `MaxSales`, `MaxEdits` and `MaxJobs` bound the environment. One crash is
enough for every statement to be the last, and for a recovery run to follow. OrderSync is
checked with the one warehouse that the scripts assume
(`SELECT id FROM warehouse_warehouse LIMIT 1`). Three items and an order of two let
staff ship it in parts, and let what is subtracted twice be cut off at zero. In `sync_overlap`
one order is enough, because two scripts meet only at an order both have selected, or
in the counts. `MaxEdits` counts what staff do in the dashboard, shipping, taking back and
recounting together; the one edit can fall before, between and after the statements of both
scripts. Two edits, so that what is taken back is shipped again, pass for two
scripts and one order without the sale (4.9 million states), and the two invariants for one
script and two orders with the sale (7.3 million), but take longer.

**Deadlock.** The Stocks runs check for it. The others set
`CHECK_DEADLOCK FALSE` because their bounded requests really come to an end: an
order that is canceled, a payment whose requests are decided and whose notifications
were delivered, checkouts that are orders, a sync with nothing left to do.
`ZohoSync` can always go on, and `EventuallyMirrored` says that it gets somewhere.

**Symmetry** is used for sessions (and the two like checkouts) in the safety runs
`stocks_concurrent`, `orders`, `drafts` and `checkout`, whose specifications never
distinguish them; never in a run with liveness.

**Fairness.** `OrderSync!Fairness` is weak fairness of a process that is up (the
browser waits have timeouts, and each statement returns), and strong fairness
of starting the order sync: the scheduler requests it over and over, but
between two runs the stock import may occupy the process, so it is enabled
again and again rather than always. `SyncQueue!FairQueueSpec` is weak fairness
of each process: the scheduler starts the script again, and commands end.
`ZohoSync!FairSpec` is weak fairness of the run: the scheduler starts one after
the other, a statement returns. No fairness is assumed of crashes, failures,
shoppers, Zoho's editors, the storefront or the store.

## 4. What is proved

With TLAPS, for every value of the constants that satisfies the assumptions.

| Theorem | States |
|---|---|
| `StocksProofs!TypeCorrect` | `Spec => []TypeOK`: in particular no quantity and no allocation is negative |
| `StocksProofs!IntegrityHolds` | `Spec => []Integrity` |
| `StocksProofs!OverlapTheorem` | `Spec => OversellNeedsOverlap` |
| `StocksProofs!SerialNoOversell` | `OneSession => (Spec => NoOversell)` |
| `StocksProofs!AllocatesExactlyHolds` | `Spec => AllocatesExactly` |
| `StocksProofs!ShipsExactlyHolds` | `Spec => ShipsExactly` |
| `StocksProofs!SerialKeepsLedger` | `OneSession => (Spec => KeepsLedger)`: Stocks implements StockLedger |
| `OrderFulfillmentProofs!ReservationsCovered` | `Spec => []Covered` |
| `OrderFulfillmentProofs!DriftIsOverlap` | `Spec => DriftNeedsOverlap` |
| `OrderFulfillmentProofs!BooksStayInAgreement` | `Spec => []BooksAgree` |
| `OrderFulfillmentProofs!StatusSaysWhatIsShipped` | `Spec => []StatusFollows` |
| `DraftOrdersProofs!NothingStays` | `Spec => []NothingForTheGone` |
| `DraftOrdersProofs!ValidationIsNoPromiseTooMany` | `Spec => []ValidatedCanBeReserved` |
| `DraftOrdersProofs!PlacedIsPlaced` | `Spec => PlacedStaysPlaced` |
| `DraftOrdersProofs!OverReserving` | `Spec => OverReservedNeeds` |
| `DraftOrdersProofs!BooksAreKept` | `Spec => []SerialBooks` |
| `ScriptProofs!QueueTypes` | `QueueSpec => []QueueTypeOK` |
| `ScriptProofs!RunsAreBounded` | `QueueSpec => []RunsOncePerProcess` |
| `ScriptProofs!CompletedRan` | `QueueSpec => []CompletedMeansRan` |
| `ScriptProofs!NothingAbandoned` | `QueueSpec => []AbandonedOnlyByCrash` |
| `ScriptProofs!TakenOverIsKept` | `Spec => []TakenOverStays` |
| `ScriptProofs!OnSaleCanBeBought` | `Spec => []NothingToBuyNeedsStop` |
| `ScriptProofs!TreeIsNumbered` | `Spec => []TreeFollowsParents` |
| `ScriptProofs!StaleNeedsRace` | `Spec => []OutdatedNeedsRace` |
| `OrderSyncProofs!MarkedStaysDone` | `Spec => MarkedNeverAgain` |
| `OrderSyncProofs!OvershippingNeedsDisturbance` | `NumStocks = 1 => (Spec => []OvershippedNeeds)` |
| `OrderSyncProofs!CountsApartByWhatIsKnown` | `NumStocks = 1 => (Spec => []FollowsShopKeep)` |
| `OrderPaymentsProofs!InactiveStaysFrozen` | `Spec => InactiveIsFrozen` |
| `OrderPaymentsProofs!RepeatsAreIgnored` | `Spec => RepeatsChangeNothing` |
| `OrderPaymentsProofs!MoneyStaysWithinReach` | `Spec => []MoneyWithinReach` |
| `OrderPaymentsProofs!BooksFollowAdyen` | `Spec => DriftNeeds` |
| `CheckoutCompletionProofs!CheckoutsFit` | `Spec => []IInv` |
| `CheckoutCompletionProofs!SpecOrdersWithinLimits` | `Spec => []OrdersWithinLimits` |
| `CheckoutCompletionProofs!SpecChargedOnce` | `Spec => []ChargedOnce` |
| `CheckoutCompletionProofs!SpecMoneyHasItsOrder` | `Spec => []MoneyHasItsOrder` |
| `CheckoutCompletionProofs!SpecUsesFollowOrders` | `Spec => UsesFollowOrders` |
| `CheckoutCompletionProofs!SpecShortOnlyIfCardSpent` | `Spec => ShortOnlyIfCardSpent` |
| `CheckoutCompletionProofs!SpecFirstRefundIsExact` | `Spec => FirstRefundIsExact` |

*Assumptions.* Only those named in the modules: `SizesAssumption` (at least one
stock and one line), `StocksAssumption`, `OrderAssumption`, `DraftAssumption`, `OrderSyncAssumption`,
`QueueAssumption`, `ZohoAssumption`, `TotalAssumption`, `PaymentsAssumption`, `CheckoutAssumption` (what requests ask for is
positive, bounds are naturals, sets of processes are finite where they are
counted, an empty field is none of the values it may have). The hypotheses "one session" and "one stock" are in the
theorems that need them; the last is what the scripts assume of the shop, and
without it the two theorems are false (section 5). The theorems on the order sync are
for any number of processes.

*Sums and the warehouse.* Sums are partial sums of a recursive function;
`WarehouseProofs` begins with the proof that the function exists (induction over
sets of naturals, `NatSetInduction`) and from it the rules `SumToZero`, `SumToStep`,
`SumToChangeOne`, `SumToAdd`, ... by induction. `TakeExact` and `TakeBounds` state
what the greedy loop computes: it takes from no stock more than it has and, if there
is enough in total, exactly what is wanted. Each
`...Effect` lemma then says what one function of `management.py` does to the
types and the headroom of every stock, and each `...Sums` lemma to the goods and the
line's reservations. The modules built on Warehouse cite them.

*Stocks.* `TypeOK` is inductive by these lemmas. `Integrity` is inductive together
with `TypeOK`. `OversellNeedsOverlap` is a property of one step from a state with
`TypeOK`: `AllocatedEffect` bounds the new reservation by the quantity minus the
*counted* sum, so that a negative headroom after it needs a sum that has grown
since (`OnlyStaleCountOversells`). For one session the sum cannot have grown:
`NoOversell` needs the inductive invariant that the sum counted by an open call
is at least the current total, which every step keeps because only the session
itself could add a reservation and it is waiting (staff's deletions only lower
the total).

*The ledger.* `SerialKeepsLedger` is the refinement, step by step, from `TypeOK`,
`Integrity` and the invariant of the counted sum. Each session's step that changes
the tables is an `Entry` (`RequestIsEntry`): the goods on hand change by what
the function ships or puts back, the promise to one line changes, and the promises to
the others stay. Whether a new promise is covered is a matter of totals:
`PromisedIsTotals` exchanges the double sum over lines and stocks, so that all
promises together are the totals of the stocks added up, and
`CoveredByStocks` says that they are at most the goods when no stock is
oversold. `RequestsStayCovered` is what is left of `NoOversell`; staff's two writers
are recounts by `StaffRecount`.

*Fulfillment.* Two layers. `IInv`, which holds whatever overlaps, is `RowsOK` (types, and no
stock with more reserved than it holds) and `MemoryOK`: a session in its
transaction still can ship what it found it could (`Remembers`), because nobody else
holds locks on its lines (`Apart`) and a line's tables are written only by who holds its
lock. Without `MemoryOK` a commit could ship what another has taken. On top of it
`Serial` says, as long as no two mutations have overlapped, that what the one
session under way has read is what the rows still say (`Fresh`), that of each line the
quantity, what the fulfillments hold, the reservations and the goods agree (`Books`),
and that the status is that of the quantities, or canceled with nothing left
(`StatusRight`). `BooksAgree` is `Books` at every line. `StatusFollows` needs
`TightIsEqual`: quantities within what was ordered whose sum reaches the sum of what was
ordered are equal to it line by line. `DriftNeedsOverlap` is a property of one
step from `IInv`: `FulfillAdds` and `RestockTakes` compute what a commit makes of both
records, over the loop of `create_fulfillments` by induction on the warehouses.

*Draft orders.* `IInv` is `RowsOK` (the types, nothing allocated for a line that is gone, no
line left of an order that is) and `RunsOK` (what sessions remember has its
type). `ValidatedCanBeReserved` is arithmetic on top of it: the aggregate counts each
distinct quantity once, so it is at most the sum of all quantities, and what it
subtracts is all reservations. For `PlacedStaysPlaced`, `Alone` says that without overlap
there is one session at most, what it read of the order's status still holds, and a draft has
nothing allocated. `OverReservedNeeds` is a property of one step: `ReserveAdds`
bounds what a reservation adds, and the other steps only take away. For `SerialBooks`,
`Serial` says what holds as long as nothing has overlapped. `TotalRight`: the total is
that of the lines, or else the session that edits them has still to save it and has
the right one in hands. `PaidOnce`: the order is paid at most once.
`StockRight`: nothing is reserved for an order that is not placed, and the session that is
placing one (`PlacingRight`) knows the quantities of its lines and has reserved
exactly those of the lines it is done with. `SaveIsRight` and `ReserveIsRight` are the two
steps in which that memory becomes a row.

*Queue.* The inductive invariant `IInv` adds to the types what a process has in
hands (`Hands`: jobs of its type, started, and disjoint from what it has still to
do) and a count (`Runs`): the runs of a job and the processes that still owe
it one are together at most the processes there are. `StartCommand` writes
`started_at` before the run, and a job that is started is not selected again: that is
why a process owes a job at most one run, also when it dies in between.

*Order sync.* `TypeOK` is inductive by the lemmas on the warehouse. For
`MarkedNeverAgain` the strengthening `Selected` says that the rows a process
still has to go through are of orders it selected, and it selects orders without an
`OrderSync` row.

With one stock the query returns one row for an order (`Separate`, and `Stocked`: no step
removes the stock), so that `Stage` can say how far a process is with it: before the
row, at the statements up to `SetFulfilled`, saved, subtracted, told to ShopKeep. `Moved`
and `Stays` describe every statement as a change of one order's stage, or of none
(`StageMeans`, `RowSteps`, `AfterRows`). `OvershippedNeeds` follows from the invariant
`KeptBooks`: an order that is not disturbed is at one stage of one process, or has its
row and is in no process's hands, or neither (`IsAt`), and the stage determines its
books (`BooksAt`). Until its row is reached the order has no fulfillment; at
`InsertLine` it has one at most, without a line, canceled or not; afterwards no fulfillment has
more than one line; from `SetFulfilled` on, what the active ones hold is at most
`quantity_fulfilled`, and that at most what was ordered. One line for each fulfillment is
what makes `FulfillmentCancel` subtract from `quantity_fulfilled` all that it restocks
(`TakenBackKept`), after which staff can ship again no more than is left. A disturbed order
may have two, which is where this ends. `NextKept` has a lemma for each kind of step.

`FollowsShopKeep` follows from `Agreement`: the goods in the shop are `Near` ShopKeep's
count less `Owed`, that is, less than it by `taken` and more by `added` at most; and no download that
is still to be written is less than ShopKeep counts now. The `Near...` lemmas are its
arithmetic: the shop's stock is cut off at zero with every order and ShopKeep's count
is not. `OutsideAgrees` are the steps of the shop and the store, `SilentAgrees` those of
scripts that change neither count nor what is owed, `TellingAgrees` the others:
subtracting makes an order owed, telling ShopKeep takes it off its count, a failure or
a death turns what was owed into `taken`, and an import starts anew, up to what the
download was too old to know.

*Payments.* `IInv` is `Types`, `References` (a reference is of one request, and a
cancellation Adyen has told of is no longer under way), `Origins` (transactions of
the kinds cancel, pending and capture_failed come of notifications) and
`Remembered`: what was delivered successfully of a payment that is still found
has left the transaction by which its handler recognises it (`Known`).
`Remembered` is the reason why a repetition changes nothing (`RepeatStep`), and the
exceptions in `RepeatsChangeNothing` are exactly where it does not help.
`InactiveIsFrozen` is a property of one step from `Types` (`FrozenStep`): staff's
mutations need a payment that is active or change nothing of it, and the one handler
that finds an inactive payment is that of cancellations, which neither activates
it nor books on it.

*Payments and Adyen's account.* `MoneyWithinReach` compares the row with Adyen's side, so that
its invariant `PaymentsInv` has to say what the two know of each other. `Notices` is about
what Adyen announces: each request is decided once, and what undoes a
success refers to one and is told once. `Traces` says that a transaction of some kind is in the
table only if Adyen has announced it, or the shop has heard of it. `Money` bounds `Worth`, the money
held plus the refunds that stand, by the authorised total and by what was
captured; it is nothing before the authorisation and after a capture failed or a
cancellation. `StatusRight` is the row: an active payment that was captured, with nothing
undone, says that it is charged, and one that is inactive was voided, refunded wholly or
cancelled. Together they leave the two exceptions `MoneyWithinReach` names.

`DriftNeeds` is a property of one step from `PaymentsInv`. `Drift` is the captured amount
less Adyen's account, corrected by two sums: `ToBook`, the effects of the notifications
not yet heard, and `Ahead`, what was booked when it was requested. `DeliverEffects` says
that a delivery changes the outstanding effect of no other notification;
`FirstDelivery` that the first one books exactly its own, unless it is `Excused` by
one of the six forms; a repetition changes nothing by `RepeatStep`. On the other side
`AskDrift`, `AuthorisingDrift`, `DecidingDrift` and `FailingDrift` balance what staff and
Adyen do. The rules about sums are stated again in this module: Warehouse and
Payment have operators of the same names, and no module extends both.

*Checkout completion.* `IInv` of `CheckoutCompletionProofs` has six parts. `Types`,
`OrdersOnce` and `OneActive` (a checkout has one active payment at most) speak of the
rows. `LocksHeldOnce` says that no two sessions hold the same lock, so that what a
session has read under its locks is still so when it acts on it. `SessionsFit` says
what that is: the payment it works on is the only active one its checkout has
(`Paying`); a use of the voucher it has counted and not committed is within the
limit (`Counting`); its total is the price less the balance it saw, and the card has not
grown since (`Pricing`); and a payment it is about to charge has been neither
charged nor refunded by anyone else (`Charging`). `PaymentsFit` is about Adyen's side and the
row: what was taken is to be confirmed by the customer, booked, or in the hands of a
session, unless an answer was lost (`Charges`); of a checkout that is still there money was
spent only on the last of the stock (`Books`). `Grows` and `Undisturbed` keep the
frame: what one step leaves as it was for all sessions but its own. `OrdersWithinLimits`,
`ChargedOnce` and `MoneyHasItsOrder` follow from `IInv`; the action properties
are of one step from it. `NotFullyPaid` and `SumOfOne` compute `is_fully_paid`
for the one payment there can be, which is why `Due` decides.

*Catalogue import.* `ImportIInv` has one part for each thing the script has in hand.
`PageFits` says of the page that its records are of the right half
(`Web_Available` or not) and that one which was taken over has not changed since it
was read, as `Edit` takes it back; `RecordFits` says the same of the record that is being
written. `ProductFits` is the script read backwards: at each statement, what the
statements before have made of the product, so that at `DropImages` the row says all
the record does. Its one unusual conjunct is about images: a product whose record was
taken over before, and which nobody else is sold as, has the record's images from the
first statement on. Without it `TakenOverStays` is not inductive, because `DropImages` can
fail or have lost images and still leave a record that is counted as taken over.
With these, a statement on the product in hand leaves every other product alone
(`StaysWorks`), and whoever is sold as the one in hand is `Shared` meanwhile.

`TreeFits` follows the numbering: the roots that are written have trees of their own
and the interval of twice their children and two; the children that are written lie in
it, apart from each other; and of the root whose children are being written
(`Current`), the next number plus two for each child that is left is the root's
right end. When nothing is left, every row of a two-level tree is a root or a
child of one, hence `Nested` (`NumberedNested`), which needs no finite bound on
the categories but that the table is finite. `CacheFits` follows an outdated
answer over the two statements of `bust_cache`; `Bought` and `TypeOK` are
`NothingToBuyNeedsStop`. The two properties about a run that reached its end hold at
the end of each run and are kept until the next one starts.

*Only model-checked*: liveness (the prover does not handle fairness and
ENABLED), that is `EventuallyMarked`, `EventuallySettled` and `EventuallyMirrored`. Every
other property of a passing run is the subject of a theorem.

## 5. Findings

1. **A failed refund of everything is not booked back** (`payments_failedrefund`).
   The refund saved `is_active = False` (`payment/utils.py:290`); when it fails at
   the bank afterwards, `handle_failed_refund` looks for an active payment only
   (`webhooks.py:72`) and drops the notification. Adyen holds the money, the shop
   says it was refunded, and nothing can refund it any more (`MoneyWithinReach`
   has this as one of its two exceptions).
2. **A voucher is refused to a customer who has no order** (`checkout_secondcall`).
   The first call of `checkoutComplete` counts a voucher that is valid once per
   customer and keeps it counted when the customer has to confirm the payment; the
   second call, which is to make the order, is refused with "This offer is only
   valid once per customer." (`discount/utils.py:39`).

### Where records drift apart

What the properties of the form `...Needs...` and the hypotheses of the others
leave open is what the code does when steps overlap. None of it contradicts a
statement in the repository.

* *Overlapping allocations oversell.* Session A has reserved the last item and not
  committed; B's `allocate_stock` computes the sum without it, waits for A's
  lock, then reserves the item again. `OverlapTheorem` says that this is the only
  way a request oversells.
* *More is shipped than ordered.* Two `OrderFulfill` requests validated before either
  commits both ship; `quantity_fulfilled` is saved from the stale value and shows
  only one of them. Two `FulfillmentCancel` requests restock one fulfillment twice,
  since `cancel_fulfillment` locks the row but does not look at its status again
  (`actions.py:180`). `DriftNeedsOverlap` names these two forms, and `Covered` shows
  that even then no stock has more reserved than it holds.
* *Status and reservation left behind.* `OrderFulfill` does not look at the status in
  its transaction, so that one that overlaps `OrderCancel` ships from a canceled
  order and `update_order_status` overwrites `canceled`; `cancel_order` misses a
  reservation that a concurrent `cancel_fulfillment` is about to commit
  (`actions.py:83`); and a status is saved only if it differs from that of an object
  read before the transaction (`order/utils.py:165`).
* *Draft orders.* `DraftOrderComplete` accepts an order of any status and saves every
  column it read: it revives a canceled order, inserts a deleted one again without
  its lines and writes back an old total. `DraftOrderUpdate` saves the status DRAFT
  over a placed order. `DraftOrderDelete` looks at no status.
  `DraftOrderLinesBulkDelete` does not recalculate the total, even when nothing
  overlaps (`past.bulk`). A reservation that fails leaves the lines before it
  reserved and the order placed.
* *Availability* counts stocks of equal quantity once (`Sum(distinct=True)`): less is
  offered than there is, and never more (`ValidatedCanBeReserved`).
* *Payments.* `DriftNeeds` lists six steps in which the captured amount leaves Adyen's
  account for good, among them a capture Adyen turns down after the shop booked it
  when it was requested, and the notification of a refund's failure before that of
  the refund. `void` acts on a payment that was read before it was captured
  (`gateway.py:50`): the payment is then inactive, and Adyen's money out of reach.
* *Checkout.* A use of the voucher stays counted without an order in three cases
  (`UsesFollowOrders`). Money stays with Adyen without an order when the checkout is
  refused after a notification told of the capture, because the refund goes by a
  payment on which nothing is captured yet, and when another payment replaced the
  charged one (`MoneyHasItsOrder`). An order may be short of what another order has
  just taken from the gift card. Notifications and `CheckoutComplete` lock in
  opposite orders; the database breaks the cycle and Adyen has charged already.
* *Order sync.* The query looks for a missing `OrderSync` row and at nothing else
  (`Saleor.py:1130`). An order staff have shipped in the dashboard before the next
  sync is shipped and subtracted in the shop a second time, with no crash and nothing
  overlapping; drafts and canceled orders are shipped too. The fulfillment the script
  finds may be one that was canceled (`Saleor.py:1144`): its line then goes there and the order
  is `fulfilled` with nothing shipped. After a crash before `mark_adjusted` the next
  sync ships, subtracts and adjusts every order of that run again, and two scripts at
  once do the same. These are the three ways to be `disturbed`, and `OvershippedNeeds`
  says that there is no other.
* *The two counts.* Nothing tells ShopKeep of goods that are shipped, taken back or
  counted in the dashboard. An adjustment that failed is marked with status 0 and never
  tried again (`SaleorToShopKeep.py:153`). When a script died before it told ShopKeep, the
  next one subtracts the order in the shop again and tells ShopKeep once. The next
  import makes ShopKeep's count the shop's in all these cases, also
  where it is ShopKeep's that is wrong, so that goods which are gone are offered again;
  and it writes counts downloaded earlier (`Saleor.py:84`), which undoes what was sold or
  subtracted since. `FollowsShopKeep` bounds the difference by exactly these.
* *Several warehouses.* The `LEFT JOIN` returns a line once for each stock of the
  variant (`Saleor.py:1128`), and each row ships the line and subtracts from all stocks
  (hence the hypothesis `NumStocks = 1`).
* *Queue.* A `run-queue.py` that dies after `started_at` abandons its jobs for good,
  which is why `EventuallySettled` has the alternative `Abandoned`.
* *Catalogue import.* A record without a category raises in the line before the check
  that would skip it (`zoho-sync.py:149`) and ends the run, also for the records
  and pages after it, and so does every later run until it is mended. A product
  whose run died before its variant is published and can neither be bought nor
  disabled. What a run missed comes again only within 48 hours of its edit. The name
  of a category that exists is updated, its parent never. Numbers below the second
  level of categories are old ones. A dropped attribute value is not cleared. A new SKU
  with the name of another product takes that product over (`zoho-sync.py:237`), and the two
  records then overwrite each other.

## 6. Abstractions

* *Warehouse*: one product variant per warehouse state; functions on several lines of
  different variants touch disjoint rows. Countries and shipping zones are fixed.
* *OrderFulfillment*: row locks are per order line (its allocations and its
  stock); a transaction takes all it needs at once. Lock cycles, which
  PostgreSQL would break by aborting one transaction, hence do not occur in the
  model; an abort changes nothing, like `FulfillRefuse`.
* The reads of one validation (order, lines) are one step. They are separate
  queries, but only their distance from the commit matters for the properties.
  Requests name naturals: the GraphQL input type does not exclude negative
  quantities, and nothing here meets them.
* *DraftOrders*: prices are 1; `LinesCreate` adds one item; a deletion with its
  cascade is one step; another order's line stands for all other demand.
* *Payments*: amounts are whole units. Adyen is not part of the repository: it is
  what the handlers expect of it. It accepts a request and decides later, captures once per
  authorisation, refunds no more than it holds, and delivers at least once in any
  order. What the mutations tell the order (events, e-mails) is left out, and so are
  `authorize`, which nothing in the repository calls, and the other gateways.
* *CheckoutCompletion*: the amount of one payment is one charge, and what is captured of it is
  counted in charges. The checkout's lines do not change between
  the calls (an edit between them only makes `Due` differ from the payment's total,
  which the gift card does as well). The plugin captures at once. The sum of
  allocations is taken to be fresh, as Stocks has the case when it is not. An answer
  PENDING is left to OrderPayments.
* *OrderSync*: each order has one line, and orders share one variant, so that
  they compete for stock. The requests of the shop and its staff are each one step; the windows
  inside them are the subject of Stocks, DraftOrders and OrderFulfillment. One
  `OrderFulfill` ships from one warehouse. Left out are deletions and new rows
  of the variant's stocks, because the scripts are written for the one that is there,
  and edits and deletions of a draft's lines: once the sync has shipped a draft, its ordered
  quantity can change under it, which DraftOrders has without the sync. What staff do
  is limited in number only (`MaxEdits`); the theorems hold for any limit. An import starts
  `taken` and `added` afresh: what is left between the counts then is what the
  download was too old to know.
* *ZohoSync*: a record is the fields by which the script decides something; columns
  copied as they are, prices, uploads and the token are left out. One attribute per
  category and one value at a time. Of the cache there is one key. One run at a
  time: two that overlap would be two of SyncQueue's processes.
* Events, e-mails, webhooks, prices, taxes and time stamps are left out everywhere.

## 7. Not modelled, and the plan

*Hazards without a property.* A negative quantity in `OrderFulfill`
(`fulfillments.py:130`) needs requests outside the naturals. The gap between deleting an
allocation and reducing the quantity (`Saleor.py:1181`) needs a checkout inside
OrderSync's row; `OrderSync` has the two statements as steps of their own, but what
`Place` may then reserve is no more than the shop allows, and no property speaks of it.
Several stocks of one variant (`Saleor.py:1128`) break the sync at once and without any
interleaving. That `void` does not look at the payment again under its lock
(`gateway.py:50`), and that two records can write one product (`zoho-sync.py:237`), do happen:
`MoneyWithinReach` names the first as an exception, `TakenOverStays` leaves the second
(`Shared`) out, and both are described in section 5.

*Next*, if this is taken further:

1. The mutations that put a checkout together (lines, addresses, shipping, promo
   codes), which race with each other and with `CheckoutPaymentCreate`.
2. The composition of SyncQueue and OrderSync: two requests for `orders` and what
   overlapping runs do to the shop; overlapping catalogue imports.

*Left out*, with the reason:

* Background jobs: app installation, CSV export and invoices share a status life
  cycle in which one task writes one row. The one race, an installation that is
  retried while its first task is still under way (`graphql/app/mutations.py:331`),
  makes the app twice at worst.
* The GraphQL schema and resolvers: reads and input validation. Mutations that change
  the state of a modelled component are modelled with it.
* Record keeping (catalogue, accounts, pages, menus, search, feeds): one-row updates without a
  protocol.
* Plugins other than Adyen's, webhooks and e-mail: dispatched after the state changes,
  and nothing modelled depends on their outcome.
* `import_all` of `Lib/Saleor`: what it did is now `zoho-sync.py`.

Most of the repository by size is the last four, which is why the modelled part is a small
share of its lines.
