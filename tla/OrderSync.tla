------------------------------ MODULE OrderSync ------------------------------
(***************************************************************************)
(* Planet Caravan's two-way sync with ShopKeep, the point of sale of its   *)
(* physical store: scripts/planet-caravan/adjust-inventory.py fulfills the *)
(* shop's new orders and subtracts them in ShopKeep's web pages,           *)
(* stock-sync.py copies ShopKeep's counts into the shop's stocks.  Staff   *)
(* ship, take back and count in the dashboard in between.                  *)
(*                                                                         *)
(* The scripts write with autocommit: every SQL statement is a step, and a *)
(* script that dies (an element that never loads, a lost connection, a     *)
(* restart) leaves what it has written.  Its next run is its only          *)
(* recovery; OrderSync rows say which orders it may skip.                  *)
(*                                                                         *)
(* Each order has one line, all for one variant: Line names both.          *)
(***************************************************************************)
EXTENDS Warehouse, FiniteSets, Sequences

CONSTANTS NumRunners,       \* run-queue.py processes that can be up together
          Ordered,          \* the quantity of each order
          InitialQuantity,  \* what both systems hold at first, per stock
          Counts,           \* what staff type as the quantity of a stock
          MaxEdits,         \* how often staff fulfill, take back or recount
          MaxCrashes,       \* how often a script dies
          MaxFailures,      \* how often ShopKeep's page refuses an item
          MaxSales          \* how many items the physical store sells

ASSUME OrderSyncAssumption ==
  /\ NumRunners \in Nat
  /\ Ordered \in [Line -> Nat \ {0}]
  /\ InitialQuantity \in [Stock -> Nat]
  /\ Counts \subseteq Nat
  /\ MaxEdits \in Nat
  /\ MaxCrashes \in Nat
  /\ MaxFailures \in Nat
  /\ MaxSales \in Nat

VARIABLES wh,           \* the variant's stocks and allocations
          status,       \* Order.status, or "new" before there is an order
          fulfilled,    \* OrderLine.quantity_fulfilled
          fulfillments, \* the order's Fulfillment rows with their FulfillmentLines
          synced,       \* the statuses of the order's OrderSync rows
          shopkeep,     \* ShopKeep's count of the item
          runner,       \* where each process is
          crashes, failures, sales, edits

\* History, for the properties only: the orders a process died with, two had at
\* once, or staff shipped while the sync had not set their quantity_fulfilled;
\* and what, since the last import, the shop's stock has lost, and what it has
\* gained on ShopKeep, that the other was never told of.
VARIABLES disturbed, taken, added

shop == <<wh, status, fulfilled, fulfillments>>
counters == <<crashes, failures, sales, edits>>
history == <<disturbed, taken, added>>
vars == <<wh, status, fulfilled, fulfillments, synced, shopkeep, runner, counters, history>>

Runners == 1 .. NumRunners

\* A process that syncs orders goes through the rows its query returned (`todo'
\* of `orders'), with the fulfillment it has for each order in `ids' (0 for none
\* yet); then through the orders in ShopKeep.
InRow == {"fulfillment", "line", "fulfilled", "allocation", "quantity"}
Looping == {"rows"} \union InRow

Process ==
       [at : {"idle"}]
  \union [at : {"rows"}, todo : SUBSET (Line \X Stock), orders : SUBSET Line,
          ids : [Line -> Nat]]
  \union [at : InRow, row : Line \X Stock, todo : SUBSET (Line \X Stock),
          orders : SUBSET Line, ids : [Line -> Nat]]
  \union [at : {"adjust"}, todo : SUBSET Line]
  \union [at : {"mark"}, order : Line, okay : BOOLEAN, todo : SUBSET Line]
  \union [at : {"import"}, file : Int]

Idle == [at |-> "idle"]
Rows(todo, orders, ids) == [at |-> "rows", todo |-> todo, orders |-> orders, ids |-> ids]
OfRow(at, row, todo, orders, ids) ==
  [at |-> at, row |-> row, todo |-> todo, orders |-> orders, ids |-> ids]

Fulfillment == [canceled : BOOLEAN, lines : Seq(Nat)]

TypeOK ==
  /\ wh \in WarehouseState
  /\ status \in [Line -> {"new", "draft", "unfulfilled", "partially fulfilled",
                          "fulfilled", "canceled"}]
  /\ fulfilled \in [Line -> Int]
  /\ fulfillments \in [Line -> Seq(Fulfillment)]
  /\ synced \in [Line -> SUBSET {0, 1}]
  /\ shopkeep \in Int
  /\ runner \in [Runners -> Process]
  /\ crashes \in 0 .. MaxCrashes /\ failures \in 0 .. MaxFailures
  /\ sales \in 0 .. MaxSales /\ edits \in 0 .. MaxEdits
  /\ disturbed \in SUBSET Line /\ taken \in Int /\ added \in Int

Init ==
  /\ wh = Tables(Stock, InitialQuantity, {}, [l \in Line |-> [s \in Stock |-> 0]])
  /\ status = [l \in Line |-> "new"]
  /\ fulfilled = [l \in Line |-> 0]
  /\ fulfillments = [l \in Line |-> <<>>]
  /\ synced = [l \in Line |-> {}]
  /\ shopkeep = SumTo(InitialQuantity, NumStocks)
  /\ runner = [r \in Runners |-> Idle]
  /\ crashes = 0 /\ failures = 0 /\ sales = 0 /\ edits = 0
  /\ disturbed = {} /\ taken = 0 /\ added = 0

-----------------------------------------------------------------------------
\* The orders a process is working on; those among them whose row it has passed,
\* where a process at one of `places' has not passed the row it is at.
Working(r) ==
  LET p == runner[r]
  IN  CASE p.at \in Looping -> p.orders
        [] p.at = "adjust" -> p.todo
        [] p.at = "mark" -> p.todo \union {p.order}
        [] OTHER -> {}

Past(r, places) ==
  LET p == runner[r]
  IN  {l \in Working(r) : /\ p.at \in Looping => \A row \in p.todo : row[1] # l
                          /\ p.at \in places => p.row[1] # l}

\* The sync has set the order's quantity_fulfilled.
Saved(l) ==
  \/ synced[l] # {}
  \/ \E r \in Runners : l \in Past(r, {"fulfillment", "line", "fulfilled"})

\* What a process has subtracted in the shop and ShopKeep has yet to hear.
Untold(r) ==
  LET p == runner[r]
      orders == Past(r, InRow) \ (IF p.at = "mark" THEN {p.order} ELSE {})
  IN  SumTo([l \in Line |-> IF l \in orders THEN Ordered[l] ELSE 0], NumLines)

Owed == SumTo([r \in Runners |-> Untold(r)], NumRunners)

-----------------------------------------------------------------------------
\* The shop's own requests, each a step; Stocks, DraftOrders and OrderFulfillment
\* take them apart.
Counted == [s \in Stock |-> Total(wh, s)]

\* An order is placed in the checkout, or from a draft: reserve it, or refuse.
Place(l) ==
  /\ status[l] \in {"new", "draft"}
  /\ CanAllocate(wh, l, Ordered[l], Counted)
  /\ wh' = Allocated(wh, l, Ordered[l], Counted)
  /\ status' = [status EXCEPT ![l] = "unfulfilled"]
  /\ UNCHANGED <<fulfilled, fulfillments, synced, shopkeep, runner, counters, history>>

Draft(l) ==
  /\ status[l] = "new"
  /\ status' = [status EXCEPT ![l] = "draft"]
  /\ UNCHANGED <<wh, fulfilled, fulfillments, synced, shopkeep, runner, counters, history>>

\* OrderCancel: can_cancel asks for no fulfillment that is not canceled.
Cancel(l) ==
  /\ status[l] \notin {"new", "draft", "canceled"}
  /\ \A f \in DOMAIN fulfillments[l] : fulfillments[l][f].canceled
  /\ wh' = OrderDeallocated(wh, {l})
  /\ status' = [status EXCEPT ![l] = "canceled"]
  /\ UNCHANGED <<fulfilled, fulfillments, synced, shopkeep, runner, counters, history>>

\* update_order_status.
StatusOf(l, quantity) ==
  CASE quantity <= 0 -> "unfulfilled"
    [] quantity > 0 /\ quantity < Ordered[l] -> "partially fulfilled"
    [] OTHER -> "fulfilled"

\* OrderFulfill in the dashboard, from one warehouse; it does not look at the
\* order's status, only at what is unfulfilled.
Unfulfilled(l) == 1 .. Ordered[l] - fulfilled[l]

OrderFulfill(l) ==
  /\ status[l] # "new"
  /\ edits < MaxEdits
  /\ edits' = edits + 1
  /\ \E n \in Unfulfilled(l), w \in Stock :
       /\ CanDecrease(wh, l, n, w)
       /\ wh' = Decreased(wh, l, n, w)
       /\ fulfilled' = [fulfilled EXCEPT ![l] = @ + n]
       /\ fulfillments' = [fulfillments EXCEPT ![l] =
                             Append(@, [canceled |-> FALSE, lines |-> <<n>>])]
       /\ status' = [status EXCEPT ![l] = StatusOf(l, fulfilled[l] + n)]
       /\ taken' = taken + n
  /\ disturbed' = IF Saved(l) THEN disturbed ELSE disturbed \union {l}
  /\ UNCHANGED <<synced, shopkeep, runner, crashes, failures, sales, added>>

Quantity(f) == SumTo(f.lines, Len(f.lines))

\* FulfillmentCancel restocks every line of the fulfillment.  Each line comes with
\* its own copy of the order line, and bulk_update keeps what the first one says
\* of quantity_fulfilled; the lines have no order.
FulfillmentCancel(l) ==
  /\ edits < MaxEdits
  /\ edits' = edits + 1
  /\ \E f \in DOMAIN fulfillments[l], w \in Stock :
       LET old == fulfillments[l][f]
       IN  /\ ~ old.canceled
           /\ IF old.lines = <<>>
                THEN UNCHANGED <<wh, fulfilled>>
                ELSE /\ CanIncrease(wh, l, w, Quantity(old), TRUE)
                     /\ wh' = Increased(wh, l, w, Quantity(old), TRUE)
                     /\ \E i \in DOMAIN old.lines :
                          fulfilled' = [fulfilled EXCEPT ![l] = @ - old.lines[i]]
           /\ fulfillments' = [fulfillments EXCEPT ![l][f].canceled = TRUE]
           /\ added' = added + Quantity(old)
  /\ status' = [status EXCEPT ![l] = StatusOf(l, fulfilled'[l])]
  /\ UNCHANGED <<synced, shopkeep, runner, crashes, failures, sales, disturbed, taken>>

\* productVariantStocksUpdate.
StaffSets(s) ==
  /\ edits < MaxEdits
  /\ edits' = edits + 1
  /\ \E n \in Counts :
       /\ wh' = QuantitySet(wh, s, n)
       /\ taken' = taken + Positive(wh.quantity[s] - n)
       /\ added' = added + Positive(n - wh.quantity[s])
  /\ UNCHANGED <<status, fulfilled, fulfillments, synced, shopkeep, runner, crashes,
                 failures, sales, disturbed>>

\* The physical store sells one.
StoreSells ==
  /\ sales < MaxSales
  /\ shopkeep > 0
  /\ shopkeep' = shopkeep - 1
  /\ sales' = sales + 1
  /\ added' = added + 1
  /\ UNCHANGED <<shop, synced, runner, crashes, failures, edits, disturbed, taken>>

-----------------------------------------------------------------------------
\* get_adjustments, statement by statement.  Its query wants every order that
\* has no OrderSync row; it does not look at the status.
\* Bugs: forget the rows of earlier runs; or skip what looks done.
EveryOrder == {l \in Line : status[l] # "new"}
OpenOrders == {l \in Line : status[l] \in {"draft", "unfulfilled"} /\ synced[l] = {}}

ToSync == {l \in Line : status[l] # "new" /\ synced[l] = {}}

\* LEFT JOIN warehouse_stock: one row for each stock of the variant.
StartSync(r) ==
  /\ runner[r].at = "idle"
  /\ ToSync # {}
  /\ runner' = [runner EXCEPT ![r] =
                   Rows(ToSync \X wh.stocks, ToSync, [l \in Line |-> 0])]
  /\ disturbed' = disturbed \union {l \in ToSync : \E q \in Runners : l \in Working(q)}
  /\ UNCHANGED <<shop, synced, shopkeep, counters, taken, added>>

\* The process goes on to statement `at' with the same row.
Goes(r, at) ==
  LET p == runner[r]
  IN  runner' = [runner EXCEPT ![r] = OfRow(at, p.row, p.todo, p.orders, p.ids)]

\* `for item in items', in whatever order the database returned the rows; and
\* which fulfillment of the order the SELECT finds, canceled or not.
NextRow(r) ==
  LET p == runner[r]
  IN  /\ p.at = "rows"
      /\ \E row \in p.todo :
           LET l == row[1]
               found == IF p.ids[l] # 0 THEN {p.ids[l]} ELSE 1 .. Len(fulfillments[l])
           IN  \/ \E f \in found :
                    runner' = [runner EXCEPT ![r] =
                       OfRow("line", row, p.todo \ {row}, p.orders, [p.ids EXCEPT ![l] = f])]
               \/ /\ found = {}
                  /\ runner' = [runner EXCEPT ![r] =
                       OfRow("fulfillment", row, p.todo \ {row}, p.orders, p.ids)]
      /\ UNCHANGED <<shop, synced, shopkeep, counters, history>>

CreateFulfillment(r) ==
  LET p == runner[r]
      l == p.row[1]
  IN  /\ p.at = "fulfillment"
      /\ fulfillments' = [fulfillments EXCEPT ![l] =
                            Append(@, [canceled |-> FALSE, lines |-> <<>>])]
      /\ runner' = [runner EXCEPT ![r] =
           OfRow("line", p.row, p.todo, p.orders, [p.ids EXCEPT ![l] = Len(fulfillments'[l])])]
      /\ UNCHANGED <<wh, status, fulfilled, synced, shopkeep, counters, history>>

\* INSERT INTO order_fulfillmentline.
WithLine(f, n) == [canceled |-> f.canceled, lines |-> Append(f.lines, n)]

InsertLine(r) ==
  LET p == runner[r]
      l == p.row[1]
  IN  /\ p.at = "line"
      /\ fulfillments' = [fulfillments EXCEPT ![l][p.ids[l]] = WithLine(@, Ordered[l])]
      /\ Goes(r, "fulfilled")
      /\ UNCHANGED <<wh, status, fulfilled, synced, shopkeep, counters, history>>

SetFulfilled(r) ==
  LET row == runner[r].row
  IN  /\ runner[r].at = "fulfilled"
      /\ fulfilled' = [fulfilled EXCEPT ![row[1]] = Ordered[row[1]]]
      /\ Goes(r, "allocation")
      /\ UNCHANGED <<wh, status, fulfillments, synced, shopkeep, counters, history>>

DeleteAllocation(r) ==
  LET row == runner[r].row
  IN  /\ runner[r].at = "allocation"
      /\ wh' = Tables(wh.stocks, wh.quantity, wh.rows \ {row},
                      [wh.allocated EXCEPT ![row[1]][row[2]] = 0])
      /\ Goes(r, "quantity")
      /\ UNCHANGED <<status, fulfilled, fulfillments, synced, shopkeep, counters, history>>

\* UPDATE warehouse_stock ... WHERE product_variant_id: every stock of it.
SubtractedTo0(n) ==
  [s \in Stock |-> IF s \in wh.stocks THEN Positive(wh.quantity[s] - n) ELSE wh.quantity[s]]

UpdateQuantity(r) ==
  LET p == runner[r]
  IN  /\ p.at = "quantity"
      /\ wh' = Tables(wh.stocks, SubtractedTo0(Ordered[p.row[1]]), wh.rows, wh.allocated)
      /\ runner' = [runner EXCEPT ![r] = Rows(p.todo, p.orders, p.ids)]
      /\ UNCHANGED <<status, fulfilled, fulfillments, synced, shopkeep, counters, history>>

\* All rows done: UPDATE order_order SET status = 'fulfilled'.
SetStatus(r) ==
  /\ runner[r].at = "rows"
  /\ runner[r].todo = {}
  /\ status' = [l \in Line |-> IF l \in runner[r].orders THEN "fulfilled" ELSE status[l]]
  /\ runner' = [runner EXCEPT ![r] = [at |-> "adjust", todo |-> runner[r].orders]]
  /\ UNCHANGED <<wh, fulfilled, fulfillments, synced, shopkeep, counters, history>>

-----------------------------------------------------------------------------
\* change_inventories: the adjustment of one order, summed over its rows, is
\* typed into ShopKeep; an exception on the way is caught.
Marks(r, l, okay) ==
  runner' = [runner EXCEPT ![r] = [at |-> "mark", order |-> l, okay |-> okay,
                                   todo |-> runner[r].todo \ {l}]]

\* Bug: an adjustment of one item for an order of several.
AdjustmentOfOne(l) == 1

\* No step deletes or adds a stock, so the rows are still as many.
Adjustment(l) == Ordered[l] * Cardinality(wh.stocks)

Adjust(r) ==
  /\ runner[r].at = "adjust"
  /\ \E l \in runner[r].todo :
       /\ shopkeep' = shopkeep - Adjustment(l)
       /\ Marks(r, l, TRUE)
  /\ UNCHANGED <<shop, synced, counters, history>>

AdjustFails(r) ==
  /\ runner[r].at = "adjust"
  /\ failures < MaxFailures
  /\ \E l \in runner[r].todo :
       /\ Marks(r, l, FALSE)
       /\ taken' = taken + Ordered[l]
  /\ failures' = failures + 1
  /\ UNCHANGED <<shop, synced, shopkeep, crashes, sales, edits, disturbed, added>>

\* mark_adjusted: INSERT INTO order_ordersync, with status 1 or 0.
\* Bug: an order that failed gets no row, "so that it is retried".
MarkedIfOkay(l, okay) == [synced EXCEPT ![l] = IF okay THEN @ \union {1} ELSE @]
Marked(l, okay) == [synced EXCEPT ![l] = @ \union {IF okay THEN 1 ELSE 0}]

MarkAdjusted(r) ==
  LET p == runner[r]
  IN  /\ p.at = "mark"
      /\ synced' = Marked(p.order, p.okay)
      /\ runner' = [runner EXCEPT ![r] =
                      IF p.todo = {} THEN Idle ELSE [at |-> "adjust", todo |-> p.todo]]
      /\ UNCHANGED <<shop, shopkeep, counters, history>>

-----------------------------------------------------------------------------
\* stock-sync.py: download the counts, and later write them to the stocks of
\* the first warehouse.
StartImport(r) ==
  /\ runner[r].at = "idle"
  /\ runner' = [runner EXCEPT ![r] = [at |-> "import", file |-> shopkeep]]
  /\ UNCHANGED <<shop, synced, shopkeep, counters, history>>

\* update_stock.  It undoes what was sold, or subtracted in both systems, since
\* the download.
Import(r) ==
  LET file == runner[r].file
  IN  /\ runner[r].at = "import"
      /\ wh' = IF 1 \in wh.stocks THEN QuantitySet(wh, 1, Positive(file)) ELSE wh
      /\ taken' = 0
      /\ added' = Positive(file) - Positive(shopkeep - Owed)
      /\ runner' = [runner EXCEPT ![r] = Idle]
      /\ UNCHANGED <<status, fulfilled, fulfillments, synced, shopkeep, counters, disturbed>>

\* The process dies, wherever it is.
Crash(r) ==
  /\ runner[r].at # "idle"
  /\ crashes < MaxCrashes
  /\ crashes' = crashes + 1
  /\ runner' = [runner EXCEPT ![r] = Idle]
  /\ disturbed' = disturbed \union Working(r)
  /\ taken' = taken + Untold(r)
  /\ UNCHANGED <<shop, synced, shopkeep, failures, sales, edits, added>>

Proceed(r) ==
  \/ NextRow(r)
  \/ CreateFulfillment(r)
  \/ InsertLine(r)
  \/ SetFulfilled(r)
  \/ DeleteAllocation(r)
  \/ UpdateQuantity(r)
  \/ SetStatus(r)
  \/ Adjust(r)
  \/ AdjustFails(r)
  \/ MarkAdjusted(r)
  \/ Import(r)

Next ==
  \/ \E l \in Line : \/ Place(l) \/ Draft(l) \/ Cancel(l)
                     \/ OrderFulfill(l) \/ FulfillmentCancel(l)
  \/ \E s \in Stock : StaffSets(s)
  \/ StoreSells
  \/ \E r \in Runners : StartSync(r) \/ StartImport(r) \/ Proceed(r) \/ Crash(r)

Spec == Init /\ [][Next]_vars

\* Scripts that are up make progress; orders are synced again and again, each
\* time run-queue.py is scheduled and finds an `orders' job.
Fairness == \A r \in Runners : WF_vars(Proceed(r)) /\ SF_vars(StartSync(r))

FairSpec == Spec /\ Fairness

-----------------------------------------------------------------------------
\* What the order's active fulfillments hold.
Shipped(l) ==
  SumTo([f \in DOMAIN fulfillments[l] |->
           IF fulfillments[l][f].canceled THEN 0 ELSE Quantity(fulfillments[l][f])],
        Len(fulfillments[l]))

\* An OrderSync row ends an order's part in the sync, whatever crashes and
\* failures there were: no step of a process but one that had it selected before
\* touches the order again.  Only staff do, in the dashboard.
MarkedNeverAgain ==
  [][\A l \in Line :
       synced[l] # {} /\ (\A r \in Runners : l \notin Working(r)) /\ runner' # runner =>
         /\ fulfillments'[l] = fulfillments[l]
         /\ fulfilled'[l] = fulfilled[l]
         /\ status'[l] = status[l]
         /\ wh'.allocated[l] = wh.allocated[l]
         /\ \A r \in Runners : l \notin Working(r)']_vars

\* More than was ordered is shipped only of an order that a script died with, that
\* two scripts had at once, or that staff shipped in the dashboard before the sync
\* had set its quantity_fulfilled.  Otherwise the row that says so is always
\* written before the next run looks for it, and whatever staff take back and ship
\* again afterwards stays within the order.
OvershippedNeeds ==
  /\ TypeOK
  /\ \A l \in Line : Shipped(l) > Ordered[l] => l \in disturbed

\* The shop's stock and ShopKeep's count, once it has been told what the scripts
\* that are up have subtracted, differ by no more than what changed one of them
\* alone since the last import: goods staff shipped, took back or counted in the
\* dashboard, sales in the store, and orders whose adjustment failed or was in the
\* hands of a script that died.
FollowsShopKeep ==
  LET stock == SumTo(wh.quantity, NumStocks)
      count == Positive(shopkeep - Owed)
  IN  count - taken <= stock /\ stock <= count + added

\* Every order gets its OrderSync row in the end, if crashes stop.
EventuallyMarked == \A l \in Line : status[l] # "new" ~> synced[l] # {}
=============================================================================
