--------------------------- MODULE OrderFulfillment ---------------------------
(***************************************************************************)
(* One placed order while staff ship it, take shipments back and cancel it:*)
(* the GraphQL mutations OrderFulfill, FulfillmentCancel and OrderCancel,   *)
(* on the order's status, the quantity_fulfilled of its lines, its          *)
(* fulfillments and, through Warehouse, the stocks.                        *)
(*                                                                         *)
(* Each mutation validates what it read outside any transaction and then   *)
(* runs one transaction at READ COMMITTED.  The transaction is two steps:  *)
(* the first, when it gets its row locks, makes its last read (the         *)
(* quantities that decide the new status); the second commits.  Writes     *)
(* become visible at the commit.  Every line of an order is of another     *)
(* variant, so wh[l] is the stock of line l's variant, where the line's    *)
(* own reservation is wh[l].allocated[l].                                  *)
(***************************************************************************)
EXTENDS Warehouse, Sequences

CONSTANTS Sessions,         \* database sessions that serve staff requests
          Ordered,          \* OrderLine.quantity, fixed once the order is placed
          Tracked,          \* lines whose variant has track_inventory
          InitialQuantity,  \* the stock of each line's variant when it is placed
          Requests,         \* what OrderFulfill may be asked to ship
          MaxFulfillments   \* no OrderFulfill starts beyond so many fulfillments

NothingCounted == [s \in Stock |-> 0]

Unreserved(l) ==
  Tables({s \in Stock : InitialQuantity[l][s] > 0}, InitialQuantity[l],
         {}, [k \in Line |-> [s \in Stock |-> 0]])

ASSUME OrderAssumption ==
  /\ Ordered \in [Line -> Nat \ {0}]
  /\ Tracked \subseteq Line
  /\ InitialQuantity \in [Line -> [Stock -> Nat]]
  /\ \A l \in Tracked : Enough(InitialQuantity[l], Ordered[l])
  /\ Requests \subseteq [Stock -> [Line -> Nat]]
  /\ MaxFulfillments \in Nat

VARIABLES wh,            \* per line, the stock tables of its variant
          fulfilled,     \* OrderLine.quantity_fulfilled
          fulfillments,  \* Fulfillment rows with their FulfillmentLines, by pk
          status,        \* Order.status
          session,       \* the mutation each session is in the middle of
          overlapped     \* history: have two mutations been under way together?

vars == <<wh, fulfilled, fulfillments, status, session, overlapped>>

OrderStatus == {"unfulfilled", "partially fulfilled", "fulfilled", "canceled"}

\* What a session remembers at each step of its mutation: its input, and what
\* it has read and will use although others may have changed it.
Session ==
       [step : {"idle", "approved"}]
  \union [step : {"cleaned"}, request : Requests, seen : [Line -> Int], order : OrderStatus]
  \union [step : {"fulfilling"}, request : Requests, seen : [Line -> Int],
          order : OrderStatus, next : OrderStatus, lines : SUBSET Line]
  \union [step : {"checked"}, target : Nat, warehouse : Stock]
  \union [step : {"locked"}, target : Nat, warehouse : Stock, seen : [Line -> Int]]
  \union [step : {"restocking"}, target : Nat, warehouse : Stock, seen : [Line -> Int],
          order : OrderStatus, next : OrderStatus, lines : SUBSET Line]
  \union [step : {"canceling"}, lines : SUBSET Line]

Idle == [step |-> "idle"]

TypeOK ==
  /\ wh \in [Line -> WarehouseState]
  /\ fulfilled \in [Line -> Int]
  /\ fulfillments \in Seq([canceled : BOOLEAN, lines : [Line -> Nat]])
  /\ status \in OrderStatus
  /\ session \in [Sessions -> Session]
  /\ overlapped \in BOOLEAN

\* Checkout has just created the order and allocated its tracked lines.
Init ==
  /\ wh = [l \in Line |-> IF l \in Tracked
                            THEN Allocated(Unreserved(l), l, Ordered[l], NothingCounted)
                            ELSE Unreserved(l)]
  /\ fulfilled = [l \in Line |-> 0]
  /\ fulfillments = <<>>
  /\ status = "unfulfilled"
  /\ session = [c \in Sessions |-> Idle]
  /\ overlapped = FALSE

-----------------------------------------------------------------------------
\* update_order_status: what quantities f make of the status.
\* Bug: an order is fulfilled as soon as something is.
StatusOfAny(f) == IF SumTo(f, NumLines) <= 0 THEN "unfulfilled" ELSE "fulfilled"

StatusOf(f) ==
  CASE SumTo(f, NumLines) <= 0 -> "unfulfilled"
    [] SumTo(f, NumLines) > 0 /\ SumTo(f, NumLines) < SumTo(Ordered, NumLines)
         -> "partially fulfilled"
    [] OTHER -> "fulfilled"

\* `if status != order.status': the comparison is with the object in memory.
StatusSaved(t) == IF t.next # t.order THEN t.next ELSE status

Wanted(request, l) == SumTo([w \in Stock |-> request[w][l]], NumStocks)
LinesOf(request) == {l \in Line : Wanted(request, l) > 0}

\* decrease_stock for one line, at one warehouse of the request after another:
\* ShippedUpTo(..)[w] is the table after warehouses 1 to w.
ShippedUpTo(request, l) ==
  LET after[w \in 0 .. NumStocks] ==
        IF w = 0 THEN wh[l]
        ELSE IF request[w][l] = 0 THEN after[w - 1]
        ELSE Decreased(after[w - 1], l, request[w][l], w)
  IN  after

CanShip(request, l) ==
  \A w \in Stock : request[w][l] > 0 =>
    /\ w \in wh[l].stocks
    /\ l \in Tracked => CanDecrease(ShippedUpTo(request, l)[w - 1], l, request[w][l], w)

\* The row locks on a line, its allocations and its stock are held by a
\* session in its transaction.
InTransaction == {"fulfilling", "restocking", "canceling"}
Free(c, lines) ==
  \A d \in Sessions \ {c} :
    session[d].step \in InTransaction => session[d].lines \cap lines = {}

-----------------------------------------------------------------------------
\* OrderFulfill.clean_input: no line is shipped beyond what it has unfulfilled.
\* Bug: each warehouse's part is compared on its own.
WithinUnfulfilledEach(request) ==
  \A l \in Line, w \in Stock : request[w][l] <= Ordered[l] - fulfilled[l]

WithinUnfulfilled(request) ==
  \A l \in Line : Wanted(request, l) <= Ordered[l] - fulfilled[l]

FulfillClean(c, request) ==
  /\ session[c].step = "idle"
  /\ Len(fulfillments) < MaxFulfillments
  /\ WithinUnfulfilled(request)
  /\ LinesOf(request) # {}
  /\ session' = [session EXCEPT ![c] =
                   [step |-> "cleaned", request |-> request,
                    seen |-> fulfilled, order |-> status]]
  /\ UNCHANGED <<wh, fulfilled, fulfillments, status>>

\* What fulfill_order_line saves: the quantity read by clean_input, increased.
Fulfilled(t) == [l \in Line |-> IF l \in LinesOf(t.request)
                                  THEN t.seen[l] + Wanted(t.request, l)
                                  ELSE fulfilled[l]]

\* create_fulfillments up to update_order_status's read of the quantities.
FulfillShip(c) ==
  LET t == session[c]
  IN  /\ t.step = "cleaned"
      /\ Free(c, LinesOf(t.request))
      /\ \A l \in LinesOf(t.request) : CanShip(t.request, l)
      /\ session' = [session EXCEPT ![c] =
                       [step |-> "fulfilling", request |-> t.request, seen |-> t.seen,
                        order |-> t.order, next |-> StatusOf(Fulfilled(t)),
                        lines |-> LinesOf(t.request)]]
      /\ UNCHANGED <<wh, fulfilled, fulfillments, status>>

\* InsufficientStock on any line rolls the whole request back.
FulfillRefuse(c) ==
  LET t == session[c]
  IN  /\ t.step = "cleaned"
      /\ Free(c, LinesOf(t.request))
      /\ \E l \in LinesOf(t.request) : ~ CanShip(t.request, l)
      /\ session' = [session EXCEPT ![c] = Idle]
      /\ UNCHANGED <<wh, fulfilled, fulfillments, status>>

\* One fulfillment per warehouse that ships something, as the loop of
\* create_fulfillments adds them: AddedUpTo(..)[w] after warehouses 1 to w.
AddedUpTo(request) ==
  LET added[w \in 0 .. NumStocks] ==
        IF w = 0 THEN <<>>
        ELSE IF \A l \in Line : request[w][l] = 0 THEN added[w - 1]
        ELSE Append(added[w - 1], [canceled |-> FALSE, lines |-> request[w]])
  IN  added

NewFulfillments(request) == AddedUpTo(request)[NumStocks]

FulfillCommit(c) ==
  LET t == session[c]
  IN  /\ t.step = "fulfilling"
      /\ wh' = [l \in Line |-> IF l \in LinesOf(t.request) \cap Tracked
                                 THEN ShippedUpTo(t.request, l)[NumStocks]
                                 ELSE wh[l]]
      /\ fulfilled' = Fulfilled(t)
      /\ fulfillments' = fulfillments \o NewFulfillments(t.request)
      /\ status' = StatusSaved(t)
      /\ session' = [session EXCEPT ![c] = Idle]

-----------------------------------------------------------------------------
\* FulfillmentCancel.perform_mutation: can_edit, before the row is locked.
RestockCheck(c, f, w) ==
  /\ session[c].step = "idle"
  /\ ~ fulfillments[f].canceled
  /\ session' = [session EXCEPT ![c] =
                   [step |-> "checked", target |-> f, warehouse |-> w]]
  /\ UNCHANGED <<wh, fulfilled, fulfillments, status>>

\* cancel_fulfillment locks the fulfillment, does not look at its status
\* again, and reads the order lines without locking them.
RestockLock(c) ==
  LET t == session[c]
  IN  /\ t.step = "checked"
      /\ \A d \in Sessions \ {c} :
           session[d].step \in {"locked", "restocking"} => session[d].target # t.target
      /\ session' = [session EXCEPT ![c] =
                       [step |-> "locked", target |-> t.target,
                        warehouse |-> t.warehouse, seen |-> fulfilled]]
      /\ UNCHANGED <<wh, fulfilled, fulfillments, status>>

LinesIn(f) == {l \in Line : fulfillments[f].lines[l] > 0}

\* Bug: the lines keep the quantity_fulfilled of what came back.
KeptFulfilled(t) == fulfilled

Unfulfilled(t) == [l \in Line |-> IF l \in LinesIn(t.target)
                                    THEN t.seen[l] - fulfillments[t.target].lines[l]
                                    ELSE fulfilled[l]]

\* restock_fulfillment_lines has the stocks and has written the lines; the
\* order object is loaded only now.
Restock(c) ==
  LET t == session[c]
  IN  /\ t.step = "locked"
      /\ Free(c, LinesIn(t.target))
      /\ session' = [session EXCEPT ![c] =
                       [step |-> "restocking", target |-> t.target,
                        warehouse |-> t.warehouse, seen |-> t.seen,
                        order |-> status, next |-> StatusOf(Unfulfilled(t)),
                        lines |-> LinesIn(t.target)]]
      /\ UNCHANGED <<wh, fulfilled, fulfillments, status>>

\* increase_stock(line, warehouse, quantity, allocate=True), if tracked.
\* Bug: the goods are reserved again but do not come back.
ReservedUnreturned(l, t) ==
  IF l \in LinesIn(t.target) \cap Tracked
    THEN Tables(wh[l].stocks, wh[l].quantity, wh[l].rows,
           [wh[l].allocated EXCEPT ![l][t.warehouse] = @ + fulfillments[t.target].lines[l]])
    ELSE wh[l]

Returned(l, t) ==
  IF l \in LinesIn(t.target) \cap Tracked
    THEN Increased(wh[l], l, t.warehouse, fulfillments[t.target].lines[l], TRUE)
    ELSE wh[l]

RestockCommit(c) ==
  LET t == session[c]
  IN  /\ t.step = "restocking"
      /\ wh' = [l \in Line |-> Returned(l, t)]
      /\ fulfilled' = Unfulfilled(t)
      /\ fulfillments' = [fulfillments EXCEPT ![t.target] = [canceled |-> TRUE, lines |-> @.lines]]
      /\ status' = StatusSaved(t)
      /\ session' = [session EXCEPT ![c] = Idle]

-----------------------------------------------------------------------------
\* clean_order_cancel, on an order read outside the transaction.
CanCancel ==
  /\ \A f \in DOMAIN fulfillments : fulfillments[f].canceled
  /\ status # "canceled"

CancelCheck(c) ==
  /\ session[c].step = "idle"
  /\ CanCancel
  /\ session' = [session EXCEPT ![c] = [step |-> "approved"]]
  /\ UNCHANGED <<wh, fulfilled, fulfillments, status>>

\* cancel_order: deallocate_stock_for_order finds and locks the allocations
\* that reserve something; one that another session adds later is not found.
Holding == {l \in Line : LineTotal(wh[l], l) > 0}

CancelDeallocate(c) ==
  /\ session[c].step = "approved"
  /\ Free(c, Holding)
  /\ session' = [session EXCEPT ![c] =
                   [step |-> "canceling", lines |-> Holding]]
  /\ UNCHANGED <<wh, fulfilled, fulfillments, status>>

CancelCommit(c) ==
  /\ session[c].step = "canceling"
  /\ wh' = [l \in Line |-> OrderDeallocated(wh[l], {l} \cap session[c].lines)]
  /\ status' = "canceled"
  /\ session' = [session EXCEPT ![c] = Idle]
  /\ UNCHANGED <<fulfilled, fulfillments>>

OrderFulfill(c) ==
  \/ \E request \in Requests : FulfillClean(c, request)
  \/ FulfillShip(c)
  \/ FulfillRefuse(c)
  \/ FulfillCommit(c)

FulfillmentCancel(c) ==
  \/ \E f \in DOMAIN fulfillments, w \in Stock : RestockCheck(c, f, w)
  \/ RestockLock(c)
  \/ Restock(c)
  \/ RestockCommit(c)

OrderCancel(c) ==
  \/ CancelCheck(c)
  \/ CancelDeallocate(c)
  \/ CancelCommit(c)

UnderWay == {c \in Sessions : session[c].step # "idle"}

Next ==
  /\ \E c \in Sessions : OrderFulfill(c) \/ FulfillmentCancel(c) \/ OrderCancel(c)
  /\ overlapped' = (overlapped \/ \E c, d \in UnderWay' : c # d)

Spec == Init /\ [][Next]_vars

-----------------------------------------------------------------------------
\* What has left the warehouses for line l and has not come back.
Shipped(l) ==
  SumTo([f \in DOMAIN fulfillments |->
           IF fulfillments[f].canceled THEN 0 ELSE fulfillments[f].lines[l]],
        Len(fulfillments))

InStock(l) == SumTo(wh[l].quantity, NumStocks)
Reserved(l) == LineTotal(wh[l], l)

\* As long as mutations came one after another, the three records of what a
\* line has received agree: its quantity_fulfilled is what its active
\* fulfillments hold, within what was ordered; its reservations never exceed
\* what it is still owed; and no goods appear or vanish, those in the warehouses
\* and those shipped make up what there was at first.  Each is written by code of
\* its own (actions.py:231-236, 289-318, utils.py:289-301), from amounts read at
\* different times.
BooksAgree ==
  ~ overlapped =>
    \A l \in Line :
      /\ fulfilled[l] = Shipped(l)
      /\ Shipped(l) <= Ordered[l]
      /\ Reserved(l) + Shipped(l) <= Ordered[l]
      /\ l \in Tracked =>
           InStock(l) + Shipped(l) = SumTo(InitialQuantity[l], NumStocks)

\* One after another, the status update_order_status leaves, from two sums over
\* all lines (utils.py:153-167), says of each line what its fulfillments say:
\* unfulfilled when nothing is shipped, fulfilled when everything is.  A canceled
\* order has nothing shipped and nothing reserved.
StatusFollows ==
  ~ overlapped =>
    IF status = "canceled"
      THEN \A l \in Line : Reserved(l) = 0 /\ Shipped(l) = 0
      ELSE /\ status = "unfulfilled" <=> \A l \in Line : Shipped(l) = 0
           /\ status = "fulfilled" <=> \A l \in Line : Shipped(l) = Ordered[l]

\* Whatever runs at the same time, no quantity and no reservation is negative,
\* and no stock has more reserved than it holds.
Covered ==
  /\ TypeOK
  /\ \A l \in Line, s \in Stock : Headroom(wh[l], s) >= 0

\* The books of a line drift apart only in a commit that wrote a quantity read
\* before another commit, or that restocked a fulfillment canceled meanwhile.
DriftNeedsOverlap ==
  [][\A l \in Line : fulfilled'[l] - Shipped(l)' # fulfilled[l] - Shipped(l) =>
       \E c \in Sessions :
         \/ FulfillCommit(c) /\ session[c].seen[l] # fulfilled[l]
         \/ /\ RestockCommit(c)
            /\ \/ session[c].seen[l] # fulfilled[l]
               \/ fulfillments[session[c].target].canceled]_vars
=============================================================================
