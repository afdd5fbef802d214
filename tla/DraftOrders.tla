----------------------------- MODULE DraftOrders -----------------------------
(***************************************************************************)
(* One draft order while staff edit it, place it, cancel it, delete it and *)
(* mark it as paid: the mutations of graphql/order/mutations/              *)
(* draft_orders.py and bulk_mutations/draft_orders.py, with OrderCancel    *)
(* and OrderMarkAsPaid of orders.py.                                       *)
(*                                                                         *)
(* No mutation locks the order.  Each reads it, checks what it read and    *)
(* then writes, so a mutation is a sequence of steps with a session's      *)
(* memory in between; a step that is one statement or one transaction is   *)
(* one action.  An error ends the mutation and keeps what it committed.    *)
(* Prices are 1, so the order's total is the number of items.              *)
(*                                                                         *)
(* Order lines are numbered by primary key, and each number stands for a   *)
(* line of one variant; the last one is the line of another order.  The    *)
(* stock tables of variant v are wh[v].                                    *)
(***************************************************************************)
EXTENDS Warehouse, FiniteSets, FiniteSetsExt

CONSTANTS Sessions,         \* database sessions that serve staff requests
          Variants,         \* the product variants
          TrackedVariants,  \* those with track_inventory
          VariantOf,        \* the variant of each order line
          FirstLines,       \* the lines the draft has to begin with
          InitialQuantity,  \* the stock of each variant
          Quantities,       \* what DraftOrderLineUpdate may be asked for
          MaxMutations      \* how many mutations staff ask for

OtherLine == NumLines
OwnLines == Line \ {OtherLine}

ASSUME DraftAssumption ==
  /\ TrackedVariants \subseteq Variants
  /\ VariantOf \in [Line -> Variants]
  /\ FirstLines \subseteq OwnLines
  /\ \A k, l \in FirstLines : VariantOf[k] = VariantOf[l] => k = l
  /\ InitialQuantity \in [Variants -> [Stock -> Nat]]
  /\ Quantities \subseteq Nat \ {0}
  /\ MaxMutations \in Nat

VARIABLES status,    \* Order.status, or "deleted" when there is no such row
          lines,     \* the OrderLine rows of the order
          gone,      \* the lines that were deleted; their keys are not used again
          quantity,  \* OrderLine.quantity, 0 where there is no row
          total,     \* Order.total
          payments,  \* how many manual payments the order has
          wh,        \* per variant, its stocks and allocations
          session,   \* the mutation each session is in the middle of
          asked,     \* how many mutations have begun
          past       \* what has happened, for the properties only

vars == <<status, lines, gone, quantity, total, payments, wh, session, asked, past>>

OrderStatus == {"draft", "unfulfilled", "canceled", "deleted"}

Session ==
       [step : {"idle", "canceling", "paying", "deleting", "reverting",
                "recalculating"}]
  \union [step : {"validated"}, total : Nat]
  \union [step : {"placing"}, want : [OwnLines -> Nat], todo : SUBSET OwnLines]
  \union [step : {"adding"}, variant : Variants]
  \union [step : {"saving"}, line : OwnLines, quantity : Nat \ {0}]
  \union [step : {"creating"}, variant : Variants]
  \union [step : {"removing"}, lines : SUBSET OwnLines, bulk : BOOLEAN]
  \union [step : {"totaling"}, total : Nat]

Idle == [step |-> "idle"]

TypeOK ==
  /\ status \in OrderStatus
  /\ lines \subseteq OwnLines
  /\ gone \subseteq OwnLines \ lines
  /\ quantity \in [OwnLines -> Nat]
  /\ \A l \in OwnLines : l \in lines <=> quantity[l] > 0
  /\ total \in Nat
  /\ payments \in Nat
  /\ wh \in [Variants -> WarehouseState]
  /\ session \in [Sessions -> Session]
  /\ asked \in 0 .. MaxMutations
  /\ past \in [overlapped : BOOLEAN, bulk : BOOLEAN, placed : 0 .. 2]

Unreserved(v) ==
  Tables({s \in Stock : InitialQuantity[v][s] > 0}, InitialQuantity[v],
         {}, [l \in Line |-> [s \in Stock |-> 0]])

SumOfLines(q) == SumTo(q, NumLines - 1)

\* DraftOrderCreate has made the order and recalculated it.
Init ==
  /\ status = "draft"
  /\ lines = FirstLines
  /\ gone = {}
  /\ quantity = [l \in OwnLines |-> IF l \in FirstLines THEN 1 ELSE 0]
  /\ total = SumOfLines(quantity)
  /\ payments = 0
  /\ wh = [v \in Variants |-> Unreserved(v)]
  /\ session = [c \in Sessions |-> Idle]
  /\ asked = 0
  /\ past = [overlapped |-> FALSE, bulk |-> FALSE, placed |-> 0]

-----------------------------------------------------------------------------
Exists == status # "deleted"
Items == <<lines, gone, quantity>>

\* Session c takes a step of its mutation and remembers m for the next one; bulk
\* and placed are what has happened by now.
Overlaps(c) == past.overlapped \/ \E d \in Sessions \ {c} : session[d] # Idle
Step(c, m, bulk, placed) ==
  /\ session' = [session EXCEPT ![c] = m]
  /\ asked' = IF session[c] = Idle THEN asked + 1 ELSE asked
  /\ past' = [overlapped |-> Overlaps(c), bulk |-> bulk, placed |-> placed]
Remember(c, m) == Step(c, m, past.bulk, past.placed)
Finish(c) == Remember(c, Idle)

MayAsk(c) == session[c] = Idle /\ asked < MaxMutations

\* A check at the start of a mutation, and an error in the middle of one.
Begin(c, s) ==
  /\ MayAsk(c)
  /\ Remember(c, s)
  /\ UNCHANGED <<status, lines, gone, quantity, total, payments, wh>>
Quit(c) == Finish(c) /\ UNCHANGED <<status, lines, gone, quantity, total, payments, wh>>

-----------------------------------------------------------------------------
\* validate_draft_order, line by line.
Validates ==
  /\ lines # {}
  /\ \A l \in lines : VariantOf[l] \in TrackedVariants =>
       /\ wh[VariantOf[l]].stocks # {}
       /\ quantity[l] <= AvailableQuantity(wh[VariantOf[l]])

\* DraftOrderComplete reads the order, whatever its status is.
CompleteValidate(c) == Exists /\ Validates /\ Begin(c, [step |-> "validated", total |-> total])

\* order.save() writes every column, or the row when it is no longer there;
\* the loop over the lines then reads them once.
CompleteSave(c) ==
  /\ session[c].step = "validated"
  /\ status' = "unfulfilled"
  /\ total' = session[c].total
  /\ Step(c, [step |-> "placing", want |-> quantity,
              todo |-> {l \in lines : VariantOf[l] \in TrackedVariants}],
          past.bulk, Least(2, past.placed + 1))
  /\ UNCHANGED <<Items, payments, wh>>

Totals(v) == [s \in Stock |-> Total(wh[v], s)]

\* allocate_stock(line, country, line.quantity), in a transaction of its own.
\* Bugs: reserve what there is; or for a line that has been deleted.
CanReservePartly(l, n) ==
  l \in lines /\ CanAllocatePartly(wh[VariantOf[l]], l, n, Totals(VariantOf[l]))
CanReserveForAny(l, n) == CanAllocate(wh[VariantOf[l]], l, n, Totals(VariantOf[l]))

CanReserve(l, n) ==
  /\ l \in lines  \* else the foreign key of the new rows fails
  /\ CanAllocate(wh[VariantOf[l]], l, n, Totals(VariantOf[l]))

CompleteReserve(c) ==
  LET t == session[c]
      l == Min(t.todo)
      v == VariantOf[l]
  IN  /\ t.step = "placing"
      /\ t.todo # {}
      /\ CanReserve(l, t.want[l])
      /\ wh' = [wh EXCEPT ![v] = Allocated(wh[v], l, t.want[l], Totals(v))]
      /\ Remember(c, [step |-> "placing", want |-> t.want, todo |-> t.todo \ {l}])
      /\ UNCHANGED <<status, Items, total, payments>>

\* InsufficientStock or an IntegrityError: the order stays placed.
CompleteFail(c) ==
  LET t == session[c]
  IN  /\ t.step = "placing"
      /\ t.todo # {}
      /\ ~ CanReserve(Min(t.todo), t.want[Min(t.todo)])
      /\ Quit(c)

CompleteEnd(c) == session[c].step = "placing" /\ session[c].todo = {} /\ Quit(c)

DraftOrderComplete(c) ==
  CompleteValidate(c) \/ CompleteSave(c) \/ CompleteReserve(c) \/ CompleteFail(c) \/ CompleteEnd(c)

-----------------------------------------------------------------------------
\* "Only draft orders can be edited.", of the order as it was read.
\* Bug: anything but a canceled order can be.
EditableOpen == status \in {"draft", "unfulfilled"}
Editable == status = "draft"

\* DraftOrderLinesCreate, of one item of one variant: add_variant_to_draft_order
\* reads the line of the variant, if there is one, and saves a new quantity.
LinesCreate(c, v) == Editable /\ Begin(c, [step |-> "adding", variant |-> v])

AddRead(c) ==
  LET v == session[c].variant
      own == {l \in lines : VariantOf[l] = v}
  IN  /\ session[c].step = "adding"
      /\ \/ /\ own = {}
            /\ Remember(c, [step |-> "creating", variant |-> v])
         \/ \E l \in OwnLines :
              /\ own = {l}
              /\ Remember(c, [step |-> "saving", line |-> l, quantity |-> quantity[l] + 1])
         \/ /\ \E k, l \in own : k # l  \* MultipleObjectsReturned
            /\ Finish(c)
      /\ UNCHANGED <<status, Items, total, payments, wh>>

\* order.lines.create(): a row with a new key, as long as there is a number for
\* one more line of the variant.
AddLine(c) ==
  /\ session[c].step = "creating"
  /\ Exists
  /\ \E l \in OwnLines \ (lines \union gone) :
       /\ VariantOf[l] = session[c].variant
       /\ lines' = lines \union {l}
       /\ quantity' = [quantity EXCEPT ![l] = 1]
  /\ Remember(c, [step |-> "recalculating"])
  /\ UNCHANGED <<status, gone, total, payments, wh>>

AddLineToNothing(c) == session[c].step = "creating" /\ ~ Exists /\ Quit(c)

\* DraftOrderLineUpdate has read the line and its order.
LineUpdate(c, l, n) ==
  /\ Editable
  /\ l \in lines
  /\ Begin(c, [step |-> "saving", line |-> l, quantity |-> n])

\* line.save(update_fields=["quantity"]), which must find the row.
SaveQuantity(c) ==
  LET t == session[c]
  IN  /\ t.step = "saving"
      /\ t.line \in lines
      /\ quantity' = [quantity EXCEPT ![t.line] = t.quantity]
      /\ Remember(c, [step |-> "recalculating"])
      /\ UNCHANGED <<status, lines, gone, total, payments, wh>>

SaveNoRow(c) == session[c].step = "saving" /\ session[c].line \notin lines /\ Quit(c)

\* DraftOrderLineDelete of one line, or DraftOrderLinesBulkDelete of some.
LineDelete(c, l) ==
  l \in lines /\ Editable /\ Begin(c, [step |-> "removing", lines |-> {l}, bulk |-> FALSE])
LinesBulkDelete(c, ls) ==
  /\ ls \subseteq lines
  /\ Editable
  /\ Begin(c, [step |-> "removing", lines |-> ls, bulk |-> TRUE])

\* The allocations of lines ls go with them.
WithoutAllocations(ls) ==
  [v \in Variants |->
     Tables(wh[v].stocks, wh[v].quantity,
            {r \in wh[v].rows : r[1] \notin ls},
            [l \in Line |-> IF l \in ls THEN [s \in Stock |-> 0] ELSE wh[v].allocated[l]])]

DeleteLines(ls) ==
  /\ lines' = lines \ ls
  /\ gone' = gone \union (ls \cap lines)
  /\ quantity' = [l \in OwnLines |-> IF l \in ls THEN 0 ELSE quantity[l]]
  /\ wh' = WithoutAllocations(ls)

\* Only the single deletion goes on to recalculate the order.
RemoveLines(c) ==
  LET t == session[c]
  IN  /\ t.step = "removing"
      /\ DeleteLines(t.lines)
      /\ Step(c, IF t.bulk THEN Idle ELSE [step |-> "recalculating"],
              past.bulk \/ t.bulk, past.placed)
      /\ UNCHANGED <<status, total, payments>>

\* recalculate_order reads all lines and then saves the total.
Recalculated == SumOfLines(quantity)

RecalculateRead(c) ==
  /\ session[c].step = "recalculating"
  /\ Remember(c, [step |-> "totaling", total |-> Recalculated])
  /\ UNCHANGED <<status, Items, total, payments, wh>>

RecalculateSave(c) ==
  /\ session[c].step = "totaling"
  /\ total' = IF Exists THEN session[c].total ELSE total
  /\ Step(c, Idle, FALSE, past.placed)
  /\ UNCHANGED <<status, Items, payments, wh>>

EditLines(c) ==
  \/ \E v \in Variants : LinesCreate(c, v)
  \/ AddRead(c)
  \/ AddLine(c)
  \/ AddLineToNothing(c)
  \/ \E l \in OwnLines, n \in Quantities : LineUpdate(c, l, n)
  \/ SaveQuantity(c)
  \/ SaveNoRow(c)
  \/ \E l \in OwnLines : LineDelete(c, l)
  \/ \E ls \in SUBSET OwnLines : LinesBulkDelete(c, ls)
  \/ RemoveLines(c)
  \/ RecalculateRead(c)
  \/ RecalculateSave(c)

-----------------------------------------------------------------------------
\* DraftOrderUpdate checks for a draft, then in one transaction saves every
\* column with the status DRAFT and recalculates the order.
UpdateCheck(c) == Exists /\ Editable /\ Begin(c, [step |-> "reverting"])

UpdateSave(c) ==
  /\ session[c].step = "reverting"
  /\ status' = "draft"
  /\ total' = SumOfLines(quantity)
  /\ Step(c, Idle, FALSE, past.placed)
  /\ UNCHANGED <<Items, payments, wh>>

\* A row with payments cannot be deleted; the lines go with the order.
DeleteOrder ==
  /\ payments = 0
  /\ status' = "deleted"
  /\ DeleteLines(lines)

\* DraftOrderDelete looks at no status; DraftOrderBulkDelete does, beforehand.
DraftOrderDelete(c) ==
  /\ MayAsk(c)
  /\ Exists
  /\ DeleteOrder
  /\ Finish(c)
  /\ UNCHANGED <<total, payments>>

BulkDeleteCheck(c) == status = "draft" /\ Begin(c, [step |-> "deleting"])

BulkDelete(c) ==
  /\ session[c].step = "deleting"
  /\ Finish(c)
  /\ IF payments = 0 THEN DeleteOrder ELSE UNCHANGED <<status, Items, wh>>
  /\ UNCHANGED <<total, payments>>

\* clean_order_cancel, of the order as it was read, and cancel_order.
CanCancel == status \notin {"draft", "canceled", "deleted"}

CancelCheck(c) == CanCancel /\ Begin(c, [step |-> "canceling"])

Cancel(c) ==
  /\ session[c].step = "canceling"
  /\ Finish(c)
  /\ IF Exists
       THEN /\ status' = "canceled"
            /\ wh' = [v \in Variants |-> OrderDeallocated(wh[v], lines)]
       ELSE UNCHANGED <<status, wh>>
  /\ UNCHANGED <<Items, total, payments>>

\* clean_mark_order_as_paid, and mark_order_as_paid without looking again.
CanMarkAsPaid == Exists /\ payments = 0

PayCheck(c) == CanMarkAsPaid /\ Begin(c, [step |-> "paying"])

Pay(c) ==
  /\ session[c].step = "paying"
  /\ Finish(c)
  /\ payments' = IF Exists THEN payments + 1 ELSE payments
  /\ UNCHANGED <<status, Items, total, wh>>

\* Another order takes one item of the variant.
Sell(v) ==
  /\ CanAllocate(wh[v], OtherLine, 1, Totals(v))
  /\ wh' = [wh EXCEPT ![v] = Allocated(wh[v], OtherLine, 1, Totals(v))]
  /\ UNCHANGED <<status, Items, total, payments, session, asked, past>>

Next ==
  \/ \E c \in Sessions :
       \/ DraftOrderComplete(c)
       \/ EditLines(c)
       \/ UpdateCheck(c) \/ UpdateSave(c)
       \/ DraftOrderDelete(c) \/ BulkDeleteCheck(c) \/ BulkDelete(c)
       \/ CancelCheck(c) \/ Cancel(c)
       \/ PayCheck(c) \/ Pay(c)
  \/ \E v \in Variants : Sell(v)

Spec == Init /\ [][Next]_vars

-----------------------------------------------------------------------------
Reserved(l) == LineTotal(wh[VariantOf[l]], l)
Quiet == \A c \in Sessions : session[c] = Idle
TrackedLines == {l \in lines : VariantOf[l] \in TrackedVariants}

\* As long as no two mutations overlap and the order is placed at most once: an
\* order that is not placed holds no stock, and one that is holds, of each line,
\* all or nothing, for the first lines up to the one that failed; it is paid by
\* hand at most once.  Its total is that of its lines, except after
\* DraftOrderLinesBulkDelete, until something recalculates it.  Each part is
\* written by another mutation from what it read of the order and its lines.
SerialBooks ==
  Quiet /\ ~ past.overlapped =>
    /\ past.placed <= 1 =>
         /\ status # "unfulfilled" => \A l \in OwnLines : Reserved(l) = 0
         /\ \A l \in TrackedLines : Reserved(l) \in {0, quantity[l]}
         /\ \A k, l \in TrackedLines : k < l /\ Reserved(l) > 0 => Reserved(k) > 0
         /\ payments <= 1
    /\ Exists /\ ~ past.bulk => total = SumOfLines(quantity)

\* Whatever overlaps, quantities are those the columns allow, stock is reserved
\* only for lines that exist, and a deleted order has none, even when a session
\* that read it earlier still writes.
NothingForTheGone ==
  /\ TypeOK
  /\ \A l \in OwnLines \ lines, v \in Variants : LineTotal(wh[v], l) = 0
  /\ ~ Exists => lines = {}

\* What the draft's validation finds available, allocate_stock can reserve: the
\* two compute it differently (warehouse/availability.py:21-30 in one sum over
\* stocks joined with allocations, management.py:43-71 stock by stock).
ValidatedCanBeReserved ==
  \A v \in Variants, n \in Quantities :
    n <= AvailableQuantity(wh[v]) => Enough(Available(wh[v], Totals(v)), n)

\* Without overlapping mutations a placed order keeps its lines and never
\* becomes a draft again, and a deleted one does not come back.
PlacedStaysPlaced ==
  [][~ past'.overlapped =>
       /\ status \in {"unfulfilled", "canceled"} /\ status' # "deleted" =>
            status' # "draft" /\ lines' = lines /\ quantity' = quantity
       /\ status = "deleted" => status' = "deleted"]_vars

\* Whatever overlaps, a line comes to hold more than its quantity only when the
\* order is placed again, or a quantity was saved or read for placing meanwhile.
OverReservedNeeds ==
  [][\A l \in OwnLines :
       l \in lines /\ Reserved(l) <= quantity[l] /\ l \in lines' /\ Reserved(l)' > quantity'[l] =>
         \E c \in Sessions :
           \/ CompleteReserve(c) /\ (Reserved(l) > 0 \/ session[c].want[l] # quantity[l])
           \/ SaveQuantity(c) /\ past'.overlapped]_vars
=============================================================================
