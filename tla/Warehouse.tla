------------------------------ MODULE Warehouse ------------------------------
(***************************************************************************)
(* The stock of one product variant and the reservations on it: tables     *)
(* warehouse_stock and warehouse_allocation (saleor/warehouse/models.py),  *)
(* and what each function of saleor/warehouse/management.py computes from   *)
(* them.  No variables: a state of the tables is a record                  *)
(*                                                                         *)
(*   stocks     the stocks that exist, one per warehouse                   *)
(*   quantity   Stock.quantity, 0 for a stock that does not exist          *)
(*   rows       the (order line, stock) pairs that have an Allocation row  *)
(*   allocated  Allocation.quantity_allocated, 0 where there is no row     *)
(*                                                                         *)
(* and each operator maps such a record to the one the function commits.   *)
(* Stocks and order lines are numbered by primary key, the order in which  *)
(* the code iterates over them; a stock that is deleted and created again  *)
(* keeps its number.                                                       *)
(***************************************************************************)
EXTENDS Integers, Sums

CONSTANTS NumStocks,  \* how many warehouses ship to the customer's country
          NumLines,   \* how many order lines ask for the variant
          MaxQuantity \* the largest value of a PositiveIntegerField

ASSUME SizesAssumption ==
  /\ NumStocks \in Nat \ {0}
  /\ NumLines \in Nat \ {0}
  /\ MaxQuantity \in Nat

Stock == 1 .. NumStocks
Line == 1 .. NumLines

WarehouseState == [stocks    : SUBSET Stock,
                   quantity  : [Stock -> Nat],
                   rows      : SUBSET (Line \X Stock),
                   allocated : [Line -> [Stock -> Nat]]]

Tables(stocks, quantity, rows, allocated) ==
  [stocks |-> stocks, quantity |-> quantity, rows |-> rows, allocated |-> allocated]

Positive(n) == IF n > 0 THEN n ELSE 0
Least(m, n) == IF m < n THEN m ELSE n
Larger(m, n) == IF m < n THEN n ELSE m

\* How many allocations a stock has.
RowsOf(wh, s) == SumTo([l \in Line |-> IF <<l, s>> \in wh.rows THEN 1 ELSE 0], NumLines)

\* The Sum("quantity_allocated") of a stock, over all order lines.
Total(wh, s) == SumTo([l \in Line |-> wh.allocated[l][s]], NumLines)

\* What one order line holds, over all stocks.
LineTotal(wh, l) == SumTo(wh.allocated[l], NumStocks)

\* What is left of a stock for new reservations; staff can make it negative.
Headroom(wh, s) == wh.quantity[s] - Total(wh, s)

-----------------------------------------------------------------------------
\* The loops of allocate_stock and deallocate_stock walk the stocks by primary
\* key and take min(what is still wanted, what this one has) from each.
PositivePart(avail) == [s \in Stock |-> Positive(avail[s])]

Enough(avail, want) == SumTo(PositivePart(avail), NumStocks) >= want

Take(avail, want) ==
  [s \in Stock |-> Least(Positive(avail[s]),
                         Positive(want - SumTo(PositivePart(avail), s - 1)))]

\* allocate_stock: `counted' is what its first query summed per stock.
Available(wh, counted) ==
  [s \in Stock |-> IF s \in wh.stocks THEN wh.quantity[s] - counted[s] ELSE 0]

\* _get_available_quantity: one query that joins the stocks with their
\* allocations, and Sum("quantity", distinct=True) so that a stock with several
\* allocations counts once.  Stocks with the same quantity count once, too.
\* Bug: without `distinct' a stock counts once per allocation.
JoinedQuantity(wh) ==
  SumTo([s \in Stock |-> IF s \in wh.stocks
                           THEN wh.quantity[s] * Larger(1, RowsOf(wh, s))
                           ELSE 0], NumStocks)

DistinctQuantity(wh) ==
  SumTo([s \in Stock |-> IF s \in wh.stocks /\ \A t \in wh.stocks :
                              wh.quantity[t] = wh.quantity[s] => s <= t
                           THEN wh.quantity[s] ELSE 0], NumStocks)

AvailableQuantity(wh) ==
  Positive(DistinctQuantity(wh)
             - SumTo([s \in Stock |-> IF s \in wh.stocks THEN Total(wh, s) ELSE 0], NumStocks))

\* Bug: reserve what there is, without the final InsufficientStock.
CanAllocatePartly(wh, l, want, counted) ==
  \A s \in Stock : Take(Available(wh, counted), want)[s] > 0 => <<l, s>> \notin wh.rows

CanAllocate(wh, l, want, counted) ==
  /\ Enough(Available(wh, counted), want)
  \* unique_together (order_line, stock): bulk_create refuses a second row.
  /\ \A s \in Stock : Take(Available(wh, counted), want)[s] > 0 => <<l, s>> \notin wh.rows

Allocated(wh, l, want, counted) ==
  LET plan == Take(Available(wh, counted), want)
  IN  Tables(wh.stocks, wh.quantity,
             wh.rows \union {<<l, s>> : s \in {t \in Stock : plan[t] > 0}},
             [wh.allocated EXCEPT ![l] =
                [s \in Stock |-> IF plan[s] > 0 THEN plan[s] ELSE @[s]]])

\* deallocate_stock; when the line holds less, it raises AllocationError.
CanDeallocate(wh, l, want) == LineTotal(wh, l) >= want

LineHolds(wh, l, held) ==
  Tables(wh.stocks, wh.quantity, wh.rows, [wh.allocated EXCEPT ![l] = held])

Deallocated(wh, l, want) ==
  LET held == wh.allocated[l]
  IN  LineHolds(wh, l, [s \in Stock |-> held[s] - Take(held, want)[s]])

\* increase_stock, which creates the stock or the allocation it does not find;
\* the database refuses a value beyond the column's range.
CanIncrease(wh, l, w, n, allocate) ==
  /\ wh.quantity[w] + n <= MaxQuantity
  /\ allocate => wh.allocated[l][w] + n <= MaxQuantity

\* Bug: the allocation grows but a missing row is not created.
IncreasedWithoutRow(wh, l, w, n, allocate) ==
  Tables(wh.stocks \union {w},
         [wh.quantity EXCEPT ![w] = @ + n],
         wh.rows,
         IF allocate THEN [wh.allocated EXCEPT ![l][w] = @ + n] ELSE wh.allocated)

Increased(wh, l, w, n, allocate) ==
  Tables(wh.stocks \union {w},
         [wh.quantity EXCEPT ![w] = @ + n],
         IF allocate THEN wh.rows \union {<<l, w>>} ELSE wh.rows,
         IF allocate THEN [wh.allocated EXCEPT ![l][w] = @ + n] ELSE wh.allocated)

\* Bug: an AllocationError is swallowed and the allocations stay.
ReleasedOrKept(wh, l, n) == IF CanDeallocate(wh, l, n) THEN Deallocated(wh, l, n) ELSE wh

\* The first half of decrease_stock: on AllocationError the line loses all.
Released(wh, l, n) ==
  IF CanDeallocate(wh, l, n)
    THEN Deallocated(wh, l, n)
    ELSE LineHolds(wh, l, [s \in Stock |-> 0])

\* Bugs: only the goods are checked, not who they are reserved for; or nothing.
CanDecreaseReserved(wh, l, n, w) == w \in wh.stocks /\ wh.quantity[w] >= n
CanDecreaseAnything(wh, l, n, w) == w \in wh.stocks

\* decrease_stock, or InsufficientStock and a rollback.
CanDecrease(wh, l, n, w) ==
  /\ w \in wh.stocks
  /\ Headroom(Released(wh, l, n), w) >= n

Decreased(wh, l, n, w) ==
  LET r == Released(wh, l, n)
  IN  Tables(r.stocks, [r.quantity EXCEPT ![w] = @ - n], r.rows, r.allocated)

\* deallocate_stock_for_order.
OrderDeallocated(wh, lines) ==
  Tables(wh.stocks, wh.quantity, wh.rows,
         [l \in Line |-> IF l \in lines THEN [s \in Stock |-> 0] ELSE wh.allocated[l]])

\* Writers that know nothing of allocations: productVariantStocksUpdate and
\* the ShopKeep import set the quantity, productVariantStocksDelete deletes the
\* row and, by cascade, its allocations.
QuantitySet(wh, s, n) ==
  Tables(wh.stocks \union {s}, [wh.quantity EXCEPT ![s] = n], wh.rows, wh.allocated)

StockDeleted(wh, s) ==
  Tables(wh.stocks \ {s},
         [wh.quantity EXCEPT ![s] = 0],
         {r \in wh.rows : r[2] # s},
         [l \in Line |-> [wh.allocated[l] EXCEPT ![s] = 0]])
=============================================================================
