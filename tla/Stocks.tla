------------------------------- MODULE Stocks -------------------------------
(***************************************************************************)
(* Concurrent requests on the stock of one variant.                        *)
(*                                                                         *)
(* Every function of saleor/warehouse/management.py runs in a database     *)
(* transaction at PostgreSQL's READ COMMITTED.  One that takes its row     *)
(* locks first and reads afterwards is one action here.  allocate_stock is *)
(* two: its first statement sums the allocations as of the moment that     *)
(* statement began (Count), and it has the stocks' row locks and reads     *)
(* their quantities (Commit or Refuse) only after it has waited for        *)
(* requests that held them then, whose reservations the sum misses.        *)
(***************************************************************************)
EXTENDS Warehouse, FiniteSets

CONSTANTS Sessions,         \* database sessions of the web workers
          Orders,           \* the order lines of each order, a set of sets
          Quantities,       \* the quantities a request may name
          StaffQuantities,  \* what staff or the import set a quantity to
          StaffDeletes,     \* whether staff delete stocks
          InitialStocks     \* the warehouses that hold the variant at first

ASSUME StocksAssumption ==
  /\ Orders \subseteq SUBSET Line
  /\ Quantities \subseteq Nat \ {0}
  /\ StaffQuantities \subseteq Nat
  /\ StaffDeletes \in BOOLEAN
  /\ InitialStocks \in [Stock -> Nat]

VARIABLES wh,   \* the two tables
          txn   \* the allocate_stock call each session is in the middle of

vars == <<wh, txn>>

NoCount == [s \in Stock |-> 0]
Idle == [open |-> FALSE, line |-> 1, want |-> 0, counted |-> NoCount]

Txn == [open    : BOOLEAN,
        line    : Line,
        want    : Quantities \union {0},
        counted : [Stock -> Nat]]

TypeOK ==
  /\ wh \in WarehouseState
  /\ txn \in [Sessions -> Txn]

\* Initially nothing is reserved; a warehouse with nothing has no stock row.
Init ==
  /\ wh = Tables({s \in Stock : InitialStocks[s] > 0}, InitialStocks,
                 {}, [l \in Line |-> [s \in Stock |-> 0]])
  /\ txn = [c \in Sessions |-> Idle]

-----------------------------------------------------------------------------
\* allocate_stock(line, country, want), as far as its aggregate query.
AllocateCount(c, l, want) ==
  /\ ~ txn[c].open
  /\ txn' = [txn EXCEPT ![c] = [open    |-> TRUE,
                                line    |-> l,
                                want    |-> want,
                                counted |-> [s \in Stock |-> Total(wh, s)]]]
  /\ UNCHANGED wh

\* The rest of it: lock the stocks, read their quantities, bulk_create.
AllocateCommit(c) ==
  LET t == txn[c]
  IN  /\ t.open
      /\ CanAllocate(wh, t.line, t.want, t.counted)
      /\ wh' = Allocated(wh, t.line, t.want, t.counted)
      /\ txn' = [txn EXCEPT ![c] = Idle]

\* InsufficientStock, or an IntegrityError of bulk_create: rolled back.
AllocateRefuse(c) ==
  LET t == txn[c]
  IN  /\ t.open
      /\ ~ CanAllocate(wh, t.line, t.want, t.counted)
      /\ txn' = [txn EXCEPT ![c] = Idle]
      /\ UNCHANGED wh

\* The other functions; one that raises rolls back and changes nothing.
Deallocate(c, l, n) ==
  /\ ~ txn[c].open
  /\ CanDeallocate(wh, l, n)
  /\ wh' = Deallocated(wh, l, n)
  /\ UNCHANGED txn

Increase(c, l, w, n, allocate) ==
  /\ ~ txn[c].open
  /\ CanIncrease(wh, l, w, n, allocate)
  /\ wh' = Increased(wh, l, w, n, allocate)
  /\ UNCHANGED txn

Decrease(c, l, n, w) ==
  /\ ~ txn[c].open
  /\ CanDecrease(wh, l, n, w)
  /\ wh' = Decreased(wh, l, n, w)
  /\ UNCHANGED txn

DeallocateOrder(c, lines) ==
  /\ ~ txn[c].open
  /\ wh' = OrderDeallocated(wh, lines)
  /\ UNCHANGED txn

StaffSets(s, n) ==
  /\ wh' = QuantitySet(wh, s, n)
  /\ UNCHANGED txn

StaffDeletesStock(s) ==
  /\ s \in wh.stocks
  /\ wh' = StockDeleted(wh, s)
  /\ UNCHANGED txn

Request(c) ==
  \/ \E l \in Line, n \in Quantities : AllocateCount(c, l, n)
  \/ AllocateCommit(c)
  \/ AllocateRefuse(c)
  \/ \E l \in Line, n \in Quantities : Deallocate(c, l, n)
  \/ \E l \in Line, w \in Stock, n \in Quantities, a \in BOOLEAN : Increase(c, l, w, n, a)
  \/ \E l \in Line, n \in Quantities, w \in Stock : Decrease(c, l, n, w)
  \/ \E lines \in Orders : DeallocateOrder(c, lines)

Staff ==
  \/ \E s \in Stock, n \in StaffQuantities : StaffSets(s, n)
  \/ StaffDeletes /\ \E s \in Stock : StaffDeletesStock(s)

Next == (\E c \in Sessions : Request(c)) \/ Staff

Spec == Init /\ [][Next]_vars

-----------------------------------------------------------------------------
\* The step leaves more reserved on stock s than the stock holds, and by a
\* wider margin than before.
Oversells(s) ==
  /\ Headroom(wh', s) < 0
  /\ Headroom(wh', s) < Headroom(wh, s)

\* The keys between the tables hold and, with them, what the operations rely
\* on: an allocation needs its row, a row its stock, goods a stock.  A creation
\* or a cascade that forgot its other half would break it.
Integrity ==
  /\ \A l \in Line, s \in Stock : wh.allocated[l][s] > 0 => <<l, s>> \in wh.rows
  /\ \A r \in wh.rows : r[2] \in wh.stocks
  /\ \A s \in Stock : wh.quantity[s] > 0 => s \in wh.stocks

\* Only staff and the import, which set quantities without looking at the
\* allocations, leave a stock with more reserved than it holds: allocate_stock
\* and decrease_stock raise InsufficientStock first (management.py:21-26).
NoOversell == [][\A s \in Stock : Oversells(s) => Staff]_vars

\* What the code really guarantees: a request oversells a stock only when it is
\* an allocate_stock during whose wait for the row locks another request
\* reserved some of that stock, so that the sum it counted was stale.
OversellNeedsOverlap ==
  [][\A s \in Stock : Oversells(s) =>
       \/ Staff
       \/ \E c \in Sessions :
            AllocateCommit(c) /\ txn[c].counted[s] < Total(wh, s)]_vars

\* All or nothing: an allocate_stock that does not raise reserves exactly what
\* was asked, spread over the stocks, and leaves every other line alone.
AllocatesExactly ==
  [][\A c \in Sessions : AllocateCommit(c) =>
       \A l \in Line : LineTotal(wh', l) = LineTotal(wh, l) +
                        (IF l = txn[c].line THEN txn[c].want ELSE 0)]_vars

\* decrease_stock gives back the line's own reservation, as much of it as is
\* shipped and from whichever stocks hold it, before it takes the goods from
\* the one warehouse they leave; no other line's reservation shrinks.
ShipsExactly ==
  [][\A c \in Sessions, l \in Line, n \in Quantities, w \in Stock :
       Decrease(c, l, n, w) =>
         /\ LineTotal(wh', l) = Positive(LineTotal(wh, l) - n)
         /\ \A k \in Line : k # l => wh'.allocated[k] = wh.allocated[k]
         /\ wh'.quantity = [wh.quantity EXCEPT ![w] = @ - n]]_vars
=============================================================================
