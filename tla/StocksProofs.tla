----------------------------- MODULE StocksProofs -----------------------------
(***************************************************************************)
(* Theorems of Stocks, for any number of stocks, lines and sessions, and    *)
(* the proof that it implements StockLedger.                               *)
(***************************************************************************)
EXTENDS StocksLedger, WarehouseProofs

USE SizesAssumption, StocksAssumption
-----------------------------------------------------------------------------
(* Type correctness. *)

\* The fields of an open call.
LEMMA TxnFields ==
  ASSUME TypeOK
  PROVE  \A c \in Sessions : /\ txn[c].line \in Line
                             /\ txn[c].want \in Nat
                             /\ txn[c].counted \in [Stock -> Nat]
<1>1. Quantities \union {0} \subseteq Nat
  BY DEF StocksAssumption
<1> QED BY <1>1 DEF TypeOK, Txn

\* The initial tables are well formed.
LEMMA InitTypeOK == Init => TypeOK
BY DEF Init, TypeOK, WarehouseState, Tables, Txn, Idle, NoCount, Stock, Line

\* Every action keeps both tables and every open call well formed.
LEMMA NextTypeOK ==
  ASSUME TypeOK, [Next]_vars
  PROVE  TypeOK'
<1>1. wh \in WarehouseState /\ txn \in [Sessions -> Txn] /\ Idle \in Txn
  BY DEF TypeOK, Txn, Idle, NoCount, Line
<1>2. \A c \in Sessions : /\ txn[c].line \in Line
                          /\ txn[c].want \in Nat
                          /\ txn[c].counted \in [Stock -> Nat]
  BY TxnFields
<1>3. ASSUME NEW c \in Sessions, NEW l \in Line, NEW n \in Quantities, AllocateCount(c, l, n)
      PROVE  TypeOK'
  <2>1. [s \in Stock |-> Total(wh, s)] \in [Stock -> Nat]
    BY <1>1, TotalsNat
  <2> QED BY <1>1, <1>3, <2>1 DEF AllocateCount, TypeOK, Txn
<1>4. ASSUME NEW c \in Sessions, AllocateCommit(c) PROVE TypeOK'
  BY <1>1, <1>2, <1>4, AllocatedEffect DEF AllocateCommit, TypeOK
<1>5. ASSUME NEW c \in Sessions, AllocateRefuse(c) PROVE TypeOK'
  BY <1>1, <1>5 DEF AllocateRefuse, TypeOK
<1>6. ASSUME NEW c \in Sessions, NEW l \in Line, NEW n \in Quantities, Deallocate(c, l, n)
      PROVE  TypeOK'
  BY <1>1, <1>6, DeallocatedEffect DEF Deallocate, TypeOK
<1>7. ASSUME NEW c \in Sessions, NEW l \in Line, NEW w \in Stock, NEW n \in Quantities,
             NEW a \in BOOLEAN, Increase(c, l, w, n, a)
      PROVE  TypeOK'
  BY <1>1, <1>7, IncreasedEffect DEF Increase, TypeOK
<1>8. ASSUME NEW c \in Sessions, NEW l \in Line, NEW n \in Quantities, NEW w \in Stock,
             Decrease(c, l, n, w)
      PROVE  TypeOK'
  BY <1>1, <1>8, DecreasedEffect DEF Decrease, TypeOK
<1>9. ASSUME NEW c \in Sessions, NEW lines \in Orders, DeallocateOrder(c, lines)
      PROVE  TypeOK'
  BY <1>1, <1>9, OrderDeallocatedEffect DEF DeallocateOrder, TypeOK
<1>10. ASSUME Staff PROVE TypeOK'
  BY <1>1, <1>10, StaffEffect DEF Staff, StaffSets, StaffDeletesStock, TypeOK
<1>11. CASE UNCHANGED vars
  BY <1>11 DEF vars, TypeOK
<1> QED
  BY <1>3, <1>4, <1>5, <1>6, <1>7, <1>8, <1>9, <1>10, <1>11 DEF Next, Request

\* No quantity and no allocation is ever negative (both columns are
\* PositiveIntegerFields), whatever requests and staff do.
THEOREM TypeCorrect == Spec => []TypeOK
<1>1. Init => TypeOK
  BY InitTypeOK
<1>2. TypeOK /\ [Next]_vars => TypeOK'
  BY NextTypeOK
<1> QED BY <1>1, <1>2, PTL DEF Spec

-----------------------------------------------------------------------------
(* Overselling. *)

\* Of all requests, only the commit of an allocate_stock whose count is stale
\* can push a stock's reservations further beyond its quantity.
LEMMA OnlyStaleCountOversells ==
  ASSUME TypeOK, Next, NEW s \in Stock, Oversells(s)
  PROVE  \/ Staff
         \/ \E c \in Sessions : AllocateCommit(c) /\ txn[c].counted[s] < Total(wh, s)
<1>1. wh \in WarehouseState
  BY DEF TypeOK
<1>2. \A c \in Sessions : /\ txn[c].line \in Line
                          /\ txn[c].want \in Nat
                          /\ txn[c].counted \in [Stock -> Nat]
  BY TxnFields
<1>3. wh.quantity[s] \in Nat /\ Total(wh, s) \in Nat
  BY <1>1, TotalsNat DEF WarehouseState
<1>4. wh' \in WarehouseState /\ wh'.quantity[s] \in Nat /\ Total(wh', s) \in Nat
  <2>1. wh' \in WarehouseState
    BY NextTypeOK DEF TypeOK
  <2> QED BY <2>1, TotalsNat DEF WarehouseState
<1>5. ~ (Headroom(wh', s) >= Headroom(wh, s)) /\ ~ (Headroom(wh', s) >= 0)
  BY <1>3, <1>4 DEF Oversells, Headroom
<1>6. ~ (wh'.quantity = wh.quantity /\ Total(wh', s) <= Total(wh, s))
  BY <1>3, <1>4, <1>5 DEF Headroom
<1>7. ASSUME NEW c \in Sessions, AllocateCommit(c)
      PROVE  txn[c].counted[s] < Total(wh, s)
  <2> DEFINE t == txn[c]
             plan == Take(Available(wh, t.counted), t.want)
  <2>1. wh' = Allocated(wh, t.line, t.want, t.counted)
    BY <1>7 DEF AllocateCommit
  <2>2. wh'.quantity = wh.quantity /\ Total(wh', s) <= Total(wh, s) + plan[s]
    BY <1>1, <1>2, <2>1, AllocatedEffect
  <2>3. plan[s] \in Nat /\ plan[s] <= Positive(Available(wh, t.counted)[s])
    <3>1. \A u \in Stock : Available(wh, t.counted)[u] \in Int
      BY <1>1, <1>2, AvailableInt
    <3>2. t.want \in Nat
      BY <1>2
    <3> HIDE DEF t
    <3> QED BY <3>1, <3>2, TakeBounds
  <2>4. plan[s] > 0
    BY <1>3, <1>4, <1>5, <2>2, <2>3 DEF Headroom
  <2>5. Available(wh, t.counted)[s] \in {wh.quantity[s] - t.counted[s], 0}
    BY DEF Available
  <2>6. t.counted[s] \in Nat
    BY <1>2
  <2> HIDE DEF plan, t
  <2>7. plan[s] <= wh.quantity[s] - t.counted[s]
    BY <1>3, <2>3, <2>4, <2>5, <2>6 DEF Positive
  <2>8. t.counted[s] < Total(wh, s)
    BY <1>3, <1>4, <1>5, <2>2, <2>3, <2>6, <2>7 DEF Headroom
  <2> QED BY <2>8 DEF t
<1>8. ASSUME NEW c \in Sessions, NEW l \in Line, NEW n \in Quantities PROVE ~ AllocateCount(c, l, n)
  BY <1>3, <1>6 DEF AllocateCount
<1>9. ASSUME NEW c \in Sessions PROVE ~ AllocateRefuse(c)
  BY <1>3, <1>6 DEF AllocateRefuse
<1>10. ASSUME NEW c \in Sessions, NEW l \in Line, NEW n \in Quantities PROVE ~ Deallocate(c, l, n)
  BY <1>1, <1>6, DeallocatedEffect DEF Deallocate
<1>11. ASSUME NEW c \in Sessions, NEW l \in Line, NEW w \in Stock, NEW n \in Quantities,
              NEW a \in BOOLEAN
       PROVE  ~ Increase(c, l, w, n, a)
  BY <1>1, <1>5, IncreasedEffect DEF Increase
<1>12. ASSUME NEW c \in Sessions, NEW l \in Line, NEW n \in Quantities, NEW w \in Stock
       PROVE  ~ Decrease(c, l, n, w)
  BY <1>1, <1>5, DecreasedEffect DEF Decrease
<1>13. ASSUME NEW c \in Sessions, NEW lines \in Orders PROVE ~ DeallocateOrder(c, lines)
  BY <1>1, <1>6, OrderDeallocatedEffect DEF DeallocateOrder
<1> QED
  BY <1>7, <1>8, <1>9, <1>10, <1>11, <1>12, <1>13 DEF Next, Request

\* For any number of sessions, stocks and lines: overselling takes a
\* reservation made while an allocate_stock waits for its locks.
THEOREM OverlapTheorem == Spec => OversellNeedsOverlap
<1>1. TypeOK /\ [Next]_vars =>
        [\A s \in Stock : Oversells(s) =>
           \/ Staff
           \/ \E c \in Sessions : AllocateCommit(c) /\ txn[c].counted[s] < Total(wh, s)]_vars
  BY OnlyStaleCountOversells
<1> QED BY <1>1, TypeCorrect, PTL DEF Spec, OversellNeedsOverlap

\* Calls of allocate_stock do not overlap.
OneSession == \A c, d \in Sessions : c = d

\* What an open call counted still bounds the totals.
CountedFresh ==
  \A c \in Sessions : txn[c].open => \A s \in Stock : txn[c].counted[s] >= Total(wh, s)

\* With one session, only staff act between the count and the commit, and
\* they never raise a total.
LEMMA NextCountedFresh ==
  ASSUME OneSession, TypeOK, CountedFresh, [Next]_vars
  PROVE  CountedFresh'
<1>1. wh \in WarehouseState /\ \A s \in Stock : Total(wh, s) \in Nat
  BY TotalsNat DEF TypeOK
<1>2. txn \in [Sessions -> Txn] /\ wh' \in WarehouseState
  BY NextTypeOK DEF TypeOK
<1>3. ASSUME NEW c \in Sessions, NEW l \in Line, NEW n \in Quantities, AllocateCount(c, l, n)
      PROVE  CountedFresh'
  <2>1. txn' = [d \in Sessions |-> [open |-> TRUE, line |-> l, want |-> n,
                                    counted |-> [s \in Stock |-> Total(wh, s)]]]
    BY <1>2, <1>3 DEF AllocateCount, OneSession
  <2>2. wh' = wh
    BY <1>3 DEF AllocateCount
  <2> QED BY <1>1, <2>1, <2>2 DEF CountedFresh
<1>4. ASSUME NEW c \in Sessions, AllocateCommit(c) \/ AllocateRefuse(c) PROVE CountedFresh'
  <2>1. \A d \in Sessions : txn'[d] = Idle
    BY <1>2, <1>4 DEF AllocateCommit, AllocateRefuse, OneSession
  <2> QED BY <2>1 DEF CountedFresh, Idle
<1>5. ASSUME NEW c \in Sessions, ~ txn[c].open, txn' = txn PROVE CountedFresh'
  BY <1>5 DEF CountedFresh, OneSession
<1>6. ASSUME txn' = txn, \A s \in Stock : Total(wh', s) <= Total(wh, s) PROVE CountedFresh'
  <2> SUFFICES ASSUME NEW c \in Sessions, txn[c].open, NEW s \in Stock
               PROVE  txn[c].counted[s] >= Total(wh', s)
    BY <1>6 DEF CountedFresh
  <2>1. txn[c].counted[s] >= Total(wh, s) /\ txn[c].counted[s] \in Nat
    BY <1>2 DEF CountedFresh, Txn
  <2>2. Total(wh', s) <= Total(wh, s) /\ Total(wh', s) \in Nat /\ Total(wh, s) \in Nat
    BY <1>1, <1>2, <1>6, TotalsNat
  <2> QED BY <2>1, <2>2
<1>7. ASSUME Staff PROVE CountedFresh'
  <2>1. ASSUME NEW s \in Stock, NEW n \in StaffQuantities, StaffSets(s, n) PROVE CountedFresh'
    BY <1>1, <1>6, <2>1, StaffEffect DEF StaffSets
  <2>2. ASSUME NEW s \in Stock, StaffDeletesStock(s) PROVE CountedFresh'
    BY <1>1, <1>6, <2>2, StaffEffect DEF StaffDeletesStock
  <2> QED BY <1>7, <2>1, <2>2 DEF Staff
<1>8. CASE UNCHANGED vars
  BY <1>1, <1>6, <1>8 DEF vars
<1>9. ASSUME NEW c \in Sessions, Request(c) PROVE CountedFresh'
  BY <1>3, <1>4, <1>5, <1>9 DEF Request, Deallocate, Increase, Decrease, DeallocateOrder
<1> QED BY <1>7, <1>8, <1>9 DEF Next

\* When calls do not overlap the docstring holds: only staff oversell.
THEOREM SerialNoOversell == OneSession => (Spec => NoOversell)
<1> SUFFICES ASSUME OneSession PROVE Spec => NoOversell
  OBVIOUS
<1>1. Init => CountedFresh
  BY DEF Init, CountedFresh, Idle
<1>2. TypeOK /\ CountedFresh /\ [Next]_vars => CountedFresh'
  BY NextCountedFresh
<1>3. TypeOK /\ CountedFresh /\ [Next]_vars =>
        [\A s \in Stock : Oversells(s) => Staff]_vars
  <2> SUFFICES ASSUME TypeOK, CountedFresh, Next, NEW s \in Stock, Oversells(s)
               PROVE  Staff
    OBVIOUS
  <2>1. ASSUME NEW c \in Sessions, AllocateCommit(c), txn[c].counted[s] < Total(wh, s)
        PROVE  FALSE
    <3>1. txn[c].counted[s] >= Total(wh, s)
      BY <2>1 DEF CountedFresh, AllocateCommit
    <3>2. txn[c].counted[s] \in Nat /\ Total(wh, s) \in Nat
      BY TotalsNat DEF TypeOK, Txn
    <3> QED BY <2>1, <3>1, <3>2
  <2> QED BY <2>1, OnlyStaleCountOversells
<1> QED BY <1>1, <1>2, <1>3, TypeCorrect, PTL DEF Spec, NoOversell

-----------------------------------------------------------------------------
(* The keys between the tables. *)

\* Only allocate_stock and increase_stock add to an allocation, and both leave
\* it a row on an existing stock; only a deletion removes rows, with the stock.
LEMMA NextIntegrity ==
  ASSUME TypeOK, Integrity, [Next]_vars
  PROVE  Integrity'
<1>1. wh \in WarehouseState
  BY DEF TypeOK
<1>2. ASSUME NEW c \in Sessions, AllocateCommit(c) PROVE Integrity'
  <2> DEFINE t == txn[c]
             avail == Available(wh, t.counted)
             plan == Take(avail, t.want)
             more == {<<t.line, s>> : s \in {u \in Stock : plan[u] > 0}}
  <2>1. t.line \in Line /\ t.want \in Nat /\ t.counted \in [Stock -> Nat]
    BY TxnFields
  <2>2. /\ plan \in [Stock -> Nat]
        /\ \A s \in Stock : plan[s] <= Positive(avail[s])
    <3>1. \A s \in Stock : avail[s] \in Int
      BY <1>1, <2>1, AvailableInt
    <3> HIDE DEF t, avail
    <3> QED BY <2>1, <3>1, TakeBounds
  <2>3. /\ wh'.stocks = wh.stocks
        /\ wh'.quantity = wh.quantity
        /\ wh'.rows = wh.rows \union more
        /\ wh'.allocated = [wh.allocated EXCEPT ![t.line] =
                              [s \in Stock |-> IF plan[s] > 0 THEN plan[s] ELSE @[s]]]
    BY <1>2 DEF AllocateCommit, Allocated, Tables
  <2>4. \A s \in Stock : plan[s] > 0 => s \in wh.stocks
    BY <2>2 DEF Available, Positive
  <2>5. \A s \in Stock : plan[s] > 0 => <<t.line, s>> \in wh'.rows
    BY <2>3
  <2>6. \A r \in wh'.rows : r[2] \in wh'.stocks
    <3>1. \A r \in more : r[2] \in wh.stocks
      BY <2>4
    <3> HIDE DEF more
    <3> QED BY <2>3, <3>1 DEF Integrity
  <2>7. ASSUME NEW l \in Line, NEW s \in Stock, wh'.allocated[l][s] > 0
        PROVE  <<l, s>> \in wh'.rows
    <3> HIDE DEF plan, more, t
    <3>1. wh.allocated \in [Line -> [Stock -> Nat]]
      BY <1>1 DEF WarehouseState
    <3>2. CASE l = t.line /\ plan[s] > 0
      BY <2>5, <3>2
    <3>3. CASE ~ (l = t.line /\ plan[s] > 0)
      <4>1. wh'.allocated[l][s] = wh.allocated[l][s]
        BY <2>1, <2>3, <3>1, <3>3
      <4>2. <<l, s>> \in wh.rows
        BY <2>7, <4>1 DEF Integrity
      <4> QED BY <2>3, <4>2
    <3> QED BY <3>2, <3>3
  <2> QED BY <2>3, <2>6, <2>7 DEF Integrity
<1>3. ASSUME wh'.stocks = wh.stocks, wh'.rows = wh.rows, wh' \in WarehouseState,
             \A s \in Stock : wh'.quantity[s] <= wh.quantity[s],
             \A l \in Line, s \in Stock : wh'.allocated[l][s] <= wh.allocated[l][s]
      PROVE  Integrity'
  <2>1. \A s \in Stock : wh'.quantity[s] > 0 => wh.quantity[s] > 0
    BY <1>1, <1>3 DEF WarehouseState
  <2>2. \A l \in Line, s \in Stock : wh'.allocated[l][s] > 0 => wh.allocated[l][s] > 0
    BY <1>1, <1>3 DEF WarehouseState
  <2> QED BY <1>3, <2>1, <2>2 DEF Integrity
<1>4. ASSUME NEW l \in Line, NEW n \in Nat
      PROVE  LET y == Released(wh, l, n)
             IN  /\ y.stocks = wh.stocks /\ y.rows = wh.rows /\ y.quantity = wh.quantity
                 /\ \A k \in Line, s \in Stock : y.allocated[k][s] <= wh.allocated[k][s]
                 /\ y.allocated \in [Line -> [Stock -> Nat]]
  <2> DEFINE a == wh.allocated[l]
             zero == [s \in Stock |-> 0]
             f == [s \in Stock |-> a[s] - Take(a, n)[s]]
  <2>1. a \in [Stock -> Nat] /\ wh.allocated \in [Line -> [Stock -> Nat]]
    BY <1>1 DEF WarehouseState
  <2>2. /\ Take(a, n) \in [Stock -> Nat]
        /\ \A s \in Stock : Take(a, n)[s] <= Positive(a[s])
    <3>1. \A s \in Stock : a[s] \in Int
      BY <2>1
    <3> HIDE DEF a
    <3> QED BY <3>1, TakeBounds
  <2>3. f \in [Stock -> Nat] /\ \A s \in Stock : f[s] <= a[s]
    BY <2>1, <2>2 DEF Positive
  <2>4. zero \in [Stock -> Nat] /\ \A s \in Stock : zero[s] <= a[s]
    BY <2>1
  <2>5. PICK g \in {f, zero} : Released(wh, l, n) = LineHolds(wh, l, g)
    BY DEF Released, Deallocated
  <2>6. g \in [Stock -> Nat] /\ \A s \in Stock : g[s] <= wh.allocated[l][s]
    BY <2>3, <2>4
  <2> HIDE DEF f, zero
  <2> QED BY <2>1, <2>5, <2>6 DEF LineHolds, Tables
<1>5. wh' \in WarehouseState
  BY NextTypeOK DEF TypeOK
<1>6. ASSUME NEW c \in Sessions, NEW l \in Line, NEW n \in Quantities, Deallocate(c, l, n)
      PROVE  Integrity'
  <2>1. wh' = Released(wh, l, n) /\ n \in Nat
    BY <1>6 DEF Deallocate, Released, StocksAssumption
  <2>2. \A s \in Stock : wh'.quantity[s] <= wh.quantity[s]
    BY <1>1, <1>4, <2>1 DEF WarehouseState
  <2> QED BY <1>3, <1>4, <1>5, <2>1, <2>2
<1>7. ASSUME NEW c \in Sessions, NEW l \in Line, NEW n \in Quantities, NEW w \in Stock,
             Decrease(c, l, n, w)
      PROVE  Integrity'
  <2> DEFINE r == Released(wh, l, n)
  <2>1. wh' = Tables(r.stocks, [r.quantity EXCEPT ![w] = @ - n], r.rows, r.allocated)
        /\ n \in Nat
    BY <1>7 DEF Decrease, Decreased, StocksAssumption
  <2>2. /\ wh'.stocks = wh.stocks /\ wh'.rows = wh.rows
        /\ \A s \in Stock : wh'.quantity[s] <= wh.quantity[s]
        /\ \A k \in Line, s \in Stock : wh'.allocated[k][s] <= wh.allocated[k][s]
    BY <1>1, <1>4, <2>1 DEF Tables, WarehouseState
  <2> QED BY <1>3, <1>5, <2>2
<1>8. ASSUME NEW c \in Sessions, NEW lines \in Orders, DeallocateOrder(c, lines)
      PROVE  Integrity'
  <2>1. /\ wh'.stocks = wh.stocks /\ wh'.rows = wh.rows
        /\ \A s \in Stock : wh'.quantity[s] <= wh.quantity[s]
        /\ \A k \in Line, s \in Stock : wh'.allocated[k][s] <= wh.allocated[k][s]
    BY <1>1, <1>8 DEF DeallocateOrder, OrderDeallocated, Tables, WarehouseState
  <2> QED BY <1>3, <1>5, <2>1
<1>9. ASSUME NEW c \in Sessions, NEW l \in Line, NEW w \in Stock, NEW n \in Quantities,
             NEW a \in BOOLEAN, Increase(c, l, w, n, a)
      PROVE  Integrity'
  BY <1>1, <1>9 DEF Increase, Increased, Tables, WarehouseState, Integrity, StocksAssumption
<1>10. ASSUME NEW s \in Stock, NEW n \in StaffQuantities, StaffSets(s, n) PROVE Integrity'
  BY <1>1, <1>10 DEF StaffSets, QuantitySet, Tables, WarehouseState, Integrity
<1>11. ASSUME NEW s \in Stock, StaffDeletesStock(s) PROVE Integrity'
  BY <1>1, <1>11 DEF StaffDeletesStock, StockDeleted, Tables, WarehouseState, Integrity
<1>12. ASSUME wh' = wh PROVE Integrity'
  BY <1>12 DEF Integrity
<1>13. CASE UNCHANGED vars
  BY <1>12, <1>13 DEF vars
<1>14. CASE Staff
  BY <1>10, <1>11, <1>14 DEF Staff
<1>15. ASSUME NEW c \in Sessions, Request(c) PROVE Integrity'
  BY <1>2, <1>6, <1>7, <1>8, <1>9, <1>12, <1>15 DEF Request, AllocateCount, AllocateRefuse
<1> QED BY <1>13, <1>14, <1>15 DEF Next

\* Every allocation has its row and every row its stock.
THEOREM IntegrityHolds == Spec => []Integrity
<1>1. Init => Integrity
  BY DEF Init, Integrity, Tables, StocksAssumption
<1>2. TypeOK /\ Integrity /\ [Next]_vars => Integrity'
  BY NextIntegrity
<1> QED BY <1>1, <1>2, TypeCorrect, PTL DEF Spec

-----------------------------------------------------------------------------
(* The greedy loop reserves exactly what was asked. *)

\* A line without a row on a stock holds nothing there, so what the commit
\* writes is what the line held plus the plan.
LEMMA AllocatedSum ==
  ASSUME TypeOK, Integrity, NEW c \in Sessions, AllocateCommit(c), NEW l \in Line
  PROVE  LineTotal(wh', l) = LineTotal(wh, l) + (IF l = txn[c].line THEN txn[c].want ELSE 0)
<1> DEFINE t == txn[c]
           avail == Available(wh, t.counted)
           plan == Take(avail, t.want)
           old == wh.allocated[t.line]
           new == [s \in Stock |-> IF plan[s] > 0 THEN plan[s] ELSE old[s]]
<1>1. /\ t.line \in Line /\ t.want \in Nat /\ t.counted \in [Stock -> Nat]
      /\ wh \in WarehouseState
      /\ wh.allocated \in [Line -> [Stock -> Nat]]
  BY TxnFields DEF TypeOK, WarehouseState
<1>2. \A s \in Stock : avail[s] \in Int
  BY <1>1, AvailableInt
<1>3. wh'.allocated = [wh.allocated EXCEPT ![t.line] = new]
  BY DEF AllocateCommit, Allocated, Tables
<1>4. Enough(avail, t.want) /\ \A s \in Stock : plan[s] > 0 => <<t.line, s>> \notin wh.rows
  BY DEF AllocateCommit, CanAllocate
<1>5. plan \in [Stock -> Nat] /\ SumTo(plan, NumStocks) = t.want
  <2> HIDE DEF t, avail
  <2> QED BY <1>1, <1>2, <1>4, TakeBounds, TakeExact
<1> HIDE DEF t, plan, avail
<1>6. \A s \in 1 .. NumStocks : old[s] \in Int /\ plan[s] \in Int /\ new[s] = old[s] + plan[s]
  <2> SUFFICES ASSUME NEW s \in Stock
               PROVE  old[s] \in Int /\ plan[s] \in Int /\ new[s] = old[s] + plan[s]
    BY DEF Stock
  <2>1. old[s] \in Nat /\ plan[s] \in Nat
    BY <1>1, <1>5
  <2>2. plan[s] > 0 => ~ (old[s] > 0)
    BY <1>1, <1>4 DEF Integrity
  <2> QED BY <2>1, <2>2
<1>7. SumTo(new, NumStocks) = SumTo(old, NumStocks) + t.want
  <2> HIDE DEF old, new
  <2> QED BY <1>5, <1>6, SumToAdd
<1>8. LineTotal(wh, l) \in Nat
  BY <1>1, TotalsNat
<1>9. CASE l = t.line
  <2>1. wh'.allocated[l] = new
    BY <1>1, <1>3, <1>9
  <2> QED BY <1>7, <1>9, <2>1 DEF LineTotal, t
<1>10. CASE l # t.line
  <2>1. wh'.allocated[l] = wh.allocated[l]
    BY <1>1, <1>3, <1>10
  <2> QED BY <1>8, <1>10, <2>1 DEF LineTotal, t
<1> QED BY <1>9, <1>10

\* However stale the count, an allocate_stock is all or nothing.
THEOREM AllocatesExactlyHolds == Spec => AllocatesExactly
<1>1. TypeOK /\ Integrity /\ [Next]_vars =>
        [\A c \in Sessions : AllocateCommit(c) =>
           \A l \in Line : LineTotal(wh', l) = LineTotal(wh, l) +
                            (IF l = txn[c].line THEN txn[c].want ELSE 0)]_vars
  BY AllocatedSum
<1> QED BY <1>1, TypeCorrect, IntegrityHolds, PTL DEF Spec, AllocatesExactly

-----------------------------------------------------------------------------
(* decrease_stock ships exactly what was asked. *)

\* A fulfilment takes the goods from one warehouse and gives back exactly the
\* line's own reservation, whichever stocks held it.
THEOREM ShipsExactlyHolds == Spec => ShipsExactly
<1> DEFINE Exact(l, n, w) ==
      /\ LineTotal(wh', l) = Positive(LineTotal(wh, l) - n)
      /\ \A k \in Line : k # l => wh'.allocated[k] = wh.allocated[k]
      /\ wh'.quantity = [wh.quantity EXCEPT ![w] = @ - n]
<1>1. ASSUME TypeOK, NEW c \in Sessions, NEW l \in Line, NEW n \in Quantities,
             NEW w \in Stock, Decrease(c, l, n, w)
      PROVE  Exact(l, n, w)
  <2>1. wh \in WarehouseState /\ n \in Nat
    BY <1>1 DEF TypeOK, StocksAssumption
  <2>2. wh' = Decreased(wh, l, n, w)
    BY <1>1 DEF Decrease
  <2>3. /\ wh'.allocated = Released(wh, l, n).allocated
        /\ wh'.quantity = [Released(wh, l, n).quantity EXCEPT ![w] = @ - n]
    BY <2>2 DEF Decreased, Tables
  <2>4. LineTotal(wh', l) = LineTotal(Released(wh, l, n), l)
    BY <2>3 DEF LineTotal
  <2> QED BY <2>1, <2>3, <2>4, ReleasedSum
<1>2. TypeOK /\ [Next]_vars =>
        [\A c \in Sessions, l \in Line, n \in Quantities, w \in Stock :
           Decrease(c, l, n, w) => Exact(l, n, w)]_vars
  BY <1>1
<1> QED BY <1>2, TypeCorrect, PTL DEF Spec, ShipsExactly

-----------------------------------------------------------------------------
(* The ledger. *)

\* An open call wants what a request may name.
OpenWants == \A c \in Sessions : txn[c].open => txn[c].want \in Quantities

LEMMA NextOpenWants ==
  ASSUME TypeOK, OpenWants, [Next]_vars
  PROVE  OpenWants'
<1>1. txn \in [Sessions -> Txn]
  BY DEF TypeOK
<1>2. ASSUME NEW c \in Sessions, NEW l \in Line, NEW n \in Quantities, AllocateCount(c, l, n)
      PROVE  OpenWants'
  BY <1>1, <1>2 DEF AllocateCount, OpenWants
<1>3. ASSUME NEW c \in Sessions, AllocateCommit(c) \/ AllocateRefuse(c) PROVE OpenWants'
  BY <1>1, <1>3 DEF AllocateCommit, AllocateRefuse, OpenWants, Idle
<1>4. CASE UNCHANGED txn
  BY <1>4 DEF OpenWants
<1> QED
  BY <1>2, <1>3, <1>4 DEF Next, Request, Staff, StaffSets, StaffDeletesStock, Deallocate, Increase,
                          Decrease, DeallocateOrder, vars

\* The ledger as read off tables x.
OnHandOf(x) == SumTo(x.quantity, NumStocks)
ReservedOf(x) == [l \in Line |-> LineTotal(x, l)]
CoveredIn(x) == \A s \in Stock : Headroom(x, s) >= 0

\* The refinement mapping is that reading of the tables there are.
LEMMA Mapping ==
  /\ Ledger!Line = Line
  /\ Ledger!Init <=> /\ OnHandOf(wh) = SumTo(InitialStocks, NumStocks)
                     /\ ReservedOf(wh) = [l \in Line |-> 0]
                     /\ CoveredIn(wh)
  /\ UNCHANGED wh => UNCHANGED Ledger!ledger
BY DEF Ledger!Line, Line, Ledger!Init, Ledger!ledger, OnHandOf, ReservedOf, CoveredIn

\* At first nothing is promised.
LEMMA LedgerInit == Init => Ledger!Init
<1> SUFFICES ASSUME Init
             PROVE  /\ OnHandOf(wh) = SumTo(InitialStocks, NumStocks)
                    /\ ReservedOf(wh) = [l \in Line |-> 0]
                    /\ CoveredIn(wh)
  BY Mapping
<1>1. wh.quantity = InitialStocks /\ wh.allocated = [l \in Line |-> [s \in Stock |-> 0]]
  BY DEF Init, Tables
<1>2. ASSUME NEW l \in Line PROVE LineTotal(wh, l) = 0
  <2>1. wh.allocated[l] = [s \in Stock |-> 0]
    BY <1>1
  <2> QED BY <2>1, SumOfZeros DEF LineTotal
<1>3. ASSUME NEW s \in Stock PROVE Headroom(wh, s) >= 0
  <2> DEFINE f == [l \in Line |-> wh.allocated[l][s]]
  <2>1. \A l \in 1 .. NumLines : f[l] \in Int /\ f[l] = f[l] + f[l]
    BY <1>1 DEF Line
  <2> HIDE DEF f
  <2>2. SumTo(f, NumLines) = SumTo(f, NumLines) + SumTo(f, NumLines) /\ SumTo(f, NumLines) \in Int
    BY <2>1, SumToAdd, SumToInt
  <2>3. SumTo(f, NumLines) = 0
    BY <2>2
  <2>4. Total(wh, s) = 0
    BY <2>3 DEF Total, f
  <2>5. InitialStocks[s] \in Nat
    BY DEF StocksAssumption
  <2> QED BY <1>1, <2>4, <2>5 DEF Headroom
<1> QED BY <1>1, <1>2, <1>3 DEF OnHandOf, ReservedOf, CoveredIn

\* Every step changes the readings as an entry of the ledger does ...
Entry(x, y) ==
  \/ \E l \in Line, n \in Quantities :
       \/ /\ ReservedOf(y) = [ReservedOf(x) EXCEPT ![l] = @ + n]
          /\ OnHandOf(y) = OnHandOf(x)
       \/ /\ n <= ReservedOf(x)[l]
          /\ ReservedOf(y) = [ReservedOf(x) EXCEPT ![l] = @ - n]
          /\ OnHandOf(y) = OnHandOf(x)
       \/ /\ ReservedOf(y) = [ReservedOf(x) EXCEPT ![l] = Positive(@ - n)]
          /\ OnHandOf(y) = OnHandOf(x) - n
       \/ \E again \in BOOLEAN :
            /\ OnHandOf(y) = OnHandOf(x) + n
            /\ ReservedOf(y) = [ReservedOf(x) EXCEPT ![l] = IF again THEN @ + n ELSE @]
  \/ \E lines \in Orders :
       /\ ReservedOf(y) = [l \in Line |-> IF l \in lines THEN 0 ELSE ReservedOf(x)[l]]
       /\ OnHandOf(y) = OnHandOf(x)

\* ... and keeps what is promised covered.
StillCovered(x, y) ==
  CoveredIn(x) => CoveredIn(y) /\ SumTo(ReservedOf(y), NumLines) <= OnHandOf(y)

LEMMA MapsToRequest ==
  ASSUME wh \in WarehouseState, Entry(wh, wh'), StillCovered(wh, wh')
  PROVE  Ledger!Request
<1> DEFINE r == ReservedOf(wh)
           h == OnHandOf(wh)
           q == ReservedOf(wh')
           g == OnHandOf(wh')
<1>1. Ledger!StaysCovered
  <2>1. (\A s \in Stock : Headroom(wh', s) >= 0) \in BOOLEAN
    BY Zenon
  <2>2. (\A s \in Stock : Headroom(wh, s) >= 0) =>
          /\ \A s \in Stock : Headroom(wh', s) >= 0
          /\ SumTo([l \in Line |-> LineTotal(wh', l)], NumLines) <= SumTo(wh'.quantity, NumStocks)
    BY DEF StillCovered, CoveredIn, ReservedOf, OnHandOf
  <2>3. \A f, n : Ledger!SumTo(f, n) = SumTo(f, n)
    BY DEF Ledger!SumTo, SumTo
  <2> QED BY <2>1, <2>2, <2>3, Zenon DEF Ledger!StaysCovered, Ledger!Promised
<1>2. Ledger!Line = Line
  BY Mapping
<1>3. \A l \in Line : r[l] \in Nat
  BY TotalsNat DEF ReservedOf
<1>4. ASSUME NEW l \in Line, NEW n \in Quantities
      PROVE  /\ q = [r EXCEPT ![l] = @ + n] /\ g = h => Ledger!Reserve(l, n)
             /\ n <= r[l] /\ q = [r EXCEPT ![l] = @ - n] /\ g = h => Ledger!Release(l, n)
             /\ q = [r EXCEPT ![l] = Positive(@ - n)] /\ g = h - n => Ledger!Ship(l, n)
             /\ \A again \in BOOLEAN :
                  g = h + n /\ q = [r EXCEPT ![l] = IF again THEN @ + n ELSE @]
                    => Ledger!Return(l, n, again)
  <2>1. Positive(r[l] - n) = IF r[l] > n THEN r[l] - n ELSE 0
    BY <1>3 DEF Positive, StocksAssumption
  <2> QED BY <2>1 DEF Ledger!Reserve, Ledger!Release, Ledger!Ship, Ledger!Return, Ledger!Less,
                      ReservedOf, OnHandOf
<1>5. ASSUME NEW lines \in Orders
      PROVE  q = [l \in Line |-> IF l \in lines THEN 0 ELSE r[l]] /\ g = h
               => Ledger!CancelOrder(lines)
  BY <1>2 DEF Ledger!CancelOrder, ReservedOf, OnHandOf
<1> HIDE DEF r, h, q, g
<1>6. Entry(wh, wh') => \/ \E l \in Line, n \in Quantities :
                             \/ Ledger!Reserve(l, n) \/ Ledger!Release(l, n) \/ Ledger!Ship(l, n)
                             \/ \E again \in BOOLEAN : Ledger!Return(l, n, again)
                        \/ \E lines \in Orders : Ledger!CancelOrder(lines)
  BY <1>4, <1>5 DEF Entry, r, h, q, g
<1> QED BY <1>1, <1>2, <1>6 DEF Ledger!Request

\* Every request that changes the tables is one entry.
LEMMA RequestIsEntry ==
  ASSUME TypeOK, Integrity, OpenWants, NEW c \in Sessions, Request(c)
  PROVE  wh' = wh \/ Entry(wh, wh')
<1>1. wh \in WarehouseState /\ txn \in [Sessions -> Txn]
  BY DEF TypeOK
<1>2. \A l \in Line : ReservedOf(wh)[l] = LineTotal(wh, l) /\ LineTotal(wh, l) \in Nat
  BY <1>1, TotalsNat DEF ReservedOf
<1>3. CASE AllocateCommit(c)
  <2> DEFINE t == txn[c]
  <2>1. t.line \in Line /\ t.want \in Quantities /\ t.counted \in [Stock -> Nat]
    BY <1>3, TxnFields DEF AllocateCommit, OpenWants
  <2>2. OnHandOf(wh') = OnHandOf(wh)
    BY <1>3 DEF AllocateCommit, Allocated, Tables, OnHandOf
  <2>3. /\ LineTotal(wh', t.line) = LineTotal(wh, t.line) + t.want
        /\ \A k \in Line : k # t.line => LineTotal(wh', k) = LineTotal(wh, k)
    <3>1. \A l \in Line :
            LineTotal(wh', l) = LineTotal(wh, l) + (IF l = t.line THEN t.want ELSE 0)
      BY <1>3, AllocatedSum
    <3> HIDE DEF t
    <3> QED BY <1>2, <2>1, <3>1
  <2> HIDE DEF t
  <2>4. ReservedOf(wh') = [ReservedOf(wh) EXCEPT ![t.line] = LineTotal(wh, t.line) + t.want]
    BY <2>1, <2>3 DEF ReservedOf
  <2> QED BY <1>2, <2>1, <2>2, <2>4 DEF Entry
<1>4. ASSUME NEW l \in Line, NEW n \in Quantities, Deallocate(c, l, n)
      PROVE  Entry(wh, wh')
  <2>1. wh' = Released(wh, l, n) /\ n \in Nat /\ LineTotal(wh, l) >= n
    BY <1>4 DEF Deallocate, Released, CanDeallocate, StocksAssumption
  <2>2. LineTotal(wh', l) = LineTotal(wh, l) - n
    <3>1. LineTotal(wh', l) = Positive(LineTotal(wh, l) - n)
      BY <1>1, <2>1, ReleasedSum
    <3> QED BY <1>2, <2>1, <3>1 DEF Positive
  <2>3. /\ OnHandOf(wh') = OnHandOf(wh)
        /\ \A k \in Line : k # l => LineTotal(wh', k) = LineTotal(wh, k)
    BY <1>1, <2>1, ReleasedSum DEF OnHandOf, LineTotal
  <2>4. ReservedOf(wh') = [ReservedOf(wh) EXCEPT ![l] = LineTotal(wh, l) - n]
    BY <2>2, <2>3 DEF ReservedOf
  <2>5. n <= ReservedOf(wh)[l] /\ ReservedOf(wh') = [ReservedOf(wh) EXCEPT ![l] = @ - n]
    BY <1>2, <2>1, <2>4
  <2> QED BY <2>3, <2>5 DEF Entry
<1>5. ASSUME NEW l \in Line, NEW w \in Stock, NEW n \in Quantities, NEW a \in BOOLEAN,
             Increase(c, l, w, n, a)
      PROVE  Entry(wh, wh')
  <2>1. n \in Nat /\ wh' = Increased(wh, l, w, n, a)
    BY <1>5 DEF Increase, StocksAssumption
  <2>2. /\ wh'.quantity = [wh.quantity EXCEPT ![w] = @ + n]
        /\ wh'.allocated = IF a THEN [wh.allocated EXCEPT ![l][w] = @ + n] ELSE wh.allocated
    BY <2>1 DEF Increased, Tables
  <2>3. OnHandOf(wh') = OnHandOf(wh) + n
    <3>1. DifferAt(wh.quantity, wh'.quantity, w, n)
      BY <1>1, <2>1, <2>2 DEF DifferAt, WarehouseState
    <3> QED BY <3>1, SumDifferAt DEF OnHandOf
  <2>4. LineTotal(wh', l) = IF a THEN LineTotal(wh, l) + n ELSE LineTotal(wh, l)
    <3>1. CASE a
      <4>1. DifferAt(wh.allocated[l], wh'.allocated[l], w, n)
        BY <1>1, <2>1, <2>2, <3>1 DEF DifferAt, WarehouseState
      <4> QED BY <3>1, <4>1, SumDifferAt DEF LineTotal
    <3>2. CASE ~ a
      BY <2>2, <3>2 DEF LineTotal
    <3> QED BY <3>1, <3>2
  <2>5. \A k \in Line : k # l => LineTotal(wh', k) = LineTotal(wh, k)
    <3>1. \A k \in Line : k # l => wh'.allocated[k] = wh.allocated[k]
      BY <1>1, <2>2 DEF WarehouseState
    <3> QED BY <3>1 DEF LineTotal
  <2>6. ReservedOf(wh')
          = [ReservedOf(wh) EXCEPT ![l] = IF a THEN LineTotal(wh, l) + n ELSE LineTotal(wh, l)]
    BY <2>4, <2>5 DEF ReservedOf
  <2>7. ReservedOf(wh') = [ReservedOf(wh) EXCEPT ![l] = IF a THEN @ + n ELSE @]
    BY <1>2, <2>6
  <2> QED BY <2>3, <2>7 DEF Entry
<1>6. ASSUME NEW l \in Line, NEW n \in Quantities, NEW w \in Stock, Decrease(c, l, n, w)
      PROVE  Entry(wh, wh')
  <2>1. n \in Nat /\ wh' = Decreased(wh, l, n, w)
    BY <1>6 DEF Decrease, StocksAssumption
  <2>2. LineTotal(wh', l) = Positive(LineTotal(wh, l) - n) /\ OnHandOf(wh') = OnHandOf(wh) - n
    BY <1>1, <2>1, DecreasedSums DEF OnHandOf
  <2>3. \A k \in Line : k # l => LineTotal(wh', k) = LineTotal(wh, k)
    <3>1. wh'.allocated = Released(wh, l, n).allocated
      BY <2>1 DEF Decreased, Tables
    <3>2. \A k \in Line : k # l => wh'.allocated[k] = wh.allocated[k]
      BY <1>1, <2>1, <3>1, ReleasedSum
    <3> QED BY <3>2 DEF LineTotal
  <2>4. ReservedOf(wh') = [ReservedOf(wh) EXCEPT ![l] = Positive(LineTotal(wh, l) - n)]
    BY <2>2, <2>3 DEF ReservedOf
  <2> QED BY <1>2, <2>2, <2>4 DEF Entry
<1>7. ASSUME NEW lines \in Orders, DeallocateOrder(c, lines) PROVE Entry(wh, wh')
  <2>1. wh' = OrderDeallocated(wh, lines)
    BY <1>7 DEF DeallocateOrder
  <2>2. \A l \in Line : LineTotal(wh', l) = IF l \in lines THEN 0 ELSE LineTotal(wh, l)
    <3> SUFFICES ASSUME NEW l \in Line
                 PROVE  LineTotal(wh', l) = IF l \in lines THEN 0 ELSE LineTotal(wh, l)
      OBVIOUS
    <3>1. CASE l \in lines
      BY <1>1, <2>1, <3>1, OrderDeallocatedHolds
    <3>2. CASE l \notin lines
      <4>1. wh'.allocated[l] = wh.allocated[l]
        BY <2>1, <3>2 DEF OrderDeallocated, Tables
      <4> QED BY <3>2, <4>1 DEF LineTotal
    <3> QED BY <3>1, <3>2
  <2>3. OnHandOf(wh') = OnHandOf(wh)
    BY <2>1 DEF OrderDeallocated, Tables, OnHandOf
  <2>4. ReservedOf(wh') = [l \in Line |-> IF l \in lines THEN 0 ELSE ReservedOf(wh)[l]]
    BY <2>2 DEF ReservedOf
  <2> QED BY <2>3, <2>4 DEF Entry
<1> QED BY <1>3, <1>4, <1>5, <1>6, <1>7 DEF Request, AllocateCount, AllocateRefuse

\* Calls that do not overlap keep what is promised covered.
LEMMA RequestsStayCovered ==
  ASSUME OneSession, TypeOK, CountedFresh, Next, ~ Staff
  PROVE  StillCovered(wh, wh')
<1> SUFFICES ASSUME CoveredIn(wh)
             PROVE  CoveredIn(wh') /\ SumTo(ReservedOf(wh'), NumLines) <= OnHandOf(wh')
  BY DEF StillCovered
<1>1. wh' \in WarehouseState /\ wh \in WarehouseState
  BY NextTypeOK DEF TypeOK
<1>2. ASSUME NEW s \in Stock PROVE Headroom(wh', s) >= 0
  <2> SUFFICES ASSUME ~ (Headroom(wh', s) >= 0) PROVE FALSE
    OBVIOUS
  <2>1. Headroom(wh, s) >= 0 /\ Headroom(wh, s) \in Int /\ Headroom(wh', s) \in Int
    BY <1>1, TotalsNat DEF CoveredIn, Headroom, WarehouseState
  <2>2. Oversells(s)
    BY <2>1 DEF Oversells
  <2>3. PICK c \in Sessions : AllocateCommit(c) /\ txn[c].counted[s] < Total(wh, s)
    BY <2>2, OnlyStaleCountOversells
  <2>4. txn[c].counted[s] >= Total(wh, s)
    BY <2>3 DEF CountedFresh, AllocateCommit
  <2>5. txn[c].counted[s] \in Nat /\ Total(wh, s) \in Nat
    BY TotalsNat DEF TypeOK, Txn
  <2> QED BY <2>3, <2>4, <2>5
<1> QED BY <1>1, <1>2, CoveredByStocks DEF CoveredIn, ReservedOf, OnHandOf

\* What staff do to the stocks is a recount.
LEMMA StaffRecount ==
  ASSUME TypeOK, Staff
  PROVE  Ledger!Recount
<1>1. wh \in WarehouseState
  BY DEF TypeOK
<1>2. wh' \in WarehouseState
  BY <1>1, StaffEffect DEF Staff, StaffSets, StaffDeletesStock, StocksAssumption
<1>3. \A l \in Line, s \in Stock : wh'.allocated[l][s] <= wh.allocated[l][s]
  BY <1>1 DEF Staff, StaffSets, StaffDeletesStock, QuantitySet, StockDeleted, Tables, WarehouseState
<1>4. ASSUME NEW l \in Line
      PROVE  LineTotal(wh', l) <= LineTotal(wh, l) /\ LineTotal(wh', l) \in Nat
  <2>1. \A s \in 1 .. NumStocks : /\ wh'.allocated[l][s] \in Int /\ wh.allocated[l][s] \in Int
                                  /\ wh'.allocated[l][s] <= wh.allocated[l][s]
    <3>1. \A s \in Stock : wh'.allocated[l][s] \in Nat /\ wh.allocated[l][s] \in Nat
      BY <1>1, <1>2 DEF WarehouseState
    <3> QED BY <1>3, <3>1 DEF Stock
  <2>2. LineTotal(wh', l) <= LineTotal(wh, l)
    BY <2>1, SumToMonotone DEF LineTotal
  <2> QED BY <1>2, <2>2, TotalsNat
<1>5. OnHandOf(wh') \in Nat
  <2>1. \A s \in 1 .. NumStocks : wh'.quantity[s] \in Nat
    BY <1>2 DEF WarehouseState, Stock
  <2> QED BY <2>1, SumToNat DEF OnHandOf
<1>6. (\A s \in Stock : Headroom(wh', s) >= 0) \in BOOLEAN
  BY Zenon
<1>7. /\ [l \in Line |-> LineTotal(wh', l)] \in [Ledger!Line -> Nat]
      /\ \A l \in Ledger!Line : [k \in Line |-> LineTotal(wh', k)][l]
                                 <= [k \in Line |-> LineTotal(wh, k)][l]
  BY <1>4, Mapping
<1> QED BY <1>5, <1>6, <1>7, Zenon DEF Ledger!Recount, OnHandOf

\* With calls of allocate_stock that do not overlap, the two tables implement the
\* ledger: every request is one of its entries or none, and only staff recount.
THEOREM SerialKeepsLedger == OneSession => (Spec => KeepsLedger)
<1> SUFFICES ASSUME OneSession PROVE Spec => KeepsLedger
  OBVIOUS
<1>1. Init => CountedFresh /\ OpenWants
  BY DEF Init, CountedFresh, OpenWants, Idle
<1>2. TypeOK /\ CountedFresh /\ OpenWants /\ [Next]_vars => CountedFresh' /\ OpenWants'
  BY NextCountedFresh, NextOpenWants
<1>3. TypeOK /\ Integrity /\ CountedFresh /\ OpenWants /\ [Next]_vars =>
        [IF Staff THEN Ledger!Recount ELSE Ledger!Request]_(Ledger!ledger)
  <2> SUFFICES ASSUME TypeOK, Integrity, CountedFresh, OpenWants, [Next]_vars
               PROVE  \/ IF Staff THEN Ledger!Recount ELSE Ledger!Request
                      \/ UNCHANGED Ledger!ledger
    OBVIOUS
  <2>1. CASE Staff
    BY <2>1, StaffRecount
  <2>2. CASE wh' = wh
    BY <2>2, Mapping
  <2>3. CASE ~ Staff /\ wh' # wh
    <3>1. Next
      BY <2>3 DEF vars
    <3>2. PICK c \in Sessions : Request(c)
      BY <2>3, <3>1 DEF Next
    <3>3. Entry(wh, wh')
      BY <2>3, <3>2, RequestIsEntry
    <3>4. StillCovered(wh, wh')
      BY <2>3, <3>1, RequestsStayCovered
    <3>5. Ledger!Request
      BY <3>3, <3>4, MapsToRequest DEF TypeOK
    <3> QED BY <2>3, <3>5
  <2> QED BY <2>1, <2>2, <2>3
<1> QED BY <1>1, <1>2, <1>3, LedgerInit, TypeCorrect, IntegrityHolds, PTL DEF Spec, KeepsLedger
=============================================================================
