---------------------------- MODULE OrderSyncProofs ----------------------------
(***************************************************************************)
(* Theorems of OrderSync, for any number of orders and processes and any   *)
(* bounds on crashes, failures, sales and what staff do.                   *)
(***************************************************************************)
EXTENDS OrderSync, WarehouseProofs, FiniteSetTheorems, SequenceTheorems

\* Two tables of numbers that differ at j only.
ApartAt(n, f, g, j) ==
  /\ n \in Nat
  /\ j \in 1 .. n
  /\ \A i \in 1 .. n : f[i] \in Int /\ g[i] \in Int
  /\ \A i \in 1 .. n : i # j => g[i] = f[i]

LEMMA SumApartAt ==
  ASSUME NEW n, NEW f, NEW g, NEW j, ApartAt(n, f, g, j)
  PROVE  /\ SumTo(g, n) = SumTo(f, n) + g[j] - f[j]
         /\ SumTo(g, n) \in Int /\ SumTo(f, n) \in Int /\ f[j] \in Int /\ g[j] \in Int
<1>1. n \in Nat /\ j \in 1 .. n
  BY DEF ApartAt
<1>2. \A i \in 1 .. n : f[i] \in Int /\ g[i] \in Int
  BY DEF ApartAt
<1>3. \A i \in 1 .. n : i # j => g[i] = f[i]
  BY DEF ApartAt
<1>4. SumTo(g, n) = SumTo(f, n) + g[j] - f[j]
  BY <1>1, <1>2, <1>3, SumToChangeOne
<1>5. SumTo(g, n) \in Int /\ SumTo(f, n) \in Int
  BY <1>1, <1>2, SumToInt
<1> QED BY <1>1, <1>2, <1>4, <1>5

\* Nothing adds up to nothing.
LEMMA SumOfNothing ==
  ASSUME NEW n \in Nat, NEW f, \A i \in 1 .. n : f[i] = 0
  PROVE  SumTo(f, n) = 0
<1>1. \A i \in 1 .. n : f[i] \in Int /\ f[i] = f[i] + f[i]
  OBVIOUS
<1>2. PICK x \in Int : x = SumTo(f, n)
  BY <1>1, SumToInt
<1>3. x = x + x
  BY <1>1, <1>2, SumToAdd
<1>4. x = 0
  BY <1>3
<1> QED BY <1>2, <1>4

LEMMA NotZero ==
  ASSUME NEW n \in Nat, n # 0, n <= 1
  PROVE  n = 1
OBVIOUS

\* A stock that is at most t below, and at most a above, the count x, or 0.
Near(stock, x, t, a) ==
  t >= 0 /\ a >= 0 /\ Positive(x) - t <= stock /\ stock <= Positive(x) + a

LEMMA NearTaken ==
  ASSUME NEW s \in Nat, NEW x \in Int, NEW t \in Int, NEW a \in Int, Near(s, x, t, a), NEW n \in Nat
  PROVE  Near(s - n, x, t + n, a)
BY DEF Near, Positive

LEMMA NearAdded ==
  ASSUME NEW s \in Nat, NEW x \in Int, NEW t \in Int, NEW a \in Int, Near(s, x, t, a), NEW n \in Nat
  PROVE  Near(s + n, x, t, a + n)
BY DEF Near, Positive

LEMMA NearCounted ==
  ASSUME NEW s \in Nat, NEW x \in Int, NEW t \in Int, NEW a \in Int, Near(s, x, t, a), NEW n \in Nat
  PROVE  Near(n, x, t + Positive(s - n), a + Positive(n - s))
BY DEF Near, Positive

LEMMA NearSold ==
  ASSUME NEW s \in Nat, NEW x \in Int, NEW t \in Int, NEW a \in Int, Near(s, x, t, a)
  PROVE  Near(s, x - 1, t, a + 1)
BY DEF Near, Positive

LEMMA NearSubtracted ==
  ASSUME NEW s \in Nat, NEW x \in Int, NEW t \in Int, NEW a \in Int, Near(s, x, t, a), NEW n \in Nat
  PROVE  Near(Positive(s - n), x - n, t, a)
BY DEF Near, Positive

LEMMA NearUntold ==
  ASSUME NEW s \in Nat, NEW x \in Int, NEW t \in Int, NEW a \in Int, Near(s, x, t, a), NEW n \in Nat
  PROVE  Near(s, x + n, t + n, a)
BY DEF Near, Positive

LEMMA NearImported ==
  ASSUME NEW x \in Int, NEW file \in Int, file >= x
  PROVE  Near(Positive(file), x, 0, Positive(file) - Positive(x))
BY DEF Near, Positive

USE SizesAssumption, OrderSyncAssumption DEF OrderSyncAssumption

\* What each place of a process says of its variables.
LEMMA ProcessFields ==
  ASSUME NEW p \in Process
  PROVE  /\ p.at \in Looping \union {"idle", "adjust", "mark", "import"}
         /\ p.at \in Looping => /\ p.todo \in SUBSET (Line \X Stock)
                                /\ p.orders \in SUBSET Line
                                /\ p.ids \in [Line -> Nat]
         /\ p.at \in InRow => p.row \in Line \X Stock
         /\ p.at \in {"adjust", "mark"} => p.todo \in SUBSET Line
         /\ p.at = "mark" => p.order \in Line /\ p.okay \in BOOLEAN
         /\ p.at = "import" => p.file \in Int
BY DEF Process, Looping, InRow

LEMMA ProcessMade ==
  /\ Idle \in Process
  /\ \A todo \in SUBSET (Line \X Stock), orders \in SUBSET Line, ids \in [Line -> Nat] :
       Rows(todo, orders, ids) \in Process
  /\ \A at \in InRow, row \in Line \X Stock, todo \in SUBSET (Line \X Stock),
        orders \in SUBSET Line, ids \in [Line -> Nat] :
       OfRow(at, row, todo, orders, ids) \in Process
  /\ \A todo \in SUBSET Line : [at |-> "adjust", todo |-> todo] \in Process
  /\ \A order \in Line, okay \in BOOLEAN, todo \in SUBSET Line :
       [at |-> "mark", order |-> order, okay |-> okay, todo |-> todo] \in Process
  /\ \A file \in Int : [at |-> "import", file |-> file] \in Process
BY DEF Process, Idle, InRow, Rows, OfRow

-----------------------------------------------------------------------------
(* Types.                                                                  *)

\* ShopKeep is given a whole number for every order.
LEMMA AdjustmentInt ==
  ASSUME TypeOK, NEW l \in Line
  PROVE  Adjustment(l) \in Int
<1>1. IsFiniteSet(wh.stocks)
  <2>1. wh.stocks \in SUBSET (1 .. NumStocks)
    BY DEF TypeOK, WarehouseState, Stock
  <2>2. IsFiniteSet(1 .. NumStocks)
    BY FS_Interval
  <2> QED BY <2>1, <2>2, FS_Subset
<1>2. Cardinality(wh.stocks) \in Nat
  BY <1>1, FS_CardinalityType
<1>3. Ordered[l] \in Nat
  OBVIOUS
<1> QED BY <1>2, <1>3 DEF Adjustment

\* So is what it has yet to hear.
LEMMA UntoldNat ==
  /\ \A r \in Runners : Untold(r) \in Nat
  /\ Owed \in Nat
<1>1. ASSUME NEW r \in Runners PROVE Untold(r) \in Nat
  <2> DEFINE orders == Past(r, InRow) \ (IF runner[r].at = "mark" THEN {runner[r].order} ELSE {})
             f == [l \in Line |-> IF l \in orders THEN Ordered[l] ELSE 0]
  <2>1. Untold(r) = SumTo(f, NumLines)
    BY DEF Untold
  <2>2. \A i \in 1 .. NumLines : f[i] \in Nat
    <3> HIDE DEF orders
    <3> QED BY DEF Line
  <2> HIDE DEF f
  <2>3. SumTo(f, NumLines) \in Nat
    BY <2>2, SumToNat
  <2> QED BY <2>1, <2>3
<1>2. Owed \in Nat
  <2> DEFINE f == [r \in Runners |-> Untold(r)]
  <2>1. \A i \in 1 .. NumRunners : f[i] \in Nat
    BY <1>1 DEF Runners
  <2> HIDE DEF f
  <2>2. SumTo(f, NumRunners) \in Nat
    BY <2>1, SumToNat
  <2> QED BY <2>2 DEF Owed, f
<1> QED BY <1>1, <1>2

\* And what a fulfillment holds.
LEMMA QuantityNat ==
  ASSUME NEW f \in Fulfillment
  PROVE  Quantity(f) \in Nat
<1>1. f.lines \in Seq(Nat)
  BY DEF Fulfillment
<1>2. Len(f.lines) \in Nat /\ \A i \in 1 .. Len(f.lines) : f.lines[i] \in Nat
  BY <1>1
<1> QED BY <1>2, SumToNat DEF Quantity

\* The variables that are numbers, and the bounds.
LEMMA Numbers ==
  ASSUME TypeOK
  PROVE  /\ crashes \in Nat /\ failures \in Nat /\ sales \in Nat /\ edits \in Nat
         /\ \A n \in Nat : /\ n < MaxCrashes => n + 1 \in 0 .. MaxCrashes
                           /\ n < MaxFailures => n + 1 \in 0 .. MaxFailures
                           /\ n < MaxSales => n + 1 \in 0 .. MaxSales
                           /\ n < MaxEdits => n + 1 \in 0 .. MaxEdits
         /\ shopkeep \in Int /\ taken \in Int /\ added \in Int
         /\ fulfilled \in [Line -> Int]
         /\ disturbed \in SUBSET Line
<1>1. /\ crashes \in 0 .. MaxCrashes /\ failures \in 0 .. MaxFailures
      /\ sales \in 0 .. MaxSales /\ edits \in 0 .. MaxEdits
      /\ shopkeep \in Int /\ taken \in Int /\ added \in Int
      /\ fulfilled \in [Line -> Int]
      /\ disturbed \in SUBSET Line
  BY DEF TypeOK
<1> QED BY <1>1

LEMMA InitTypeOK == Init => TypeOK
<1> SUFFICES ASSUME Init PROVE TypeOK
  OBVIOUS
<1>1. wh \in WarehouseState
  BY DEF Init, WarehouseState, Tables
<1>2. shopkeep \in Int
  <2>1. \A s \in 1 .. NumStocks : InitialQuantity[s] \in Nat
    BY DEF Stock
  <2> QED BY <2>1, SumToNat DEF Init
<1>3. runner \in [Runners -> Process]
  BY ProcessMade DEF Init
<1>4. fulfillments \in [Line -> Seq(Fulfillment)]
  BY DEF Init
<1> QED BY <1>1, <1>2, <1>3, <1>4 DEF Init, TypeOK

\* A process goes from one well-formed place to another.
RunnerTyped == runner' \in [Runners -> Process]

LEMMA RunnerMoves ==
  ASSUME TypeOK, NEW r \in Runners, NEW p \in Process, runner' = [runner EXCEPT ![r] = p]
  PROVE  RunnerTyped
BY DEF TypeOK, RunnerTyped

\* The statements of get_adjustments write well-formed tables.
LEMMA StatementTypes ==
  ASSUME NEW x \in WarehouseState, NEW l \in Line, NEW s \in Stock
  PROVE  Tables(x.stocks, x.quantity, x.rows \ {<<l, s>>},
                [x.allocated EXCEPT ![l][s] = 0]) \in WarehouseState
BY DEF WarehouseState, Tables

OrderStatus == {"new", "draft", "unfulfilled", "partially fulfilled", "fulfilled", "canceled"}

\* One order's fulfillments change: a row is added, or one of them changes.
LEMMA FulfillmentTypes ==
  ASSUME TypeOK, NEW l \in Line
  PROVE  /\ fulfillments[l] \in Seq(Fulfillment)
         /\ \A f \in DOMAIN fulfillments[l] : fulfillments[l][f] \in Fulfillment
         /\ \A x \in Fulfillment :
              [fulfillments EXCEPT ![l] = Append(@, x)] \in [Line -> Seq(Fulfillment)]
         /\ \A f, x : (f \in DOMAIN fulfillments[l] => x \in Fulfillment) =>
              [fulfillments EXCEPT ![l][f] = x] \in [Line -> Seq(Fulfillment)]
<1>1. fulfillments \in [Line -> Seq(Fulfillment)] /\ fulfillments[l] \in Seq(Fulfillment)
  BY DEF TypeOK
<1>2. ASSUME NEW x \in Fulfillment
      PROVE  [fulfillments EXCEPT ![l] = Append(@, x)] \in [Line -> Seq(Fulfillment)]
  <2>1. Append(fulfillments[l], x) \in Seq(Fulfillment)
    BY <1>1
  <2> QED BY <1>1, <2>1
<1>3. ASSUME NEW f, NEW x, f \in DOMAIN fulfillments[l] => x \in Fulfillment
      PROVE  [fulfillments EXCEPT ![l][f] = x] \in [Line -> Seq(Fulfillment)]
  <2>1. [fulfillments[l] EXCEPT ![f] = x] \in Seq(Fulfillment)
    <3>1. PICK q \in Seq(Fulfillment) : q = fulfillments[l]
      BY <1>1
    <3>2. CASE f \in DOMAIN q
      BY <1>3, <3>1, <3>2
    <3>3. CASE f \notin DOMAIN q
      <4>1. [q EXCEPT ![f] = x] = q
        BY <3>3
      <4> QED BY <3>1, <4>1
    <3> QED BY <3>2, <3>3
  <2> QED BY <1>1, <2>1
<1>4. \A f \in DOMAIN fulfillments[l] : fulfillments[l][f] \in Fulfillment
  BY <1>1
<1> QED BY <1>1, <1>2, <1>3, <1>4

LEMMA ShopStep ==
  ASSUME TypeOK, NEW l \in Line, Place(l) \/ Draft(l) \/ Cancel(l)
  PROVE  TypeOK'
<1>1. wh \in WarehouseState
  BY DEF TypeOK
<1>2. wh' \in WarehouseState
  <2>1. CASE Place(l)
    <3>1. Counted \in [Stock -> Nat]
      BY <1>1, TotalsNat DEF Counted
    <3>2. Ordered[l] \in Nat
      OBVIOUS
    <3> QED BY <1>1, <2>1, <3>1, <3>2, AllocatedEffect DEF Place
  <2>2. CASE Draft(l)
    BY <1>1, <2>2 DEF Draft
  <2>3. CASE Cancel(l)
    BY <1>1, <2>3, OrderDeallocatedEffect DEF Cancel
  <2> QED BY <2>1, <2>2, <2>3
<1>3. status' \in [Line -> OrderStatus]
  BY DEF TypeOK, Place, Draft, Cancel, OrderStatus
<1> QED BY <1>2, <1>3 DEF TypeOK, Place, Draft, Cancel, counters, history, OrderStatus

\* What staff do in the dashboard.
LEMMA StaffStep ==
  ASSUME TypeOK, (\E l \in Line : OrderFulfill(l) \/ FulfillmentCancel(l))
                 \/ \E s \in Stock : StaffSets(s)
  PROVE  TypeOK'
<1>1. /\ wh \in WarehouseState /\ taken \in Int /\ added \in Int /\ edits' \in 0 .. MaxEdits
      /\ fulfilled \in [Line -> Int]
  <2>1. edits < MaxEdits /\ edits' = edits + 1
    BY DEF OrderFulfill, FulfillmentCancel, StaffSets
  <2>2. wh \in WarehouseState
    BY DEF TypeOK
  <2> QED BY <2>1, <2>2, Numbers
<1>2. ASSUME NEW l \in Line, NEW n PROVE [status EXCEPT ![l] = StatusOf(l, n)] \in [Line -> OrderStatus]
  BY DEF TypeOK, OrderStatus, StatusOf
<1>3. ASSUME NEW l \in Line, OrderFulfill(l) PROVE TypeOK'
  <2>1. PICK n \in Unfulfilled(l), w \in Stock :
          /\ CanDecrease(wh, l, n, w)
          /\ wh' = Decreased(wh, l, n, w)
          /\ fulfilled' = [fulfilled EXCEPT ![l] = @ + n]
          /\ fulfillments' = [fulfillments EXCEPT ![l] =
                                Append(@, [canceled |-> FALSE, lines |-> <<n>>])]
          /\ status' = [status EXCEPT ![l] = StatusOf(l, fulfilled[l] + n)]
          /\ taken' = taken + n
    BY <1>3 DEF OrderFulfill
  <2>2. n \in Nat
    BY <1>1 DEF Unfulfilled
  <2>3. [canceled |-> FALSE, lines |-> <<n>>] \in Fulfillment
    BY <2>2 DEF Fulfillment
  <2>4. fulfillments' \in [Line -> Seq(Fulfillment)]
    BY <2>1, <2>3, FulfillmentTypes
  <2>5. wh' \in WarehouseState
    BY <1>1, <2>1, <2>2, DecreasedEffect
  <2>6. /\ fulfilled' \in [Line -> Int] /\ taken' \in Int /\ status' \in [Line -> OrderStatus]
        /\ disturbed' \in SUBSET Line
    <3>1. fulfilled' \in [Line -> Int] /\ taken' \in Int
      BY <1>1, <2>1, <2>2
    <3>2. disturbed' \in SUBSET Line
      BY <1>3, Numbers DEF OrderFulfill
    <3> QED BY <1>2, <2>1, <3>1, <3>2
  <2> QED BY <1>1, <1>3, <2>4, <2>5, <2>6 DEF OrderFulfill, TypeOK, OrderStatus
<1>4. ASSUME NEW l \in Line, FulfillmentCancel(l) PROVE TypeOK'
  <2>1. PICK f \in DOMAIN fulfillments[l], w \in Stock :
          /\ IF fulfillments[l][f].lines = <<>>
               THEN UNCHANGED <<wh, fulfilled>>
               ELSE /\ wh' = Increased(wh, l, w, Quantity(fulfillments[l][f]), TRUE)
                    /\ \E i \in DOMAIN fulfillments[l][f].lines :
                         fulfilled' = [fulfilled EXCEPT ![l] = @ - fulfillments[l][f].lines[i]]
          /\ fulfillments' = [fulfillments EXCEPT ![l][f].canceled = TRUE]
          /\ added' = added + Quantity(fulfillments[l][f])
    BY <1>4 DEF FulfillmentCancel
  <2>2. PICK old \in Fulfillment : old = fulfillments[l][f]
    BY FulfillmentTypes
  <2>3. Quantity(old) \in Nat /\ \A i \in DOMAIN old.lines : old.lines[i] \in Nat
    BY QuantityNat DEF Fulfillment
  <2>4. [old EXCEPT !.canceled = TRUE] \in Fulfillment
    BY DEF Fulfillment
  <2>5. fulfillments' = [fulfillments EXCEPT ![l][f] = [old EXCEPT !.canceled = TRUE]]
    BY <2>1, <2>2
  <2>6. fulfillments' \in [Line -> Seq(Fulfillment)]
    BY <2>4, <2>5, FulfillmentTypes
  <2>7. wh' \in WarehouseState /\ fulfilled' \in [Line -> Int] /\ added' \in Int
    <3>1. Increased(wh, l, w, Quantity(old), TRUE) \in WarehouseState
      BY <1>1, <2>3, IncreasedEffect
    <3>2. added' \in Int
      BY <1>1, <2>1, <2>2, <2>3
    <3>3. CASE old.lines = <<>>
      BY <1>1, <2>1, <2>2, <3>2, <3>3
    <3>4. CASE old.lines # <<>>
      <4>1. PICK i \in DOMAIN old.lines : fulfilled' = [fulfilled EXCEPT ![l] = @ - old.lines[i]]
        BY <2>1, <2>2, <3>4
      <4>2. fulfilled' \in [Line -> Int]
        BY <1>1, <2>3, <4>1
      <4> QED BY <2>1, <2>2, <3>1, <3>2, <3>4, <4>2
    <3> QED BY <3>3, <3>4
  <2>8. status' \in [Line -> OrderStatus]
    BY <1>2, <1>4 DEF FulfillmentCancel
  <2> QED BY <1>1, <1>4, <2>6, <2>7, <2>8 DEF FulfillmentCancel, TypeOK, OrderStatus
<1>5. ASSUME NEW s \in Stock, StaffSets(s) PROVE TypeOK'
  <2>1. PICK n \in Counts :
          /\ wh' = QuantitySet(wh, s, n)
          /\ taken' = taken + Positive(wh.quantity[s] - n)
          /\ added' = added + Positive(n - wh.quantity[s])
    BY <1>5 DEF StaffSets
  <2>2. n \in Nat /\ wh.quantity[s] \in Nat
    BY <1>1 DEF WarehouseState
  <2>3. wh' \in WarehouseState
    BY <1>1, <2>1, <2>2, StaffEffect
  <2>4. taken' \in Int /\ added' \in Int
    BY <1>1, <2>1, <2>2 DEF Positive
  <2> QED BY <1>1, <1>5, <2>3, <2>4 DEF StaffSets, TypeOK
<1> QED BY <1>3, <1>4, <1>5

LEMMA SyncTypes ==
  ASSUME TypeOK, NEW r \in Runners,
         \/ StartSync(r) \/ NextRow(r) \/ CreateFulfillment(r) \/ InsertLine(r) \/ SetFulfilled(r)
         \/ DeleteAllocation(r) \/ UpdateQuantity(r) \/ SetStatus(r)
  PROVE  TypeOK'
<1>1. /\ wh \in WarehouseState /\ wh.stocks \in SUBSET Stock
      /\ runner[r] \in Process
  BY DEF TypeOK, WarehouseState
<1>2. CASE StartSync(r)
  <2>1. ToSync \in SUBSET Line /\ ToSync \X wh.stocks \in SUBSET (Line \X Stock)
    BY <1>1 DEF ToSync
  <2>2. RunnerTyped
    BY <1>2, <2>1, ProcessMade, RunnerMoves DEF StartSync
  <2>3. disturbed' \in SUBSET Line
    BY <1>2, <2>1 DEF StartSync, TypeOK
  <2> QED BY <1>2, <2>2, <2>3 DEF StartSync, TypeOK, RunnerTyped, shop, counters
<1>3. ASSUME runner[r].at \in Looping
      PROVE  /\ runner[r].todo \in SUBSET (Line \X Stock) /\ runner[r].orders \in SUBSET Line
             /\ runner[r].ids \in [Line -> Nat]
             /\ Rows(runner[r].todo, runner[r].orders, runner[r].ids) \in Process
  BY <1>1, <1>3, ProcessFields, ProcessMade
<1>4. ASSUME runner[r].at \in InRow
      PROVE  /\ runner[r].row \in Line \X Stock
             /\ runner[r].row[1] \in Line /\ runner[r].row[2] \in Stock
             /\ runner[r].row = <<runner[r].row[1], runner[r].row[2]>>
             /\ \A at \in InRow : Goes(r, at) => RunnerTyped
             /\ runner[r].at \in Looping
  <2>1. /\ runner[r].todo \in SUBSET (Line \X Stock) /\ runner[r].orders \in SUBSET Line
        /\ runner[r].row \in Line \X Stock /\ runner[r].ids \in [Line -> Nat]
        /\ runner[r].at \in Looping
    BY <1>1, <1>4, ProcessFields DEF Looping
  <2>2. \A at \in InRow :
          OfRow(at, runner[r].row, runner[r].todo, runner[r].orders, runner[r].ids) \in Process
    BY <2>1, ProcessMade
  <2>3. \A at \in InRow : Goes(r, at) => RunnerTyped
    BY <2>2, RunnerMoves DEF Goes
  <2> QED BY <2>1, <2>3
<1>5. CASE NextRow(r)
  <2>1. RunnerTyped
    <3>1. "line" \in InRow /\ "fulfillment" \in InRow /\ runner[r].at \in Looping
      BY <1>5 DEF InRow, Looping, NextRow
    <3>2. PICK row \in runner[r].todo, f \in Nat, at \in InRow :
            runner' = [runner EXCEPT ![r] =
              OfRow(at, row, runner[r].todo \ {row}, runner[r].orders,
                    [runner[r].ids EXCEPT ![row[1]] = f])]
      <4>1. PICK row \in runner[r].todo :
              \/ \E f \in (IF runner[r].ids[row[1]] # 0 THEN {runner[r].ids[row[1]]}
                           ELSE 1 .. Len(fulfillments[row[1]])) :
                   runner' = [runner EXCEPT ![r] =
                     OfRow("line", row, runner[r].todo \ {row}, runner[r].orders,
                           [runner[r].ids EXCEPT ![row[1]] = f])]
              \/ runner' = [runner EXCEPT ![r] =
                   OfRow("fulfillment", row, runner[r].todo \ {row}, runner[r].orders,
                         runner[r].ids)]
        BY <1>5 DEF NextRow
      <4>2. row[1] \in Line /\ runner[r].ids \in [Line -> Nat]
        BY <1>3, <3>1, <4>1
      <4>3. [runner[r].ids EXCEPT ![row[1]] = runner[r].ids[row[1]]] = runner[r].ids
        BY <4>2
      <4>4. runner[r].ids[row[1]] \in Nat
        BY <4>2
      <4>5. \A f \in (IF runner[r].ids[row[1]] # 0 THEN {runner[r].ids[row[1]]}
                      ELSE 1 .. Len(fulfillments[row[1]])) : f \in Nat
        BY <4>4
      <4>6. CASE \E f \in (IF runner[r].ids[row[1]] # 0 THEN {runner[r].ids[row[1]]}
                          ELSE 1 .. Len(fulfillments[row[1]])) :
                   runner' = [runner EXCEPT ![r] =
                     OfRow("line", row, runner[r].todo \ {row}, runner[r].orders,
                           [runner[r].ids EXCEPT ![row[1]] = f])]
        BY <3>1, <4>5, <4>6
      <4>7. CASE runner' = [runner EXCEPT ![r] =
                   OfRow("fulfillment", row, runner[r].todo \ {row}, runner[r].orders,
                         runner[r].ids)]
        <5>1. runner' = [runner EXCEPT ![r] =
                   OfRow("fulfillment", row, runner[r].todo \ {row}, runner[r].orders,
                         [runner[r].ids EXCEPT ![row[1]] = runner[r].ids[row[1]]])]
          BY <4>3, <4>7
        <5> QED BY <3>1, <4>4, <5>1
      <4> QED BY <4>1, <4>6, <4>7
    <3>3. row \in Line \X Stock /\ runner[r].todo \ {row} \in SUBSET (Line \X Stock)
          /\ [runner[r].ids EXCEPT ![row[1]] = f] \in [Line -> Nat]
      BY <1>3, <3>1, <3>2
    <3>4. runner[r].orders \in SUBSET Line
      BY <1>3, <3>1
    <3>5. OfRow(at, row, runner[r].todo \ {row}, runner[r].orders,
                [runner[r].ids EXCEPT ![row[1]] = f]) \in Process
      BY <3>2, <3>3, <3>4, ProcessMade
    <3> QED BY <3>2, <3>5, RunnerMoves
  <2> QED BY <1>5, <2>1 DEF NextRow, TypeOK, RunnerTyped, shop, counters, history
<1>6. CASE CreateFulfillment(r)
  <2>1. runner[r].at \in InRow /\ "line" \in InRow
    BY <1>6 DEF CreateFulfillment, InRow
  <2>2. PICK l \in Line : l = runner[r].row[1]
    BY <1>4, <2>1
  <2>3. [canceled |-> FALSE, lines |-> <<>>] \in Fulfillment
    BY DEF Fulfillment
  <2>4. fulfillments' = [fulfillments EXCEPT ![l] = Append(@, [canceled |-> FALSE, lines |-> <<>>])]
    BY <1>6, <2>2 DEF CreateFulfillment
  <2>5. fulfillments' \in [Line -> Seq(Fulfillment)]
    BY <2>3, <2>4, FulfillmentTypes
  <2>6. [runner[r].ids EXCEPT ![l] = Len(fulfillments'[l])] \in [Line -> Nat]
    <3>1. Len(fulfillments'[l]) \in Nat
      BY <2>5
    <3> QED BY <1>3, <1>4, <2>1, <3>1
  <2>7. OfRow("line", runner[r].row, runner[r].todo, runner[r].orders,
              [runner[r].ids EXCEPT ![l] = Len(fulfillments'[l])]) \in Process
    BY <1>3, <1>4, <2>1, <2>6, ProcessMade
  <2>8. runner' = [runner EXCEPT ![r] =
          OfRow("line", runner[r].row, runner[r].todo, runner[r].orders,
                [runner[r].ids EXCEPT ![l] = Len(fulfillments'[l])])]
    BY <1>6, <2>2 DEF CreateFulfillment
  <2>9. RunnerTyped
    BY <2>7, <2>8, RunnerMoves
  <2> QED BY <1>6, <2>5, <2>9 DEF CreateFulfillment, TypeOK, RunnerTyped, counters, history
<1>7. CASE InsertLine(r)
  <2>1. runner[r].row[1] \in Line /\ RunnerTyped
    BY <1>4, <1>7 DEF InsertLine, InRow
  <2>2. PICK l \in Line : l = runner[r].row[1]
    BY <2>1
  <2>3. fulfillments' = [fulfillments EXCEPT ![l][runner[r].ids[l]] =
                           WithLine(fulfillments[l][runner[r].ids[l]], Ordered[l])]
    BY <1>7, <2>2 DEF InsertLine
  <2>4. \A x \in Fulfillment, n \in Nat : WithLine(x, n) \in Fulfillment
    BY DEF Fulfillment, WithLine
  <2>5. Ordered[l] \in Nat
    OBVIOUS
  <2>6. fulfillments' \in [Line -> Seq(Fulfillment)]
    BY <2>3, <2>4, <2>5, FulfillmentTypes
  <2> QED BY <1>7, <2>1, <2>6 DEF InsertLine, TypeOK, RunnerTyped, counters, history
<1>8. CASE SetFulfilled(r)
  <2>1. runner[r].row[1] \in Line /\ RunnerTyped
    BY <1>4, <1>8 DEF SetFulfilled, InRow
  <2>2. fulfilled' \in [Line -> Int]
    BY <1>8, <2>1, Numbers DEF SetFulfilled
  <2> QED BY <1>8, <2>1, <2>2 DEF SetFulfilled, TypeOK, RunnerTyped, counters, history
<1>9. CASE DeleteAllocation(r)
  <2>1. /\ runner[r].row[1] \in Line /\ runner[r].row[2] \in Stock
        /\ runner[r].row = <<runner[r].row[1], runner[r].row[2]>> /\ RunnerTyped
    BY <1>4, <1>9 DEF DeleteAllocation, InRow
  <2>2. wh' \in WarehouseState
    BY <1>1, <1>9, <2>1, StatementTypes DEF DeleteAllocation
  <2> QED BY <1>9, <2>1, <2>2 DEF DeleteAllocation, TypeOK, RunnerTyped, counters, history
<1>10. CASE UpdateQuantity(r)
  <2>1. runner[r].at \in InRow /\ runner[r].row[1] \in Line
    BY <1>4, <1>10 DEF UpdateQuantity, InRow
  <2>2. RunnerTyped
    BY <1>3, <1>4, <1>10, <2>1, RunnerMoves DEF UpdateQuantity
  <2>3. SubtractedTo0(Ordered[runner[r].row[1]]) \in [Stock -> Nat]
    BY <1>1, <2>1 DEF SubtractedTo0, WarehouseState, Positive
  <2>4. wh' \in WarehouseState
    BY <1>1, <1>10, <2>3 DEF UpdateQuantity, WarehouseState, Tables
  <2> QED BY <1>10, <2>2, <2>4 DEF UpdateQuantity, TypeOK, RunnerTyped, counters, history
<1>11. CASE SetStatus(r)
  <2>1. runner[r].orders \in SUBSET Line
    BY <1>1, <1>11, ProcessFields DEF SetStatus, Looping
  <2>2. RunnerTyped
    BY <1>11, <2>1, ProcessMade, RunnerMoves DEF SetStatus
  <2>3. status' \in [Line -> OrderStatus]
    BY <1>11 DEF SetStatus, TypeOK, OrderStatus
  <2> QED BY <1>11, <2>2, <2>3 DEF SetStatus, TypeOK, RunnerTyped, counters, history, OrderStatus
<1> QED BY <1>2, <1>5, <1>6, <1>7, <1>8, <1>9, <1>10, <1>11

LEMMA OtherTypes ==
  ASSUME TypeOK, NEW r \in Runners,
         \/ Adjust(r) \/ AdjustFails(r) \/ MarkAdjusted(r)
         \/ StartImport(r) \/ Import(r) \/ Crash(r)
  PROVE  TypeOK'
<1>1. /\ wh \in WarehouseState /\ runner[r] \in Process /\ shopkeep \in Int
      /\ taken \in Int /\ added \in Int
  BY DEF TypeOK
<1>2. ASSUME runner[r].at = "adjust", NEW l \in runner[r].todo, NEW okay \in BOOLEAN,
             Marks(r, l, okay)
      PROVE  RunnerTyped
  <2>1. l \in Line /\ runner[r].todo \ {l} \in SUBSET Line
    BY <1>1, <1>2, ProcessFields
  <2> QED BY <1>2, <2>1, ProcessMade, RunnerMoves DEF Marks
<1>3. CASE Adjust(r)
  <2>1. RunnerTyped
    BY <1>2, <1>3 DEF Adjust
  <2>2. shopkeep' \in Int
    <3>1. PICK l \in runner[r].todo : shopkeep' = shopkeep - Adjustment(l)
      BY <1>3 DEF Adjust
    <3>2. l \in Line
      BY <1>1, <1>3, ProcessFields DEF Adjust
    <3> QED BY <1>1, <3>1, <3>2, AdjustmentInt
  <2> QED BY <1>3, <2>1, <2>2 DEF Adjust, TypeOK, RunnerTyped, shop, counters, history
<1>4. CASE AdjustFails(r)
  <2>1. RunnerTyped
    BY <1>2, <1>4 DEF AdjustFails
  <2>2. failures' \in 0 .. MaxFailures
    BY <1>4, Numbers DEF AdjustFails
  <2>3. taken' \in Int
    <3>1. PICK l \in runner[r].todo : taken' = taken + Ordered[l]
      BY <1>4 DEF AdjustFails
    <3>2. l \in Line
      BY <1>1, <1>4, ProcessFields DEF AdjustFails
    <3> QED BY <1>1, <3>1, <3>2
  <2> QED BY <1>4, <2>1, <2>2, <2>3 DEF AdjustFails, TypeOK, RunnerTyped, shop
<1>5. CASE MarkAdjusted(r)
  <2>1. runner[r].todo \in SUBSET Line /\ runner[r].order \in Line
    BY <1>1, <1>5, ProcessFields DEF MarkAdjusted
  <2>2. RunnerTyped
    BY <1>5, <2>1, ProcessMade, RunnerMoves DEF MarkAdjusted
  <2>3. synced' \in [Line -> SUBSET {0, 1}]
    BY <1>5, <2>1 DEF MarkAdjusted, Marked, TypeOK
  <2> QED BY <1>5, <2>2, <2>3 DEF MarkAdjusted, TypeOK, RunnerTyped, shop, counters, history
<1>6. CASE StartImport(r)
  <2>1. RunnerTyped
    BY <1>1, <1>6, ProcessMade, RunnerMoves DEF StartImport
  <2> QED BY <1>6, <2>1 DEF StartImport, TypeOK, RunnerTyped, shop, counters, history
<1>7. CASE Import(r)
  <2>1. RunnerTyped
    BY <1>7, ProcessMade, RunnerMoves DEF Import
  <2>2. wh' \in WarehouseState
    <3>1. 1 \in wh.stocks => 1 \in Stock
      BY <1>1 DEF WarehouseState
    <3>2. Positive(runner[r].file) \in Nat
      BY <1>1, <1>7, ProcessFields DEF Import, Positive
    <3> QED BY <1>1, <1>7, <3>1, <3>2, StaffEffect DEF Import
  <2>3. taken' \in Int /\ added' \in Int
    <3>1. Owed \in Int /\ runner[r].file \in Int
      BY <1>1, <1>7, UntoldNat, ProcessFields DEF Import
    <3> QED BY <1>1, <1>7, <3>1 DEF Import, Positive
  <2> QED BY <1>7, <2>1, <2>2, <2>3 DEF Import, TypeOK, RunnerTyped, counters
<1>8. CASE Crash(r)
  <2>1. RunnerTyped
    BY <1>8, ProcessMade, RunnerMoves DEF Crash
  <2>2. crashes' \in 0 .. MaxCrashes
    BY <1>8, Numbers DEF Crash
  <2>3. Working(r) \in SUBSET Line
    <3>1. CASE runner[r].at \in Looping
      BY <1>1, <3>1, ProcessFields DEF Working
    <3>2. CASE runner[r].at \notin Looping
      BY <1>1, <3>2, ProcessFields DEF Working
    <3> QED BY <3>1, <3>2
  <2>4. disturbed' \in SUBSET Line /\ taken' \in Int
    BY <1>8, <2>3, UntoldNat, Numbers DEF Crash
  <2> QED BY <1>8, <2>1, <2>2, <2>4 DEF Crash, TypeOK, RunnerTyped, shop
<1> QED BY <1>3, <1>4, <1>5, <1>6, <1>7, <1>8

LEMMA NextTypeOK == TypeOK /\ [Next]_vars => TypeOK'
<1> SUFFICES ASSUME TypeOK, [Next]_vars PROVE TypeOK'
  OBVIOUS
<1>1. CASE StoreSells
  <2>1. shopkeep' \in Int /\ sales' \in 0 .. MaxSales /\ added' \in Int
    BY <1>1, Numbers DEF StoreSells
  <2> QED BY <1>1, <2>1 DEF StoreSells, TypeOK, shop
<1>2. CASE UNCHANGED vars
  BY <1>2 DEF vars, counters, history, TypeOK
<1> QED BY <1>1, <1>2, ShopStep, StaffStep, SyncTypes, OtherTypes DEF Next, Proceed

THEOREM TypesHold == Spec => []TypeOK
BY InitTypeOK, NextTypeOK, PTL DEF Spec

-----------------------------------------------------------------------------
(* What has its OrderSync row is left alone.                               *)

\* The rows a process has before it are of the orders it selected.
Selected ==
  \A r \in Runners :
    LET p == runner[r]
    IN  /\ p.at \in Looping => \A row \in p.todo : row[1] \in p.orders
        /\ p.at \in InRow => p.row[1] \in p.orders

\* A step of the program counter of process r, and nobody else's.
LEMMA OnlyOne ==
  ASSUME TypeOK, NEW r \in Runners, NEW p, runner' = [runner EXCEPT ![r] = p]
  PROVE  /\ runner'[r] = p
         /\ \A q \in Runners : q # r => runner'[q] = runner[q]
BY DEF TypeOK

\* The next row, whatever fulfillment was found for it.
LEMMA NextRowGoes ==
  ASSUME TypeOK, NEW r \in Runners, NextRow(r)
  PROVE  /\ runner[r].at = "rows"
         /\ \A q \in Runners : q # r => runner'[q] = runner[q]
         /\ \E row \in runner[r].todo, at \in {"fulfillment", "line"}, ids \in [Line -> Nat] :
              /\ runner'[r] = OfRow(at, row, runner[r].todo \ {row}, runner[r].orders, ids)
              /\ at = "line" => runner[r].ids[row[1]] # 0 \/ Len(fulfillments[row[1]]) > 0
<1>0. /\ runner[r].ids \in [Line -> Nat]
      /\ runner[r].todo \in SUBSET (Line \X Stock)
  BY ProcessFields DEF TypeOK, NextRow, Looping
<1>1. PICK row \in runner[r].todo, at \in {"fulfillment", "line"}, ids \in [Line -> Nat] :
        /\ runner' = [runner EXCEPT ![r] =
             OfRow(at, row, runner[r].todo \ {row}, runner[r].orders, ids)]
        /\ at = "line" => runner[r].ids[row[1]] # 0 \/ 1 .. Len(fulfillments[row[1]]) # {}
  <2>1. PICK row \in runner[r].todo :
          \/ \E f \in IF runner[r].ids[row[1]] # 0 THEN {runner[r].ids[row[1]]}
                      ELSE 1 .. Len(fulfillments[row[1]]) :
               runner' = [runner EXCEPT ![r] =
                  OfRow("line", row, runner[r].todo \ {row}, runner[r].orders,
                        [runner[r].ids EXCEPT ![row[1]] = f])]
          \/ runner' = [runner EXCEPT ![r] =
                OfRow("fulfillment", row, runner[r].todo \ {row}, runner[r].orders, runner[r].ids)]
    BY DEF NextRow
  <2>2. row[1] \in Line /\ runner[r].ids[row[1]] \in Nat
    BY <1>0
  <2>3. \A f \in Nat : [runner[r].ids EXCEPT ![row[1]] = f] \in [Line -> Nat]
    BY <1>0
  <2>4. CASE runner' = [runner EXCEPT ![r] =
                OfRow("fulfillment", row, runner[r].todo \ {row}, runner[r].orders, runner[r].ids)]
    BY <1>0, <2>4
  <2>5. CASE \E f \in IF runner[r].ids[row[1]] # 0 THEN {runner[r].ids[row[1]]}
                      ELSE 1 .. Len(fulfillments[row[1]]) :
               runner' = [runner EXCEPT ![r] =
                  OfRow("line", row, runner[r].todo \ {row}, runner[r].orders,
                        [runner[r].ids EXCEPT ![row[1]] = f])]
    <3>1. fulfillments[row[1]] \in Seq(Fulfillment)
      BY <2>2 DEF TypeOK
    <3>2. \A f \in 1 .. Len(fulfillments[row[1]]) : f \in Nat
      BY <3>1
    <3>3. PICK f : /\ f \in IF runner[r].ids[row[1]] # 0 THEN {runner[r].ids[row[1]]}
                             ELSE 1 .. Len(fulfillments[row[1]])
                   /\ runner' = [runner EXCEPT ![r] =
                        OfRow("line", row, runner[r].todo \ {row}, runner[r].orders,
                              [runner[r].ids EXCEPT ![row[1]] = f])]
      BY <2>5
    <3>4. f \in Nat
      BY <2>2, <3>2, <3>3
    <3>5. [runner[r].ids EXCEPT ![row[1]] = f] \in [Line -> Nat]
      BY <2>3, <3>4
    <3>6. runner[r].ids[row[1]] # 0 \/ 1 .. Len(fulfillments[row[1]]) # {}
      BY <3>3
    <3> QED BY <3>3, <3>5, <3>6
  <2> QED BY <2>1, <2>4, <2>5
<1>2. /\ runner'[r] = OfRow(at, row, runner[r].todo \ {row}, runner[r].orders, ids)
      /\ \A q \in Runners : q # r => runner'[q] = runner[q]
  BY <1>1, OnlyOne
<1>3. row \in Line \X Stock
  <2>1. runner[r] \in Process /\ runner[r].at \in Looping
    BY DEF TypeOK, NextRow, Looping
  <2> QED BY <1>1, <2>1, ProcessFields
<1>4. fulfillments[row[1]] \in Seq(Fulfillment)
  BY <1>3 DEF TypeOK
<1>5. Len(fulfillments[row[1]]) \in Nat
  BY <1>4
<1>6. 1 .. Len(fulfillments[row[1]]) # {} => Len(fulfillments[row[1]]) > 0
  BY <1>5
<1> QED BY <1>1, <1>2, <1>6 DEF NextRow

\* What a step of a process does to the orders it works on.  Selecting orders is
\* the only way to get new ones, and it takes none that has a row.
Follows(r) ==
  /\ \A q \in Runners : q # r => runner'[q] = runner[q]
  /\ Working(r)' \subseteq Working(r) \union ToSync
  /\ LET p == runner'[r]
     IN  /\ p.at \in Looping => \A row \in p.todo : row[1] \in p.orders
         /\ p.at \in InRow => p.row[1] \in p.orders

LEMMA RunnerFollows ==
  ASSUME TypeOK, Selected, NEW r \in Runners,
         StartSync(r) \/ StartImport(r) \/ Proceed(r) \/ Crash(r)
  PROVE  Follows(r)
<1> USE DEF Looping, InRow, Rows, OfRow
<1>1. runner[r] \in Process
  BY DEF TypeOK
<1>2. CASE StartSync(r)
  <2>1. runner'[r] = Rows(ToSync \X wh.stocks, ToSync, [l \in Line |-> 0])
        /\ \A q \in Runners : q # r => runner'[q] = runner[q]
    BY <1>2, OnlyOne DEF StartSync
  <2>2. Working(r)' = ToSync
    BY <2>1 DEF Working
  <2> QED BY <2>1, <2>2 DEF Follows
<1>3. CASE NextRow(r)
  <2>1. PICK row \in runner[r].todo, at \in {"fulfillment", "line"}, ids \in [Line -> Nat] :
          /\ runner'[r] = OfRow(at, row, runner[r].todo \ {row}, runner[r].orders, ids)
    BY <1>3, NextRowGoes
  <2>2. runner[r].at = "rows" /\ \A q \in Runners : q # r => runner'[q] = runner[q]
    BY <1>3, NextRowGoes
  <2>3. Working(r)' = runner[r].orders /\ Working(r) = runner[r].orders
    BY <2>1, <2>2 DEF Working
  <2> QED BY <2>1, <2>2, <2>3 DEF Follows, Selected
<1>4. ASSUME runner[r].at \in InRow, NEW at \in InRow, NEW ids,
             runner' = [runner EXCEPT ![r] =
                OfRow(at, runner[r].row, runner[r].todo, runner[r].orders, ids)]
      PROVE  Follows(r)
  <2>1. /\ runner'[r] = OfRow(at, runner[r].row, runner[r].todo, runner[r].orders, ids)
        /\ \A q \in Runners : q # r => runner'[q] = runner[q]
    BY <1>4, OnlyOne
  <2>2. Working(r)' = runner[r].orders /\ Working(r) = runner[r].orders
    BY <1>4, <2>1 DEF Working
  <2> QED BY <1>4, <2>1, <2>2 DEF Follows, Selected
<1>5. CASE CreateFulfillment(r) \/ InsertLine(r) \/ SetFulfilled(r) \/ DeleteAllocation(r)
  BY <1>4, <1>5 DEF CreateFulfillment, InsertLine, SetFulfilled, DeleteAllocation, Goes
<1>6. CASE UpdateQuantity(r)
  <2>1. /\ runner'[r] = Rows(runner[r].todo, runner[r].orders, runner[r].ids)
        /\ \A q \in Runners : q # r => runner'[q] = runner[q]
    BY <1>6, OnlyOne DEF UpdateQuantity
  <2>2. Working(r)' = runner[r].orders /\ Working(r) = runner[r].orders
    BY <1>6, <2>1 DEF UpdateQuantity, Working
  <2> QED BY <1>6, <2>1, <2>2 DEF Follows, Selected, UpdateQuantity
<1>7. CASE SetStatus(r)
  <2>1. /\ runner'[r] = [at |-> "adjust", todo |-> runner[r].orders]
        /\ \A q \in Runners : q # r => runner'[q] = runner[q]
    BY <1>7, OnlyOne DEF SetStatus
  <2>2. Working(r)' = runner[r].orders /\ Working(r) = runner[r].orders
    BY <1>7, <2>1 DEF SetStatus, Working
  <2> QED BY <2>1, <2>2 DEF Follows
<1>8. CASE Adjust(r) \/ AdjustFails(r)
  <2>1. PICK l \in runner[r].todo, okay \in BOOLEAN : Marks(r, l, okay)
    BY <1>8 DEF Adjust, AdjustFails
  <2>2. /\ runner'[r] = [at |-> "mark", order |-> l, okay |-> okay, todo |-> runner[r].todo \ {l}]
        /\ \A q \in Runners : q # r => runner'[q] = runner[q]
    BY <2>1, OnlyOne DEF Marks
  <2>3. Working(r) = runner[r].todo
    BY <1>8 DEF Adjust, AdjustFails, Working
  <2>4. Working(r)' = (runner[r].todo \ {l}) \union {l}
    BY <2>2 DEF Working
  <2> QED BY <2>1, <2>2, <2>3, <2>4 DEF Follows
<1>9. CASE MarkAdjusted(r)
  <2>1. /\ runner'[r] = IF runner[r].todo = {} THEN Idle
                        ELSE [at |-> "adjust", todo |-> runner[r].todo]
        /\ \A q \in Runners : q # r => runner'[q] = runner[q]
    BY <1>9, OnlyOne DEF MarkAdjusted
  <2>2. Working(r) = runner[r].todo \union {runner[r].order}
    BY <1>9 DEF MarkAdjusted, Working
  <2>3. CASE runner[r].todo = {}
    <3>1. runner'[r].at = "idle"
      BY <2>1, <2>3 DEF Idle
    <3>2. Working(r)' = {}
      BY <3>1 DEF Working
    <3> QED BY <2>1, <3>1, <3>2 DEF Follows
  <2>4. CASE runner[r].todo # {}
    <3>1. runner'[r] = [at |-> "adjust", todo |-> runner[r].todo]
      BY <2>1, <2>4
    <3>2. Working(r)' = runner[r].todo
      BY <3>1 DEF Working
    <3> QED BY <2>1, <2>2, <3>1, <3>2 DEF Follows
  <2> QED BY <2>3, <2>4
<1>10. CASE StartImport(r) \/ Import(r) \/ Crash(r)
  <2>1. /\ runner'[r].at \in {"idle", "import"}
        /\ \A q \in Runners : q # r => runner'[q] = runner[q]
    <3>1. PICK p \in {Idle, [at |-> "import", file |-> shopkeep]} :
            runner' = [runner EXCEPT ![r] = p]
      BY <1>10 DEF StartImport, Import, Crash
    <3>2. p.at \in {"idle", "import"}
      BY DEF Idle
    <3> QED BY <3>1, <3>2, OnlyOne
  <2>2. Working(r)' = {}
    BY <2>1 DEF Working
  <2> QED BY <2>1, <2>2 DEF Follows
<1> QED BY <1>2, <1>3, <1>5, <1>6, <1>7, <1>8, <1>9, <1>10 DEF Proceed

\* The steps of the shop, its staff and the store.
Outside ==
  \/ \E l \in Line : Place(l) \/ Draft(l) \/ Cancel(l) \/ OrderFulfill(l) \/ FulfillmentCancel(l)
  \/ \E s \in Stock : StaffSets(s)
  \/ StoreSells

LEMMA OutsideRunner == Outside => UNCHANGED <<runner, synced>>
BY DEF Outside, Place, Draft, Cancel, OrderFulfill, FulfillmentCancel, StaffSets, StoreSells

LEMMA NextSelected == TypeOK /\ Selected /\ [Next]_vars => Selected'
<1> SUFFICES ASSUME TypeOK, Selected, [Next]_vars PROVE Selected'
  OBVIOUS
<1>1. CASE UNCHANGED runner
  BY <1>1 DEF Selected
<1>2. ASSUME NEW r \in Runners, StartSync(r) \/ StartImport(r) \/ Proceed(r) \/ Crash(r)
      PROVE  Selected'
  <2>1. Follows(r)
    BY <1>2, RunnerFollows
  <2>2. ASSUME NEW q \in Runners
        PROVE  /\ runner'[q].at \in Looping =>
                    \A row \in runner'[q].todo : row[1] \in runner'[q].orders
               /\ runner'[q].at \in InRow => runner'[q].row[1] \in runner'[q].orders
    <3>1. CASE q = r
      BY <2>1, <3>1 DEF Follows
    <3>2. CASE q # r
      BY <2>1, <3>2 DEF Follows, Selected
    <3> QED BY <3>1, <3>2
  <2> QED BY <2>2 DEF Selected
<1>3. Outside => UNCHANGED runner
  BY OutsideRunner
<1> QED BY <1>1, <1>2, <1>3 DEF Next, Outside, vars

\* The orders that a process touches are among those it works on.
LEMMA Touches ==
  ASSUME TypeOK, Selected, NEW r \in Runners,
         StartSync(r) \/ StartImport(r) \/ Proceed(r) \/ Crash(r),
         NEW l \in Line, l \notin Working(r)
  PROVE  /\ fulfillments'[l] = fulfillments[l]
         /\ fulfilled'[l] = fulfilled[l]
         /\ status'[l] = status[l]
         /\ wh'.allocated[l] = wh.allocated[l]
<1>1. CASE UNCHANGED shop
  BY <1>1 DEF shop
<1>2. ASSUME runner[r].at \in InRow PROVE runner[r].row[1] # l
  BY <1>2 DEF Selected, Working, Looping, InRow
<1>3. CASE CreateFulfillment(r)
  <2>1. runner[r].row[1] # l
    BY <1>2, <1>3 DEF CreateFulfillment, InRow
  <2> QED BY <1>3, <2>1 DEF CreateFulfillment, TypeOK
<1>4. CASE InsertLine(r)
  <2>1. runner[r].row[1] # l
    BY <1>2, <1>4 DEF InsertLine, InRow
  <2> QED BY <1>4, <2>1 DEF InsertLine, TypeOK
<1>5. CASE SetFulfilled(r)
  <2>1. runner[r].row[1] # l
    BY <1>2, <1>5 DEF SetFulfilled, InRow
  <2> QED BY <1>5, <2>1 DEF SetFulfilled, TypeOK
<1>6. CASE DeleteAllocation(r)
  <2>1. runner[r].row[1] # l
    BY <1>2, <1>6 DEF DeleteAllocation, InRow
  <2>2. wh.allocated \in [Line -> [Stock -> Nat]]
    BY DEF TypeOK, WarehouseState
  <2>3. wh'.allocated[l] = wh.allocated[l]
    BY <1>6, <2>1, <2>2 DEF DeleteAllocation, Tables
  <2> QED BY <1>6, <2>3 DEF DeleteAllocation
<1>7. CASE UpdateQuantity(r)
  BY <1>7 DEF UpdateQuantity, Tables
<1>8. CASE SetStatus(r)
  <2>1. l \notin runner[r].orders
    BY <1>8 DEF SetStatus, Working, Looping
  <2> QED BY <1>8, <2>1 DEF SetStatus
<1>9. CASE Import(r)
  BY <1>9 DEF Import, QuantitySet, Tables
<1>10. \/ UNCHANGED shop \/ CreateFulfillment(r) \/ InsertLine(r) \/ SetFulfilled(r)
       \/ DeleteAllocation(r) \/ UpdateQuantity(r) \/ SetStatus(r) \/ Import(r)
  BY DEF Proceed, StartSync, StartImport, Crash, NextRow, Adjust, AdjustFails, MarkAdjusted
<1> QED BY <1>1, <1>3, <1>4, <1>5, <1>6, <1>7, <1>8, <1>9, <1>10

LEMMA MarkedStep ==
  ASSUME TypeOK, Selected, [Next]_vars, NEW l \in Line,
         synced[l] # {}, \A r \in Runners : l \notin Working(r), runner' # runner
  PROVE  /\ fulfillments'[l] = fulfillments[l]
         /\ fulfilled'[l] = fulfilled[l]
         /\ status'[l] = status[l]
         /\ wh'.allocated[l] = wh.allocated[l]
         /\ \A r \in Runners : l \notin Working(r)'
<1>1. ~ Outside /\ ~ UNCHANGED vars
  BY OutsideRunner DEF vars
<1>2. PICK r \in Runners : StartSync(r) \/ StartImport(r) \/ Proceed(r) \/ Crash(r)
  BY <1>1 DEF Next, Outside
<1>3. Follows(r)
  BY <1>2, RunnerFollows
<1>4. l \notin ToSync
  BY DEF ToSync
<1>5. ASSUME NEW q \in Runners PROVE l \notin Working(q)'
  <2>1. CASE q = r
    BY <1>3, <1>4, <2>1 DEF Follows
  <2>2. CASE q # r
    BY <1>3, <2>2 DEF Follows, Working
  <2> QED BY <2>1, <2>2
<1> QED BY <1>2, <1>5, Touches

\* With any number of overlapping, dying and failing processes, an OrderSync row
\* ends the order's part in the sync.
THEOREM MarkedStaysDone == Spec => MarkedNeverAgain
<1>1. Init => Selected
  BY DEF Init, Selected, Idle, Looping, InRow
<1>2. Spec => []Selected
  BY <1>1, NextSelected, TypesHold, PTL DEF Spec
<1>3. TypeOK /\ Selected /\ [Next]_vars =>
        [\A l \in Line :
           synced[l] # {} /\ (\A r \in Runners : l \notin Working(r)) /\ runner' # runner =>
             /\ fulfillments'[l] = fulfillments[l]
             /\ fulfilled'[l] = fulfilled[l]
             /\ status'[l] = status[l]
             /\ wh'.allocated[l] = wh.allocated[l]
             /\ \A r \in Runners : l \notin Working(r)']_vars
  BY MarkedStep
<1> QED BY <1>2, <1>3, TypesHold, PTL DEF Spec, MarkedNeverAgain

-----------------------------------------------------------------------------
(* How far a process is with an order, when there is one warehouse: the    *)
(* query returned one row for it.                                          *)

StageAt(at) ==
  IF at = "fulfillment" THEN "before" ELSE IF at \in {"line", "fulfilled"} THEN at ELSE "saved"

Stage(p, l) ==
  IF p.at \in Looping
    THEN IF l \notin p.orders THEN "none"
         ELSE IF \E row \in p.todo : row[1] = l THEN "before"
         ELSE IF p.at \in InRow /\ p.row[1] = l THEN StageAt(p.at)
         ELSE "subtracted"
    ELSE IF p.at = "mark" /\ p.order = l THEN "told"
         ELSE IF p.at \in {"adjust", "mark"} /\ l \in p.todo THEN "subtracted"
         ELSE "none"

LEMMA StageMeans ==
  ASSUME TypeOK, NEW r \in Runners, NEW l \in Line
  PROVE  /\ l \in Working(r) <=> Stage(runner[r], l) # "none"
         /\ l \in Past(r, {"fulfillment", "line", "fulfilled"})
              <=> Stage(runner[r], l) \in {"saved", "subtracted", "told"}
         /\ l \in Past(r, InRow) \ (IF runner[r].at = "mark" THEN {runner[r].order} ELSE {})
              <=> Stage(runner[r], l) = "subtracted"
<1>1. PICK p \in Process : p = runner[r]
  BY DEF TypeOK
<1>2. l \in Working(r) <=> Stage(p, l) # "none"
  BY <1>1, ProcessFields DEF Working, Stage, StageAt, Looping, InRow
<1>3. l \in Past(r, {"fulfillment", "line", "fulfilled"})
        <=> Stage(p, l) \in {"saved", "subtracted", "told"}
  BY <1>1, ProcessFields DEF Past, Working, Stage, StageAt, Looping, InRow
<1>4. l \in Past(r, InRow) \ (IF p.at = "mark" THEN {p.order} ELSE {})
        <=> Stage(p, l) = "subtracted"
  BY <1>1, ProcessFields DEF Past, Working, Stage, StageAt, Looping, InRow
<1> QED BY <1>1, <1>2, <1>3, <1>4

\* The row a process is at is the last of its order; so is the order it marks.
Separate ==
  \A r \in Runners :
    LET p == runner[r]
    IN  /\ p.at \in InRow => \A row \in p.todo : row[1] # p.row[1]
        /\ p.at = "mark" => p.order \notin p.todo

\* The shop's stocks stay.
Stocked == wh.stocks = Stock

\* Process r, and no other, takes order l from one stage to another; or goes on
\* without that.
Alone(r) == \A q \in Runners : q # r => runner'[q] = runner[q]

Moved(r, l, from, to) ==
  /\ Alone(r)
  /\ Stage(runner[r], l) = from
  /\ Stage(runner'[r], l) = to
  /\ \A k \in Line : k # l => Stage(runner'[r], k) = Stage(runner[r], k)

Stays(r) == Alone(r) /\ \A k \in Line : Stage(runner'[r], k) = Stage(runner[r], k)

LEMMA SyncStarts ==
  ASSUME TypeOK, NumStocks = 1, Stocked, NEW r \in Runners, StartSync(r)
  PROVE  /\ Alone(r)
         /\ \A k \in Line : /\ Stage(runner[r], k) = "none"
                            /\ Stage(runner'[r], k) = IF k \in ToSync THEN "before" ELSE "none"
<1>1. runner'[r] = Rows(ToSync \X wh.stocks, ToSync, [l \in Line |-> 0]) /\ Alone(r)
  BY OnlyOne DEF StartSync, Alone
<1>2. \A k \in ToSync : \E row \in ToSync \X wh.stocks : row[1] = k
  <2>1. 1 \in wh.stocks
    BY DEF Stocked, Stock
  <2>2. \A k \in ToSync : <<k, 1>> \in ToSync \X wh.stocks /\ <<k, 1>>[1] = k
    BY <2>1
  <2> QED BY <2>2
<1>3. runner[r].at = "idle"
  BY DEF StartSync
<1> QED BY <1>1, <1>2, <1>3 DEF Stage, Looping, InRow, Rows

\* One row of an order is all of them.
LEMMA RowOfOrder ==
  ASSUME NumStocks = 1, NEW v \in Line \X Stock, NEW w \in Line \X Stock, v[1] = w[1]
  PROVE  v = w
<1>1. Stock = {1}
  BY DEF Stock
<1> QED BY <1>1

LEMMA RowStarts ==
  ASSUME TypeOK, Selected, NumStocks = 1, NEW r \in Runners, NextRow(r)
  PROVE  \E l \in Line, to \in {"before", "line"} : Moved(r, l, "before", to)
<1>1. PICK p \in Process : p = runner[r]
  BY DEF TypeOK
<1>2. p.at = "rows" /\ Alone(r)
  BY <1>1, NextRowGoes DEF Alone
<1>3. PICK row \in p.todo, at \in {"fulfillment", "line"}, ids \in [Line -> Nat] :
        /\ runner'[r] = OfRow(at, row, p.todo \ {row}, p.orders, ids)
  BY <1>1, NextRowGoes
<1>4. /\ p.todo \in SUBSET (Line \X Stock) /\ row \in Line \X Stock /\ row[1] \in Line
      /\ row[1] \in p.orders
  BY <1>1, <1>2, <1>3, ProcessFields DEF Looping, Selected
<1>5. \A w \in p.todo \ {row} : w[1] # row[1]
  BY <1>3, <1>4, RowOfOrder
<1>6. Stage(p, row[1]) = "before"
  BY <1>2, <1>3, <1>4 DEF Stage, Looping
<1>7. Stage(runner'[r], row[1]) = StageAt(at)
  BY <1>3, <1>4, <1>5 DEF Stage, Looping, InRow, OfRow
<1>8. ASSUME NEW k \in Line, k # row[1] PROVE Stage(runner'[r], k) = Stage(p, k)
  <2>1. (\E w \in p.todo \ {row} : w[1] = k) <=> (\E w \in p.todo : w[1] = k)
    BY <1>8
  <2> QED BY <1>2, <1>3, <1>8, <2>1 DEF Stage, Looping, InRow, OfRow
<1>9. StageAt(at) \in {"before", "line"}
  BY <1>3 DEF StageAt
<1> QED BY <1>1, <1>2, <1>4, <1>6, <1>7, <1>8, <1>9 DEF Moved

\* From one statement to the next with the same row.
LEMMA RowGoesOn ==
  ASSUME TypeOK, Selected, Separate, NEW r \in Runners, runner[r].at \in InRow,
         NEW at \in InRow, NEW ids,
         runner' = [runner EXCEPT ![r] =
            OfRow(at, runner[r].row, runner[r].todo, runner[r].orders, ids)]
  PROVE  /\ runner[r].row[1] \in Line
         /\ Moved(r, runner[r].row[1], StageAt(runner[r].at), StageAt(at))
<1>1. PICK p \in Process : p = runner[r]
  BY DEF TypeOK
<1>2. runner'[r] = OfRow(at, p.row, p.todo, p.orders, ids) /\ Alone(r)
  BY <1>1, OnlyOne DEF Alone
<1>3. p.row[1] \in Line /\ p.row[1] \in p.orders /\ \A w \in p.todo : w[1] # p.row[1]
  BY <1>1, ProcessFields DEF Selected, Separate
<1>4. /\ Stage(p, p.row[1]) = StageAt(p.at)
      /\ Stage(runner'[r], p.row[1]) = StageAt(at)
  BY <1>1, <1>2, <1>3 DEF Stage, Looping, OfRow
<1>5. \A k \in Line : k # p.row[1] => Stage(runner'[r], k) = Stage(p, k)
  BY <1>1, <1>2 DEF Stage, Looping, OfRow
<1> QED BY <1>1, <1>2, <1>3, <1>4, <1>5 DEF Moved

LEMMA RowSteps ==
  ASSUME TypeOK, Selected, Separate, NEW r \in Runners
  PROVE  /\ CreateFulfillment(r) =>
              runner[r].row[1] \in Line /\ Moved(r, runner[r].row[1], "before", "line")
         /\ InsertLine(r) =>
              runner[r].row[1] \in Line /\ Moved(r, runner[r].row[1], "line", "fulfilled")
         /\ SetFulfilled(r) =>
              runner[r].row[1] \in Line /\ Moved(r, runner[r].row[1], "fulfilled", "saved")
         /\ DeleteAllocation(r) =>
              runner[r].row[1] \in Line /\ Moved(r, runner[r].row[1], "saved", "saved")
<1> USE DEF StageAt, InRow
<1>1. CreateFulfillment(r) =>
        runner[r].row[1] \in Line /\ Moved(r, runner[r].row[1], "before", "line")
  <2> SUFFICES ASSUME CreateFulfillment(r)
               PROVE  runner[r].row[1] \in Line /\ Moved(r, runner[r].row[1], "before", "line")
    OBVIOUS
  <2>1. PICK ids : runner' = [runner EXCEPT ![r] =
            OfRow("line", runner[r].row, runner[r].todo, runner[r].orders, ids)]
    BY DEF CreateFulfillment
  <2>2. runner[r].at = "fulfillment"
    BY DEF CreateFulfillment
  <2> QED BY <2>1, <2>2, RowGoesOn
<1>2. InsertLine(r) =>
        runner[r].row[1] \in Line /\ Moved(r, runner[r].row[1], "line", "fulfilled")
  BY RowGoesOn DEF InsertLine, Goes
<1>3. SetFulfilled(r) =>
        runner[r].row[1] \in Line /\ Moved(r, runner[r].row[1], "fulfilled", "saved")
  BY RowGoesOn DEF SetFulfilled, Goes
<1>4. DeleteAllocation(r) =>
        runner[r].row[1] \in Line /\ Moved(r, runner[r].row[1], "saved", "saved")
  BY RowGoesOn DEF DeleteAllocation, Goes
<1> QED BY <1>1, <1>2, <1>3, <1>4

LEMMA RowEnds ==
  ASSUME TypeOK, Selected, Separate, NEW r \in Runners, UpdateQuantity(r)
  PROVE  runner[r].row[1] \in Line /\ Moved(r, runner[r].row[1], "saved", "subtracted")
<1>1. PICK p \in Process : p = runner[r]
  BY DEF TypeOK
<1>2. p.at = "quantity" /\ runner'[r] = Rows(p.todo, p.orders, p.ids) /\ Alone(r)
  BY <1>1, OnlyOne DEF UpdateQuantity, Alone
<1>3. p.row[1] \in Line /\ p.row[1] \in p.orders /\ \A w \in p.todo : w[1] # p.row[1]
  BY <1>1, <1>2, ProcessFields DEF Selected, Separate, InRow
<1>4. Stage(p, p.row[1]) = "saved" /\ Stage(runner'[r], p.row[1]) = "subtracted"
  BY <1>2, <1>3 DEF Stage, StageAt, Looping, InRow, Rows
<1>5. \A k \in Line : k # p.row[1] => Stage(runner'[r], k) = Stage(p, k)
  BY <1>2 DEF Stage, Looping, InRow, Rows
<1> QED BY <1>1, <1>2, <1>3, <1>4, <1>5 DEF Moved

LEMMA AfterRows ==
  ASSUME TypeOK, Separate, NEW r \in Runners
  PROVE  /\ SetStatus(r) => Stays(r)
         /\ \A l \in runner[r].todo, okay \in BOOLEAN :
              runner[r].at = "adjust" /\ Marks(r, l, okay) =>
                l \in Line /\ Moved(r, l, "subtracted", "told")
         /\ MarkAdjusted(r) =>
              runner[r].order \in Line /\ Moved(r, runner[r].order, "told", "none")
<1>1. PICK p \in Process : p = runner[r]
  BY DEF TypeOK
<1>2. ASSUME SetStatus(r) PROVE Stays(r)
  <2>1. /\ p.at = "rows" /\ p.todo = {}
        /\ runner' = [runner EXCEPT ![r] = [at |-> "adjust", todo |-> p.orders]]
    BY <1>1, <1>2 DEF SetStatus
  <2>2. runner'[r] = [at |-> "adjust", todo |-> p.orders] /\ Alone(r)
    BY <2>1, OnlyOne DEF Alone
  <2> QED BY <1>1, <2>1, <2>2 DEF Stays, Stage, Looping, InRow
<1>3. ASSUME NEW l \in p.todo, NEW okay \in BOOLEAN, p.at = "adjust", Marks(r, l, okay)
      PROVE  l \in Line /\ Moved(r, l, "subtracted", "told")
  <2>1. /\ runner'[r] = [at |-> "mark", order |-> l, okay |-> okay, todo |-> p.todo \ {l}]
        /\ Alone(r)
    BY <1>1, <1>3, OnlyOne DEF Marks, Alone
  <2>2. l \in Line
    BY <1>3, ProcessFields
  <2>3. Stage(p, l) = "subtracted" /\ Stage(runner'[r], l) = "told"
    BY <1>3, <2>1 DEF Stage, Looping, InRow
  <2>4. \A k \in Line : k # l => Stage(runner'[r], k) = Stage(p, k)
    BY <1>3, <2>1 DEF Stage, Looping, InRow
  <2> QED BY <1>1, <2>1, <2>2, <2>3, <2>4 DEF Moved
<1>4. ASSUME MarkAdjusted(r)
      PROVE  runner[r].order \in Line /\ Moved(r, runner[r].order, "told", "none")
  <2> DEFINE m == IF p.todo = {} THEN Idle ELSE [at |-> "adjust", todo |-> p.todo]
  <2>1. p.at = "mark" /\ p.order \in Line /\ p.order \notin p.todo
    BY <1>1, <1>4, ProcessFields DEF MarkAdjusted, Separate
  <2>2. runner'[r] = m /\ Alone(r)
    <3>1. runner' = [runner EXCEPT ![r] = m]
      BY <1>1, <1>4 DEF MarkAdjusted
    <3> HIDE DEF m
    <3> QED BY <3>1, OnlyOne DEF Alone
  <2>3. \A k \in Line : Stage(m, k) = IF k \in p.todo THEN "subtracted" ELSE "none"
    <3>1. CASE p.todo = {}
      BY <3>1 DEF Stage, Looping, InRow, Idle
    <3>2. CASE p.todo # {}
      <4>1. m = [at |-> "adjust", todo |-> p.todo]
        BY <3>2
      <4> HIDE DEF m
      <4> QED BY <4>1 DEF Stage, Looping, InRow
    <3> QED BY <3>1, <3>2
  <2> HIDE DEF m
  <2>4. \A k \in Line : Stage(p, k) = IF k = p.order THEN "told"
                                      ELSE IF k \in p.todo THEN "subtracted" ELSE "none"
    BY <2>1 DEF Stage, Looping, InRow
  <2> QED BY <1>1, <2>1, <2>2, <2>3, <2>4 DEF Moved
<1> QED BY <1>1, <1>2, <1>3, <1>4

LEMMA ImportStages ==
  ASSUME TypeOK, NEW r \in Runners
  PROVE  /\ StartImport(r) \/ Import(r) => Stays(r)
         /\ Crash(r) => Alone(r) /\ \A k \in Line : Stage(runner'[r], k) = "none"
<1>1. ASSUME StartImport(r) PROVE Stays(r)
  <2>1. /\ runner[r].at = "idle" /\ runner'[r] = [at |-> "import", file |-> shopkeep]
        /\ Alone(r)
    BY <1>1, OnlyOne DEF StartImport, Alone
  <2> QED BY <2>1 DEF Stays, Stage, Looping, InRow
<1>2. ASSUME Import(r) PROVE Stays(r)
  <2>1. runner[r].at = "import" /\ runner'[r] = Idle /\ Alone(r)
    BY <1>2, OnlyOne DEF Import, Alone
  <2> QED BY <2>1 DEF Stays, Stage, Looping, InRow, Idle
<1>3. ASSUME Crash(r) PROVE Alone(r) /\ \A k \in Line : Stage(runner'[r], k) = "none"
  <2>1. runner'[r] = Idle /\ Alone(r)
    BY <1>3, OnlyOne DEF Crash, Alone
  <2> QED BY <2>1 DEF Stage, Looping, InRow, Idle
<1> QED BY <1>1, <1>2, <1>3

\* No other step moves a process.
LEMMA OutsideStays ==
  ASSUME UNCHANGED runner, NEW r \in Runners
  PROVE  Stays(r)
BY DEF Stays, Alone, Stage

LEMMA NextSeparate ==
  ASSUME TypeOK, Separate, NumStocks = 1, [Next]_vars
  PROVE  Separate'
<1> DEFINE Fine(p) == /\ p.at \in InRow => \A row \in p.todo : row[1] # p.row[1]
                      /\ p.at = "mark" => p.order \notin p.todo
<1> USE DEF InRow
<1>1. CASE UNCHANGED runner
  BY <1>1 DEF Separate
<1>2. ASSUME NEW r \in Runners, Alone(r), Fine(runner'[r]) PROVE Separate'
  <2>1. ASSUME NEW q \in Runners PROVE Fine(runner'[q])
    <3>1. CASE q = r
      BY <1>2, <3>1
    <3>2. CASE q # r
      BY <1>2, <3>2 DEF Alone, Separate
    <3> QED BY <3>1, <3>2
  <2> QED BY <2>1 DEF Separate
<1>3. ASSUME NEW r \in Runners, NEW p, runner' = [runner EXCEPT ![r] = p], Fine(p)
      PROVE  Separate'
  <2>1. runner'[r] = p /\ Alone(r)
    BY <1>3, OnlyOne DEF Alone
  <2> HIDE DEF Fine
  <2> QED BY <1>2, <1>3, <2>1
<1>4. ASSUME NEW r \in Runners, StartSync(r) \/ UpdateQuantity(r) \/ SetStatus(r)
      PROVE  Separate'
  <2>1. PICK p \in {Rows(ToSync \X wh.stocks, ToSync, [l \in Line |-> 0]),
                    Rows(runner[r].todo, runner[r].orders, runner[r].ids),
                    [at |-> "adjust", todo |-> runner[r].orders]} :
          runner' = [runner EXCEPT ![r] = p]
    BY <1>4 DEF StartSync, UpdateQuantity, SetStatus
  <2>2. p.at \in {"rows", "adjust"}
    BY DEF Rows
  <2> QED BY <1>3, <2>1, <2>2
<1>5. ASSUME NEW r \in Runners, NextRow(r) PROVE Separate'
  <2>1. PICK row \in runner[r].todo, at \in {"fulfillment", "line"}, ids \in [Line -> Nat] :
          /\ runner'[r] = OfRow(at, row, runner[r].todo \ {row}, runner[r].orders, ids)
    BY <1>5, NextRowGoes
  <2>2. runner[r].at = "rows" /\ Alone(r)
    BY <1>5, NextRowGoes DEF Alone
  <2>3. runner[r].todo \in SUBSET (Line \X Stock)
    BY <2>2, ProcessFields DEF TypeOK, Looping
  <2>4. \A w \in runner[r].todo \ {row} : w[1] # row[1]
    BY <2>1, <2>3, RowOfOrder
  <2> QED BY <1>2, <2>1, <2>2, <2>4 DEF OfRow
<1>6. ASSUME NEW r \in Runners, runner[r].at \in InRow, NEW at \in InRow, NEW ids,
             runner' = [runner EXCEPT ![r] =
                OfRow(at, runner[r].row, runner[r].todo, runner[r].orders, ids)]
      PROVE  Separate'
  <2>1. \A w \in runner[r].todo : w[1] # runner[r].row[1]
    BY <1>6 DEF Separate
  <2> QED BY <1>3, <1>6, <2>1 DEF OfRow
<1>7. ASSUME NEW r \in Runners,
             CreateFulfillment(r) \/ InsertLine(r) \/ SetFulfilled(r) \/ DeleteAllocation(r)
      PROVE  Separate'
  BY <1>6, <1>7 DEF CreateFulfillment, InsertLine, SetFulfilled, DeleteAllocation, Goes
<1>8. ASSUME NEW r \in Runners, Adjust(r) \/ AdjustFails(r) PROVE Separate'
  <2>1. PICK l \in runner[r].todo, okay \in BOOLEAN :
          runner' = [runner EXCEPT ![r] = [at |-> "mark", order |-> l, okay |-> okay,
                                           todo |-> runner[r].todo \ {l}]]
    BY <1>8 DEF Adjust, AdjustFails, Marks
  <2> QED BY <1>3, <2>1
<1>9. ASSUME NEW r \in Runners,
             MarkAdjusted(r) \/ StartImport(r) \/ Import(r) \/ Crash(r)
      PROVE  Separate'
  <2>1. PICK p \in {Idle, [at |-> "adjust", todo |-> runner[r].todo],
                    [at |-> "import", file |-> shopkeep]} :
          runner' = [runner EXCEPT ![r] = p]
    BY <1>9 DEF MarkAdjusted, StartImport, Import, Crash
  <2>2. p.at \in {"idle", "adjust", "import"}
    BY DEF Idle
  <2> QED BY <1>3, <2>1, <2>2
<1> HIDE DEF Fine
<1>10. Outside => UNCHANGED runner
  BY OutsideRunner
<1> QED BY <1>1, <1>4, <1>5, <1>7, <1>8, <1>9, <1>10 DEF Next, Outside, Proceed, vars

\* What each step does to the goods, besides those of the scripts.
LEMMA StockedStep ==
  ASSUME TypeOK, Stocked, [Next]_vars
  PROVE  Stocked'
<1>1. ASSUME NEW l \in Line, Place(l) \/ Draft(l) \/ Cancel(l) PROVE Stocked'
  BY <1>1 DEF Stocked, Place, Draft, Cancel, Allocated, OrderDeallocated, Tables
<1>2. ASSUME NEW l \in Line, OrderFulfill(l) PROVE Stocked'
  <2>1. PICK n, w : wh' = Decreased(wh, l, n, w)
    BY <1>2 DEF OrderFulfill
  <2>2. Released(wh, l, n).stocks = wh.stocks
    BY DEF Released, Deallocated, LineHolds, Tables
  <2> QED BY <2>1, <2>2 DEF Stocked, Decreased, Tables
<1>3. ASSUME NEW l \in Line, FulfillmentCancel(l) PROVE Stocked'
  <2>1. PICK w \in Stock : wh' = wh \/ \E n : wh' = Increased(wh, l, w, n, TRUE)
    BY <1>3 DEF FulfillmentCancel
  <2>2. \A n : Increased(wh, l, w, n, TRUE).stocks = wh.stocks \union {w}
    BY DEF Increased, Tables
  <2>3. CASE wh' = wh
    BY <2>3 DEF Stocked
  <2>4. CASE \E n : wh' = Increased(wh, l, w, n, TRUE)
    BY <2>2, <2>4 DEF Stocked
  <2> QED BY <2>1, <2>3, <2>4
<1>4. ASSUME NEW s \in Stock, StaffSets(s) PROVE Stocked'
  <2>1. PICK n : wh' = QuantitySet(wh, s, n)
    BY <1>4 DEF StaffSets
  <2> QED BY <2>1 DEF Stocked, QuantitySet, Tables
<1>5. ASSUME NEW r \in Runners, DeleteAllocation(r) \/ UpdateQuantity(r) PROVE Stocked'
  BY <1>5 DEF Stocked, DeleteAllocation, UpdateQuantity, Tables
<1>6. ASSUME NEW r \in Runners, Import(r) PROVE Stocked'
  BY <1>6 DEF Stocked, Import, Tables, QuantitySet
<1>7. CASE wh' = wh
  BY <1>7 DEF Stocked
<1>8. ASSUME NEW r \in Runners, StartSync(r) \/ StartImport(r) \/ Proceed(r) \/ Crash(r)
      PROVE  Stocked'
  BY <1>5, <1>6, <1>7, <1>8
     DEF Proceed, StartSync, StartImport, NextRow, CreateFulfillment, InsertLine, SetFulfilled,
         SetStatus, Adjust, AdjustFails, MarkAdjusted, Crash, shop
<1>9. StoreSells \/ UNCHANGED vars => wh' = wh
  BY DEF StoreSells, vars, shop
<1> QED BY <1>1, <1>2, <1>3, <1>4, <1>7, <1>8, <1>9 DEF Next

-----------------------------------------------------------------------------
(* What the fulfillments hold.                                             *)

Held(x) == IF x.canceled THEN 0 ELSE Quantity(x)

Sent(ff) == SumTo([f \in DOMAIN ff |-> Held(ff[f])], Len(ff))

LEMMA ShippedSent == \A l \in Line : Shipped(l) = Sent(fulfillments[l])
BY DEF Shipped, Sent, Held

LEMMA SentNat ==
  ASSUME NEW ff \in Seq(Fulfillment)
  PROVE  /\ Sent(ff) \in Nat
         /\ \A f \in DOMAIN ff : ff[f] \in Fulfillment /\ Held(ff[f]) \in Nat
<1> DEFINE h == [f \in DOMAIN ff |-> Held(ff[f])]
<1>1. Len(ff) \in Nat /\ DOMAIN ff = 1 .. Len(ff) /\ \A f \in 1 .. Len(ff) : ff[f] \in Fulfillment
  OBVIOUS
<1>2. \A f \in 1 .. Len(ff) : Held(ff[f]) \in Nat
  BY <1>1, QuantityNat DEF Held
<1>3. \A f \in 1 .. Len(ff) : h[f] \in Nat
  BY <1>1, <1>2
<1> HIDE DEF h
<1>4. SumTo(h, Len(ff)) \in Nat
  BY <1>1, <1>3, SumToNat
<1> QED BY <1>1, <1>2, <1>4 DEF Sent, h

LEMMA SentAppend ==
  ASSUME NEW ff \in Seq(Fulfillment), NEW x \in Fulfillment
  PROVE  Sent(Append(ff, x)) = Sent(ff) + Held(x)
<1> DEFINE gg == Append(ff, x)
           h == [f \in DOMAIN ff |-> Held(ff[f])]
           k == [f \in DOMAIN gg |-> Held(gg[f])]
           n == Len(ff)
<1>1. /\ n \in Nat
      /\ Len(gg) = n + 1
      /\ \A f \in 1 .. n : gg[f] = ff[f]
      /\ gg[n + 1] = x
      /\ DOMAIN gg = 1 .. n + 1
      /\ DOMAIN ff = 1 .. n
  OBVIOUS
<1>2. /\ k[n + 1] = Held(x)
      /\ \A f \in 1 .. n : k[f] = h[f]
  BY <1>1
<1> HIDE DEF h, k
<1>3. SumTo(k, n + 1) = SumTo(k, n) + k[n + 1]
  BY <1>1, SumToStep
<1>4. SumTo(k, n) = SumTo(h, n)
  BY <1>1, <1>2, SumToEqual
<1>5. Sent(gg) = SumTo(k, n + 1) /\ Sent(ff) = SumTo(h, n)
  BY <1>1 DEF Sent, h, k
<1> QED BY <1>2, <1>3, <1>4, <1>5

LEMMA SentChanged ==
  ASSUME NEW ff \in Seq(Fulfillment), NEW f \in DOMAIN ff, NEW x \in Fulfillment
  PROVE  Sent([ff EXCEPT ![f] = x]) = Sent(ff) + Held(x) - Held(ff[f])
<1> DEFINE gg == [ff EXCEPT ![f] = x]
           n == Len(ff)
           h == [i \in DOMAIN ff |-> Held(ff[i])]
           k == [i \in DOMAIN gg |-> Held(gg[i])]
<1>1. /\ n \in Nat /\ DOMAIN ff = 1 .. n /\ DOMAIN gg = 1 .. n /\ Len(gg) = n
      /\ gg[f] = x /\ \A i \in 1 .. n : i # f => gg[i] = ff[i]
  OBVIOUS
<1>2. Held(x) \in Nat /\ \A i \in 1 .. n : Held(ff[i]) \in Nat
  BY <1>1, SentNat, QuantityNat DEF Held
<1>3. /\ f \in 1 .. n /\ h[f] = Held(ff[f]) /\ k[f] = Held(x)
      /\ \A i \in 1 .. n : i # f => k[i] = h[i]
      /\ \A i \in 1 .. n : h[i] = Held(ff[i])
  BY <1>1
<1>4. Sent(gg) = SumTo(k, n) /\ Sent(ff) = SumTo(h, n)
  BY <1>1 DEF Sent
<1> HIDE DEF h, k, gg, n
<1>5. \A i \in 1 .. n : h[i] \in Int /\ k[i] \in Int
  BY <1>2, <1>3
<1>6. SumTo(k, n) = SumTo(h, n) + k[f] - h[f]
  <2>1. n \in Nat /\ f \in 1 .. n
    BY <1>1, <1>3
  <2>2. \A i \in 1 .. n : i # f => k[i] = h[i]
    BY <1>3
  <2>3. ApartAt(n, h, k, f)
    BY <1>5, <2>1, <2>2 DEF ApartAt
  <2> QED BY <2>3, SumApartAt
<1> QED BY <1>3, <1>4, <1>6 DEF gg

\* No line, one line.
LEMMA FewLines ==
  ASSUME NEW x \in Fulfillment
  PROVE  /\ x.lines = <<>> => Quantity(x) = 0
         /\ x.lines # <<>> /\ Len(x.lines) <= 1 =>
              DOMAIN x.lines = {1} /\ Quantity(x) = x.lines[1] /\ x.lines[1] \in Nat
<1>1. x.lines \in Seq(Nat)
  BY DEF Fulfillment
<1>2. ASSUME x.lines = <<>> PROVE Quantity(x) = 0
  <2>1. Len(x.lines) = 0
    BY <1>2
  <2> QED BY <2>1, SumToZero DEF Quantity
<1>3. ASSUME x.lines # <<>>, Len(x.lines) <= 1
      PROVE  DOMAIN x.lines = {1} /\ Quantity(x) = x.lines[1] /\ x.lines[1] \in Nat
  <2>1. Len(x.lines) = 1 /\ DOMAIN x.lines = {1} /\ x.lines[1] \in Nat
    <3>1. PICK q \in Seq(Nat) : q = x.lines
      BY <1>1
    <3>2. Len(q) \in Nat /\ Len(q) # 0
      BY <1>3, <3>1, EmptySeq
    <3>3. Len(q) = 1
      <4>1. Len(q) <= 1
        BY <1>3, <3>1
      <4> QED BY <3>2, <4>1, NotZero
    <3>4. DOMAIN q = 1 .. Len(q) /\ \A i \in 1 .. Len(q) : q[i] \in Nat
      OBVIOUS
    <3> QED BY <3>1, <3>3, <3>4
  <2>2. SumTo(x.lines, 0 + 1) = SumTo(x.lines, 0) + x.lines[0 + 1]
    BY SumToStep
  <2> QED BY <2>1, <2>2, SumToZero DEF Quantity
<1> QED BY <1>2, <1>3

\* At most one fulfillment, and no line.
Bare(ff) == Len(ff) <= 1 /\ \A f \in DOMAIN ff : ff[f].lines = <<>>

OneLine(ff) == \A f \in DOMAIN ff : Len(ff[f].lines) <= 1

LEMMA BareSent ==
  ASSUME NEW ff \in Seq(Fulfillment), Bare(ff)
  PROVE  Sent(ff) = 0
<1> DEFINE h == [f \in DOMAIN ff |-> Held(ff[f])]
<1>1. \A f \in DOMAIN ff : Held(ff[f]) = 0
  BY SentNat, FewLines DEF Bare, Held
<1>2. Len(ff) \in {0, 1} /\ DOMAIN ff = 1 .. Len(ff)
  <2>1. Len(ff) \in Nat /\ DOMAIN ff = 1 .. Len(ff)
    OBVIOUS
  <2> QED BY <2>1 DEF Bare
<1>3. Sent(ff) = SumTo(h, Len(ff)) /\ (Len(ff) = 1 => h[1] = 0)
  BY <1>1, <1>2 DEF Sent
<1> HIDE DEF h
<1>4. SumTo(h, 0 + 1) = SumTo(h, 0) + h[0 + 1]
  BY SumToStep
<1> QED BY <1>2, <1>3, <1>4, SumToZero

-----------------------------------------------------------------------------
(* Where an order is on its way through the sync, as long as one process   *)
(* has it, and what its books say there.                                   *)

Underway == {"before", "line", "fulfilled", "saved", "subtracted", "told"}
Stages == Underway \union {"none", "done"}

Quiet(l) == \A r \in Runners : Stage(runner[r], l) = "none"

OnlyWith(r, l, st) ==
  Stage(runner[r], l) = st /\ \A q \in Runners : q # r => Stage(runner[q], l) = "none"

IsAt(l, st) ==
  /\ synced[l] # {} <=> st = "done"
  /\ st \in {"none", "done"} => Quiet(l)
  /\ st \in Underway => \E r \in Runners : OnlyWith(r, l, st)

BooksAt(l, st) ==
  /\ st \in {"none", "before"} => fulfillments[l] = <<>>
  /\ st = "line" => Bare(fulfillments[l])
  /\ st = "fulfilled" => OneLine(fulfillments[l]) /\ Sent(fulfillments[l]) <= Ordered[l]
  /\ st \in {"saved", "subtracted", "told", "done"} =>
       /\ OneLine(fulfillments[l])
       /\ Sent(fulfillments[l]) <= fulfilled[l]
       /\ fulfilled[l] <= Ordered[l]

Kept(l) == \E st \in Stages : IsAt(l, st) /\ BooksAt(l, st)

KeptBooks == \A l \in Line : l \notin disturbed => Kept(l)

LEMMA KeptShipped ==
  ASSUME TypeOK, NEW l \in Line, Kept(l)
  PROVE  Shipped(l) <= Ordered[l]
<1>1. PICK st \in Stages : BooksAt(l, st)
  BY DEF Kept
<1>2. fulfillments[l] \in Seq(Fulfillment) /\ Sent(fulfillments[l]) \in Nat
  BY FulfillmentTypes, SentNat
<1>3. Ordered[l] \in Nat /\ fulfilled[l] \in Int
  BY DEF TypeOK
<1>4. Shipped(l) = Sent(fulfillments[l])
  BY ShippedSent
<1>5. CASE st \in {"none", "before", "line"}
  <2>1. Bare(fulfillments[l])
    <3>1. Bare(<<>>)
      BY DEF Bare
    <3> QED BY <1>1, <1>5, <3>1 DEF BooksAt
  <2>2. Sent(fulfillments[l]) = 0
    BY <1>2, <2>1, BareSent
  <2> QED BY <1>3, <1>4, <2>2
<1>6. CASE st \notin {"none", "before", "line"}
  <2>1. Sent(fulfillments[l]) <= Ordered[l]
    BY <1>1, <1>2, <1>3, <1>6 DEF BooksAt, Stages, Underway
  <2> QED BY <1>4, <2>1
<1> QED BY <1>5, <1>6

\* An order that a process has at a stage is there, and with no other.
LEMMA StageKept ==
  ASSUME NEW l \in Line, Kept(l), NEW r \in Runners, NEW st \in Underway,
         Stage(runner[r], l) = st
  PROVE  synced[l] = {} /\ OnlyWith(r, l, st) /\ BooksAt(l, st)
<1>1. PICK x \in Stages : IsAt(l, x) /\ BooksAt(l, x)
  BY DEF Kept
<1>2. st # "none" /\ st # "done"
  BY DEF Underway
<1>3. x \in Underway
  BY <1>1, <1>2 DEF IsAt, Quiet, Stages
<1>4. PICK q \in Runners : OnlyWith(q, l, x)
  BY <1>1, <1>3 DEF IsAt
<1>5. q = r /\ x = st
  BY <1>2, <1>4 DEF OnlyWith
<1>6. synced[l] = {}
  BY <1>1, <1>2, <1>5 DEF IsAt
<1> QED BY <1>1, <1>4, <1>5, <1>6

LEMMA QuietKept ==
  ASSUME NEW l \in Line, Kept(l), Quiet(l), synced[l] = {}
  PROVE  fulfillments[l] = <<>>
<1>1. PICK x \in Stages : IsAt(l, x) /\ BooksAt(l, x)
  BY DEF Kept
<1>2. x # "done"
  BY <1>1 DEF IsAt
<1>3. x \notin Underway
  <2> SUFFICES ASSUME x \in Underway PROVE FALSE
    OBVIOUS
  <2>1. PICK q \in Runners : OnlyWith(q, l, x)
    BY <1>1 DEF IsAt
  <2> QED BY <2>1 DEF OnlyWith, Quiet, Underway
<1> QED BY <1>1, <1>2, <1>3 DEF BooksAt, Stages

\* Nothing of the order changes.
LEMMA Elsewhere ==
  ASSUME NEW l \in Line, Kept(l), \A q \in Runners : Stage(runner'[q], l) = Stage(runner[q], l),
         synced'[l] = synced[l], fulfillments'[l] = fulfillments[l], fulfilled'[l] = fulfilled[l]
  PROVE  Kept(l)'
<1>1. PICK st \in Stages : IsAt(l, st) /\ BooksAt(l, st)
  BY DEF Kept
<1>2. IsAt(l, st)'
  <2>1. Quiet(l) => Quiet(l)'
    BY DEF Quiet
  <2>2. \A r \in Runners : OnlyWith(r, l, st) => OnlyWith(r, l, st)'
    BY DEF OnlyWith
  <2> QED BY <1>1, <2>1, <2>2 DEF IsAt
<1>3. BooksAt(l, st)'
  BY <1>1 DEF BooksAt
<1> QED BY <1>2, <1>3 DEF Kept

LEMMA MovedElsewhere ==
  ASSUME NEW l \in Line, Kept(l), NEW r \in Runners, NEW k \in Line, k # l,
         NEW from, NEW to, Moved(r, k, from, to),
         synced'[l] = synced[l], fulfillments'[l] = fulfillments[l], fulfilled'[l] = fulfilled[l]
  PROVE  Kept(l)'
<1>1. \A q \in Runners : Stage(runner'[q], l) = Stage(runner[q], l)
  BY DEF Moved, Alone
<1> QED BY <1>1, Elsewhere

LEMMA StaysElsewhere ==
  ASSUME NEW l \in Line, Kept(l), NEW r \in Runners, Stays(r),
         synced'[l] = synced[l], fulfillments'[l] = fulfillments[l], fulfilled'[l] = fulfilled[l]
  PROVE  Kept(l)'
<1>1. \A q \in Runners : Stage(runner'[q], l) = Stage(runner[q], l)
  BY DEF Stays, Alone
<1> QED BY <1>1, Elsewhere

\* The order goes from stage to stage, and its books with it.
LEMMA Advances ==
  ASSUME NEW l \in Line, Kept(l), NEW r \in Runners, NEW from \in Underway, NEW to \in Underway,
         Moved(r, l, from, to), synced'[l] = synced[l],
         BooksAt(l, from) => BooksAt(l, to)'
  PROVE  Kept(l)'
<1>1. Stage(runner[r], l) = from /\ Stage(runner'[r], l) = to /\ Alone(r)
  BY DEF Moved
<1>2. synced[l] = {} /\ OnlyWith(r, l, from) /\ BooksAt(l, from)
  BY <1>1, StageKept
<1>3. OnlyWith(r, l, to)'
  BY <1>1, <1>2 DEF OnlyWith, Alone
<1>4. IsAt(l, to)'
  <2>1. to \notin {"none", "done"}
    BY DEF Underway
  <2> QED BY <1>2, <1>3, <2>1 DEF IsAt
<1> QED BY <1>2, <1>4 DEF Kept, Stages

LEMMA Ends ==
  ASSUME NEW l \in Line, Kept(l), NEW r \in Runners, Moved(r, l, "told", "none"),
         synced'[l] # {}, fulfillments'[l] = fulfillments[l], fulfilled'[l] = fulfilled[l]
  PROVE  Kept(l)'
<1>1. Stage(runner[r], l) = "told" /\ Stage(runner'[r], l) = "none" /\ Alone(r)
  BY DEF Moved
<1>2. OnlyWith(r, l, "told") /\ BooksAt(l, "told")
  BY <1>1, StageKept DEF Underway
<1>3. Quiet(l)'
  BY <1>1, <1>2 DEF OnlyWith, Alone, Quiet
<1>4. IsAt(l, "done")' /\ BooksAt(l, "done")'
  <2>1. IsAt(l, "done")'
    BY <1>3 DEF IsAt, Underway
  <2>2. BooksAt(l, "done")'
    BY <1>2 DEF BooksAt
  <2> QED BY <2>1, <2>2
<1> QED BY <1>4 DEF Kept, Stages

-----------------------------------------------------------------------------
(* The steps of a process keep the books of every order it has to itself.  *)

LEMMA StartKept ==
  ASSUME TypeOK, NumStocks = 1, Stocked, NEW r \in Runners, StartSync(r),
         NEW l \in Line, l \notin disturbed', Kept(l)
  PROVE  Kept(l)'
<1>1. Alone(r) /\ Stage(runner[r], l) = "none"
      /\ Stage(runner'[r], l) = IF l \in ToSync THEN "before" ELSE "none"
  BY SyncStarts
<1>2. synced' = synced /\ fulfillments' = fulfillments /\ fulfilled' = fulfilled
  BY DEF StartSync, shop
<1>3. CASE l \in ToSync
  <2>1. \A q \in Runners : l \notin Working(q)
    BY <1>3 DEF StartSync
  <2>2. Quiet(l)
    BY <2>1, StageMeans DEF Quiet
  <2>3. synced[l] = {}
    BY <1>3 DEF ToSync
  <2>4. fulfillments[l] = <<>>
    BY <2>2, <2>3, QuietKept
  <2>5. OnlyWith(r, l, "before")'
    BY <1>1, <1>3, <2>2 DEF OnlyWith, Quiet, Alone
  <2>6. IsAt(l, "before")' /\ BooksAt(l, "before")'
    <3>1. IsAt(l, "before")'
      BY <1>2, <2>3, <2>5 DEF IsAt
    <3>2. BooksAt(l, "before")'
      BY <1>2, <2>4 DEF BooksAt
    <3> QED BY <3>1, <3>2
  <2> QED BY <2>6 DEF Kept, Stages, Underway
<1>4. CASE l \notin ToSync
  <2>1. \A q \in Runners : Stage(runner'[q], l) = Stage(runner[q], l)
    BY <1>1, <1>4 DEF Alone
  <2> QED BY <1>2, <2>1, Elsewhere
<1> QED BY <1>3, <1>4

LEMMA RowKept ==
  ASSUME TypeOK, Selected, Separate, NumStocks = 1, NEW r \in Runners,
         NextRow(r) \/ CreateFulfillment(r) \/ DeleteAllocation(r) \/ UpdateQuantity(r),
         NEW l \in Line, Kept(l)
  PROVE  Kept(l)'
<1>1. CASE NextRow(r)
  <2>1. PICK k \in Line, to \in {"before", "line"} : Moved(r, k, "before", to)
    BY <1>1, RowStarts
  <2>2. synced' = synced /\ fulfillments' = fulfillments /\ fulfilled' = fulfilled
    BY <1>1 DEF NextRow, shop
  <2>3. CASE k # l
    BY <2>1, <2>2, <2>3, MovedElsewhere
  <2>4. CASE k = l
    <3>1. Bare(<<>>)
      BY DEF Bare
    <3>2. BooksAt(l, "before") => BooksAt(l, to)'
      BY <2>2, <3>1 DEF BooksAt
    <3> QED BY <2>1, <2>2, <2>4, <3>2, Advances DEF Underway
  <2> QED BY <2>3, <2>4
<1>2. CASE CreateFulfillment(r)
  <2> DEFINE k == runner[r].row[1]
             x == [canceled |-> FALSE, lines |-> <<>>]
  <2>1. k \in Line /\ Moved(r, k, "before", "line")
    BY <1>2, RowSteps
  <2>2. /\ synced' = synced /\ fulfilled' = fulfilled
        /\ fulfillments' = [fulfillments EXCEPT ![k] = Append(@, x)]
    BY <1>2 DEF CreateFulfillment
  <2>3. fulfillments \in [Line -> Seq(Fulfillment)]
    BY DEF TypeOK
  <2> HIDE DEF k
  <2>4. CASE k # l
    BY <2>1, <2>2, <2>3, <2>4, MovedElsewhere
  <2>5. CASE k = l
    <3>1. fulfillments[l] = <<>> => Bare(fulfillments'[l])
      <4> SUFFICES ASSUME fulfillments[l] = <<>> PROVE Bare(fulfillments'[l])
        OBVIOUS
      <4>1. fulfillments'[l] = <<x>>
        <5>1. fulfillments'[l] = Append(fulfillments[l], x)
          BY <2>2, <2>3, <2>5
        <5>2. Append(<<>>, x) = <<x>>
          OBVIOUS
        <5> QED BY <5>1, <5>2
      <4>2. Bare(<<x>>)
        BY DEF Bare
      <4> QED BY <4>1, <4>2
    <3>2. BooksAt(l, "before") => BooksAt(l, "line")'
      BY <3>1 DEF BooksAt
    <3> QED BY <2>1, <2>2, <2>5, <3>2, Advances DEF Underway
  <2> QED BY <2>4, <2>5
<1>3. CASE DeleteAllocation(r) \/ UpdateQuantity(r)
  <2>1. PICK to \in {"saved", "subtracted"} :
          runner[r].row[1] \in Line /\ Moved(r, runner[r].row[1], "saved", to)
    BY <1>3, RowSteps, RowEnds
  <2>2. synced' = synced /\ fulfillments' = fulfillments /\ fulfilled' = fulfilled
    BY <1>3 DEF DeleteAllocation, UpdateQuantity
  <2>3. CASE runner[r].row[1] # l
    BY <2>1, <2>2, <2>3, MovedElsewhere
  <2>4. CASE runner[r].row[1] = l
    <3>1. BooksAt(l, "saved") => BooksAt(l, to)'
      BY <2>2 DEF BooksAt
    <3> QED BY <2>1, <2>2, <2>4, <3>1, Advances DEF Underway
  <2> QED BY <2>3, <2>4
<1> QED BY <1>1, <1>2, <1>3

\* The line goes into a fulfillment that has none.
LEMMA BareWithLine ==
  ASSUME NEW ff \in Seq(Fulfillment), Bare(ff), NEW f, NEW n \in Nat,
         NEW gg, gg = [ff EXCEPT ![f] = WithLine(@, n)]
  PROVE  OneLine(gg) /\ Sent(gg) <= n
<1>1. OneLine(ff) /\ Sent(ff) = 0
  <2>1. \A i \in DOMAIN ff : Len(ff[i].lines) <= 1
    BY DEF Bare
  <2> QED BY <2>1, BareSent DEF OneLine
<1>2. CASE f \notin DOMAIN ff
  <2>1. gg = ff
    BY <1>2
  <2> QED BY <1>1, <2>1
<1>3. CASE f \in DOMAIN ff
  <2> DEFINE x == WithLine(ff[f], n)
  <2>1. ff[f] \in Fulfillment /\ ff[f].lines = <<>> /\ Held(ff[f]) \in Nat
    BY <1>3, SentNat DEF Bare
  <2>2. x.lines = <<n>> /\ x \in Fulfillment
    BY <2>1 DEF WithLine, Fulfillment
  <2>3. Quantity(x) = n /\ Held(x) \in {0, n}
    <3>1. x.lines # <<>> /\ Len(x.lines) <= 1 /\ x.lines[1] = n
      BY <2>2
    <3>2. Quantity(x) = n
      BY <2>2, <3>1, FewLines
    <3> QED BY <3>2 DEF Held
  <2> HIDE DEF x
  <2>4. gg = [ff EXCEPT ![f] = x]
    BY <1>3 DEF x
  <2>5. Sent(gg) = Sent(ff) + Held(x) - Held(ff[f])
    BY <1>3, <2>2, <2>4, SentChanged
  <2>6. Sent(gg) <= n
    BY <1>1, <2>1, <2>3, <2>5
  <2>7. OneLine(gg)
    <3>1. \A i \in DOMAIN gg : i \in DOMAIN ff /\ (i # f => gg[i] = ff[i]) /\ (i = f => gg[i] = x)
      BY <1>3, <2>4
    <3>2. Len(x.lines) <= 1
      BY <2>2
    <3> QED BY <1>1, <3>1, <3>2 DEF OneLine
  <2> QED BY <2>6, <2>7
<1> QED BY <1>2, <1>3

LEMMA LineKept ==
  ASSUME TypeOK, Selected, Separate, NEW r \in Runners, InsertLine(r) \/ SetFulfilled(r),
         NEW l \in Line, Kept(l)
  PROVE  Kept(l)'
<1> DEFINE k == runner[r].row[1]
<1>1. /\ fulfillments \in [Line -> Seq(Fulfillment)] /\ fulfilled \in [Line -> Int]
      /\ Ordered[l] \in Nat
  BY DEF TypeOK
<1>2. CASE InsertLine(r)
  <2> DEFINE f == runner[r].ids[k]
  <2>1. k \in Line /\ Moved(r, k, "line", "fulfilled")
    BY <1>2, RowSteps
  <2>2. /\ synced' = synced /\ fulfilled' = fulfilled
        /\ fulfillments' = [fulfillments EXCEPT ![k][f] = WithLine(@, Ordered[k])]
    BY <1>2 DEF InsertLine
  <2> HIDE DEF k, f
  <2>3. CASE k # l
    BY <1>1, <2>1, <2>2, <2>3, MovedElsewhere
  <2>4. CASE k = l
    <3>1. fulfillments'[l] = [fulfillments[l] EXCEPT ![f] = WithLine(@, Ordered[l])]
      BY <1>1, <2>2, <2>4
    <3>2. Bare(fulfillments[l]) =>
            OneLine(fulfillments'[l]) /\ Sent(fulfillments'[l]) <= Ordered[l]
      <4>1. fulfillments[l] \in Seq(Fulfillment)
        BY <1>1
      <4> HIDE DEF WithLine
      <4> QED BY <1>1, <3>1, <4>1, BareWithLine
    <3>3. BooksAt(l, "line") => BooksAt(l, "fulfilled")'
      BY <3>2 DEF BooksAt
    <3> QED BY <2>1, <2>2, <2>4, <3>3, Advances DEF Underway
  <2> QED BY <2>3, <2>4
<1>3. CASE SetFulfilled(r)
  <2>1. k \in Line /\ Moved(r, k, "fulfilled", "saved")
    BY <1>3, RowSteps
  <2>2. /\ synced' = synced /\ fulfillments' = fulfillments
        /\ fulfilled' = [fulfilled EXCEPT ![k] = Ordered[k]]
    BY <1>3 DEF SetFulfilled
  <2> HIDE DEF k
  <2>3. CASE k # l
    BY <1>1, <2>1, <2>2, <2>3, MovedElsewhere
  <2>4. CASE k = l
    <3>1. fulfilled'[l] = Ordered[l]
      BY <1>1, <2>2, <2>4
    <3>2. BooksAt(l, "fulfilled") => BooksAt(l, "saved")'
      BY <1>1, <2>2, <3>1 DEF BooksAt
    <3> QED BY <2>1, <2>2, <2>4, <3>2, Advances DEF Underway
  <2> QED BY <2>3, <2>4
<1> QED BY <1>2, <1>3

LEMMA AfterRowsKept ==
  ASSUME TypeOK, Separate, NEW r \in Runners,
         SetStatus(r) \/ Adjust(r) \/ AdjustFails(r) \/ MarkAdjusted(r)
           \/ StartImport(r) \/ Import(r) \/ Crash(r),
         NEW l \in Line, l \notin disturbed', Kept(l)
  PROVE  Kept(l)'
<1>1. fulfillments' = fulfillments /\ fulfilled' = fulfilled
  BY DEF SetStatus, Adjust, AdjustFails, MarkAdjusted, StartImport, Import, Crash, shop
<1>2. CASE SetStatus(r) \/ StartImport(r) \/ Import(r)
  <2>1. Stays(r)
    BY <1>2, AfterRows, ImportStages
  <2>2. synced' = synced
    BY <1>2 DEF SetStatus, StartImport, Import
  <2> QED BY <1>1, <2>1, <2>2, StaysElsewhere
<1>3. CASE Adjust(r) \/ AdjustFails(r)
  <2>1. PICK k \in runner[r].todo, okay \in BOOLEAN : runner[r].at = "adjust" /\ Marks(r, k, okay)
    BY <1>3 DEF Adjust, AdjustFails
  <2>2. k \in Line /\ Moved(r, k, "subtracted", "told")
    BY <2>1, AfterRows
  <2>3. synced' = synced
    BY <1>3 DEF Adjust, AdjustFails
  <2>4. CASE k # l
    BY <1>1, <2>2, <2>3, <2>4, MovedElsewhere
  <2>5. CASE k = l
    <3>1. BooksAt(l, "subtracted") => BooksAt(l, "told")'
      BY <1>1 DEF BooksAt
    <3> QED BY <2>2, <2>3, <2>5, <3>1, Advances DEF Underway
  <2> QED BY <2>4, <2>5
<1>4. CASE MarkAdjusted(r)
  <2> DEFINE k == runner[r].order
  <2>1. k \in Line /\ Moved(r, k, "told", "none")
    BY <1>4, AfterRows
  <2>2. synced' = Marked(k, runner[r].okay)
    BY <1>4 DEF MarkAdjusted
  <2>3. synced \in [Line -> SUBSET {0, 1}]
    BY DEF TypeOK
  <2> HIDE DEF k
  <2>4. CASE k # l
    <3>1. synced'[l] = synced[l]
      BY <2>2, <2>3, <2>4 DEF Marked
    <3> QED BY <1>1, <2>1, <2>4, <3>1, MovedElsewhere
  <2>5. CASE k = l
    <3>1. synced'[l] # {}
      BY <2>2, <2>3, <2>5 DEF Marked
    <3> QED BY <1>1, <2>1, <2>5, <3>1, Ends
  <2> QED BY <2>4, <2>5
<1>5. CASE Crash(r)
  <2>1. Alone(r) /\ Stage(runner'[r], l) = "none"
    BY <1>5, ImportStages
  <2>2. l \notin Working(r)
    BY <1>5 DEF Crash
  <2>3. Stage(runner[r], l) = "none"
    BY <2>2, StageMeans
  <2>4. \A q \in Runners : Stage(runner'[q], l) = Stage(runner[q], l)
    BY <2>1, <2>3 DEF Alone
  <2>5. synced' = synced
    BY <1>5 DEF Crash
  <2> QED BY <1>1, <2>4, <2>5, Elsewhere
<1> QED BY <1>2, <1>3, <1>4, <1>5

-----------------------------------------------------------------------------
(* So do the shop and its staff, or the order is disturbed.                *)

LEMMA FulfilledKept ==
  ASSUME TypeOK, NEW l \in Line, OrderFulfill(l), l \notin disturbed', Kept(l)
  PROVE  Kept(l)'
<1>1. Saved(l) /\ UNCHANGED <<synced, runner>>
  BY DEF OrderFulfill
<1>2. PICK st \in Stages : IsAt(l, st) /\ BooksAt(l, st)
  BY DEF Kept
<1>3. st \in {"saved", "subtracted", "told", "done"}
  <2>1. CASE synced[l] # {}
    BY <1>2, <2>1 DEF IsAt
  <2>2. CASE synced[l] = {}
    <3>1. PICK r \in Runners : l \in Past(r, {"fulfillment", "line", "fulfilled"})
      BY <1>1, <2>2 DEF Saved
    <3>2. Stage(runner[r], l) \in {"saved", "subtracted", "told"}
      BY <3>1, StageMeans
    <3>3. st \in Underway
      BY <1>2, <2>2, <3>2 DEF IsAt, Quiet, Stages
    <3>4. PICK q \in Runners : OnlyWith(q, l, st)
      BY <1>2, <3>3 DEF IsAt
    <3>5. st = Stage(runner[r], l)
      BY <3>2, <3>4 DEF OnlyWith
    <3> QED BY <3>2, <3>5
  <2> QED BY <2>1, <2>2
<1>4. /\ fulfillments \in [Line -> Seq(Fulfillment)] /\ fulfilled \in [Line -> Int]
      /\ Ordered[l] \in Nat
  BY DEF TypeOK
<1>5. PICK n \in Unfulfilled(l) :
        /\ fulfilled' = [fulfilled EXCEPT ![l] = @ + n]
        /\ fulfillments' = [fulfillments EXCEPT ![l] =
                              Append(@, [canceled |-> FALSE, lines |-> <<n>>])]
  BY DEF OrderFulfill
<1>6. n \in Nat /\ fulfilled[l] + n <= Ordered[l] /\ fulfilled'[l] = fulfilled[l] + n
  BY <1>4, <1>5 DEF Unfulfilled
<1> DEFINE x == [canceled |-> FALSE, lines |-> <<n>>]
<1>7. x \in Fulfillment /\ Held(x) = n /\ Len(x.lines) = 1
  <2>1. x \in Fulfillment /\ x.lines # <<>> /\ Len(x.lines) = 1 /\ x.lines[1] = n /\ ~ x.canceled
    BY <1>6 DEF Fulfillment
  <2> HIDE DEF x
  <2>2. Quantity(x) = n
    <3>1. Len(x.lines) <= 1
      BY <2>1
    <3> QED BY <2>1, <3>1, FewLines
  <2> QED BY <2>1, <2>2 DEF Held
<1>8. fulfillments'[l] = Append(fulfillments[l], x)
  BY <1>4, <1>5
<1> HIDE DEF x
<1>9. PICK ff \in Seq(Fulfillment) : ff = fulfillments[l]
  BY <1>4
<1>10. Sent(ff) \in Nat /\ Sent(Append(ff, x)) = Sent(ff) + n
  BY <1>7, SentNat, SentAppend
<1>11. OneLine(ff) => OneLine(Append(ff, x))
  <2>1. \A f \in DOMAIN Append(ff, x) : (f \in DOMAIN ff /\ Append(ff, x)[f] = ff[f])
                                        \/ Append(ff, x)[f] = x
    OBVIOUS
  <2>2. Len(x.lines) <= 1
    BY <1>7
  <2> QED BY <2>1, <2>2 DEF OneLine
<1>12. OneLine(ff) /\ Sent(ff) <= fulfilled[l]
  BY <1>2, <1>3, <1>9 DEF BooksAt
<1>13. Sent(Append(ff, x)) <= fulfilled'[l] /\ fulfilled'[l] <= Ordered[l]
  BY <1>4, <1>6, <1>10, <1>12
<1>14. BooksAt(l, st)'
  BY <1>3, <1>8, <1>9, <1>11, <1>12, <1>13 DEF BooksAt
<1>15. IsAt(l, st)'
  BY <1>1, <1>2 DEF IsAt, Quiet, OnlyWith
<1> QED BY <1>14, <1>15 DEF Kept

\* A fulfillment of one line is taken back.
TakenBack(ff, f) == [ff EXCEPT ![f].canceled = TRUE]

LEMMA CanceledSent ==
  ASSUME NEW ff \in Seq(Fulfillment), NEW f \in DOMAIN ff, ~ ff[f].canceled,
         NEW gg, gg = TakenBack(ff, f)
  PROVE  /\ gg \in Seq(Fulfillment)
         /\ Sent(gg) = Sent(ff) - Quantity(ff[f])
         /\ Bare(ff) => Bare(gg)
         /\ OneLine(ff) => OneLine(gg)
<1> DEFINE x == [ff[f] EXCEPT !.canceled = TRUE]
<1>1. ff[f] \in Fulfillment /\ Held(ff[f]) = Quantity(ff[f]) /\ Quantity(ff[f]) \in Nat
  BY SentNat, QuantityNat DEF Held
<1>2. x \in Fulfillment /\ x.lines = ff[f].lines /\ x.canceled
  BY <1>1 DEF Fulfillment
<1>3. gg = [ff EXCEPT ![f] = x]
  BY DEF TakenBack
<1> HIDE DEF x
<1>4. Held(x) = 0
  BY <1>2 DEF Held
<1>5. Sent(gg) = Sent(ff) + Held(x) - Held(ff[f]) /\ Sent(ff) \in Nat
  <2>1. Sent([ff EXCEPT ![f] = x]) = Sent(ff) + Held(x) - Held(ff[f])
    BY <1>2, SentChanged
  <2>2. Sent(ff) \in Nat
    BY SentNat
  <2> QED BY <1>3, <2>1, <2>2
<1>6. DOMAIN gg = DOMAIN ff /\ Len(gg) = Len(ff) /\ gg \in Seq(Fulfillment)
      /\ \A i \in DOMAIN ff : gg[i].lines = ff[i].lines
  <2>1. [ff EXCEPT ![f] = x] \in Seq(Fulfillment)
    BY <1>2
  <2>2. /\ DOMAIN [ff EXCEPT ![f] = x] = DOMAIN ff
        /\ Len([ff EXCEPT ![f] = x]) = Len(ff)
    OBVIOUS
  <2>3. \A i \in DOMAIN ff : [ff EXCEPT ![f] = x][i] = IF i = f THEN x ELSE ff[i]
    OBVIOUS
  <2> QED BY <1>2, <1>3, <2>1, <2>2, <2>3
<1>7. Sent(gg) = Sent(ff) - Quantity(ff[f])
  BY <1>1, <1>4, <1>5
<1>8. (Bare(ff) => Bare(gg)) /\ (OneLine(ff) => OneLine(gg))
  BY <1>6 DEF Bare, OneLine
<1> QED BY <1>6, <1>7, <1>8

LEMMA TakenBackKept ==
  ASSUME TypeOK, NEW l \in Line, FulfillmentCancel(l), Kept(l)
  PROVE  Kept(l)'
<1>1. UNCHANGED <<synced, runner>>
  BY DEF FulfillmentCancel
<1>2. PICK st \in Stages : IsAt(l, st) /\ BooksAt(l, st)
  BY DEF Kept
<1>3. /\ fulfillments \in [Line -> Seq(Fulfillment)] /\ fulfilled \in [Line -> Int]
      /\ Ordered[l] \in Nat
  BY DEF TypeOK
<1>4. PICK ff \in Seq(Fulfillment) : ff = fulfillments[l]
  BY <1>3
<1>5. PICK f \in DOMAIN ff :
        /\ ~ ff[f].canceled
        /\ IF ff[f].lines = <<>>
             THEN fulfilled' = fulfilled
             ELSE \E i \in DOMAIN ff[f].lines :
                    fulfilled' = [fulfilled EXCEPT ![l] = @ - ff[f].lines[i]]
        /\ fulfillments' = [fulfillments EXCEPT ![l][f].canceled = TRUE]
  BY <1>4 DEF FulfillmentCancel
<1>6. PICK gg : gg = TakenBack(ff, f)
  OBVIOUS
<1>7. fulfillments'[l] = gg
  BY <1>3, <1>4, <1>5, <1>6 DEF TakenBack
<1>8. /\ Sent(gg) = Sent(ff) - Quantity(ff[f])
      /\ Bare(ff) => Bare(gg)
      /\ OneLine(ff) => OneLine(gg)
      /\ Sent(ff) \in Nat /\ Quantity(ff[f]) \in Nat /\ ff[f] \in Fulfillment
  <2>1. /\ Sent(gg) = Sent(ff) - Quantity(ff[f])
        /\ Bare(ff) => Bare(gg)
        /\ OneLine(ff) => OneLine(gg)
    <3>1. ~ ff[f].canceled
      BY <1>5
    <3> QED BY <1>6, <3>1, CanceledSent
  <2>2. Sent(ff) \in Nat /\ ff[f] \in Fulfillment
    BY SentNat
  <2>3. Quantity(ff[f]) \in Nat
    BY <2>2, QuantityNat
  <2> QED BY <2>1, <2>2, <2>3
<1>9. st \notin {"none", "before"}
  BY <1>2, <1>4, <1>5 DEF BooksAt
<1>10. ASSUME OneLine(ff) PROVE fulfilled'[l] = fulfilled[l] - Quantity(ff[f])
  <2>1. Len(ff[f].lines) <= 1 /\ fulfilled[l] \in Int
    BY <1>3, <1>10 DEF OneLine
  <2>2. CASE ff[f].lines = <<>>
    BY <1>5, <1>8, <2>1, <2>2, FewLines
  <2>3. CASE ff[f].lines # <<>>
    <3>1. DOMAIN ff[f].lines = {1} /\ Quantity(ff[f]) = ff[f].lines[1]
      BY <1>8, <2>1, <2>3, FewLines
    <3>2. fulfilled' = [fulfilled EXCEPT ![l] = @ - ff[f].lines[1]]
      BY <1>5, <2>3, <3>1
    <3> QED BY <1>3, <3>1, <3>2
  <2> QED BY <2>2, <2>3
<1>11. BooksAt(l, st)'
  <2>1. CASE st = "line"
    BY <1>2, <1>4, <1>7, <1>8, <2>1 DEF BooksAt
  <2>2. CASE st = "fulfilled"
    BY <1>2, <1>3, <1>4, <1>7, <1>8, <2>2 DEF BooksAt
  <2>3. CASE st \in {"saved", "subtracted", "told", "done"}
    <3>1. OneLine(ff) /\ Sent(ff) <= fulfilled[l] /\ fulfilled[l] <= Ordered[l]
      BY <1>2, <1>4, <2>3 DEF BooksAt
    <3>2. OneLine(gg) /\ Sent(gg) <= fulfilled'[l] /\ fulfilled'[l] <= Ordered[l]
      BY <1>3, <1>8, <1>10, <3>1
    <3> QED BY <1>7, <2>3, <3>2 DEF BooksAt
  <2> QED BY <1>9, <2>1, <2>2, <2>3 DEF Stages, Underway
<1>12. IsAt(l, st)'
  BY <1>1, <1>2 DEF IsAt, Quiet, OnlyWith
<1> QED BY <1>11, <1>12 DEF Kept

LEMMA OutsideKept ==
  ASSUME TypeOK, Outside, NEW l \in Line, l \notin disturbed', Kept(l)
  PROVE  Kept(l)'
<1>1. UNCHANGED <<runner, synced>>
  BY OutsideRunner
<1>2. CASE fulfillments'[l] = fulfillments[l] /\ fulfilled'[l] = fulfilled[l]
  BY <1>1, <1>2, Elsewhere
<1>3. CASE OrderFulfill(l)
  BY <1>3, FulfilledKept
<1>4. CASE FulfillmentCancel(l)
  BY <1>4, TakenBackKept
<1>5. ASSUME NEW k \in Line, k # l, OrderFulfill(k) \/ FulfillmentCancel(k)
      PROVE  fulfillments'[l] = fulfillments[l] /\ fulfilled'[l] = fulfilled[l]
  BY <1>5 DEF OrderFulfill, FulfillmentCancel, TypeOK
<1>6. ASSUME NEW k \in Line, Place(k) \/ Draft(k) \/ Cancel(k)
      PROVE  fulfillments'[l] = fulfillments[l] /\ fulfilled'[l] = fulfilled[l]
  BY <1>6 DEF Place, Draft, Cancel
<1>7. (\E s \in Stock : StaffSets(s)) \/ StoreSells =>
        fulfillments'[l] = fulfillments[l] /\ fulfilled'[l] = fulfilled[l]
  BY DEF StaffSets, StoreSells, shop
<1> QED BY <1>2, <1>3, <1>4, <1>5, <1>6, <1>7 DEF Outside

\* No step takes an order back from the disturbed.
LEMMA StillDisturbed ==
  ASSUME TypeOK, [Next]_vars
  PROVE  disturbed \subseteq disturbed'
<1>1. ASSUME NEW l \in Line,
             Place(l) \/ Draft(l) \/ Cancel(l) \/ OrderFulfill(l) \/ FulfillmentCancel(l)
      PROVE  disturbed \subseteq disturbed'
  BY <1>1 DEF Place, Draft, Cancel, OrderFulfill, FulfillmentCancel, history
<1>2. ASSUME NEW s \in Stock, StaffSets(s) PROVE disturbed \subseteq disturbed'
  BY <1>2 DEF StaffSets
<1>3. ASSUME NEW r \in Runners, StartSync(r) \/ StartImport(r) \/ Proceed(r) \/ Crash(r)
      PROVE  disturbed \subseteq disturbed'
  BY <1>3 DEF Proceed, StartSync, StartImport, NextRow, CreateFulfillment, InsertLine,
     SetFulfilled, DeleteAllocation, UpdateQuantity, SetStatus, Adjust, AdjustFails, MarkAdjusted,
     Import, Crash, history
<1>4. StoreSells \/ UNCHANGED vars => disturbed' = disturbed
  BY DEF StoreSells, vars, history
<1> QED BY <1>1, <1>2, <1>3, <1>4 DEF Next

LEMMA NextKept ==
  ASSUME TypeOK, Selected, Separate, Stocked, NumStocks = 1, KeptBooks, [Next]_vars
  PROVE  KeptBooks'
<1> SUFFICES ASSUME NEW l \in Line, l \notin disturbed' PROVE Kept(l)'
  BY DEF KeptBooks
<1>1. Kept(l)
  BY StillDisturbed DEF KeptBooks
<1>2. CASE UNCHANGED vars
  BY <1>1, <1>2, Elsewhere DEF vars
<1>3. CASE Outside
  BY <1>1, <1>3, OutsideKept
<1>4. ASSUME NEW r \in Runners, StartSync(r) \/ StartImport(r) \/ Proceed(r) \/ Crash(r)
      PROVE  Kept(l)'
  <2>1. CASE StartSync(r)
    BY <1>1, <2>1, StartKept
  <2>2. CASE NextRow(r) \/ CreateFulfillment(r) \/ DeleteAllocation(r) \/ UpdateQuantity(r)
    BY <1>1, <2>2, RowKept
  <2>3. CASE InsertLine(r) \/ SetFulfilled(r)
    BY <1>1, <2>3, LineKept
  <2>4. CASE SetStatus(r) \/ Adjust(r) \/ AdjustFails(r) \/ MarkAdjusted(r)
               \/ StartImport(r) \/ Import(r) \/ Crash(r)
    BY <1>1, <2>4, AfterRowsKept
  <2> QED BY <1>4, <2>1, <2>2, <2>3, <2>4 DEF Proceed
<1> QED BY <1>2, <1>3, <1>4 DEF Next, Outside

\* How far each process is with each order, by induction; with one warehouse.
LEMMA StagesHold == NumStocks = 1 => (Spec => [](Selected /\ Separate /\ Stocked))
<1> SUFFICES ASSUME NumStocks = 1 PROVE Spec => [](Selected /\ Separate /\ Stocked)
  OBVIOUS
<1>1. Init => Selected /\ Separate /\ Stocked
  BY DEF Init, Selected, Separate, Stocked, Idle, Looping, InRow, Tables
<1>2. TypeOK /\ Selected /\ Separate /\ Stocked /\ [Next]_vars =>
        Selected' /\ Separate' /\ Stocked'
  BY NextSelected, NextSeparate, StockedStep
<1> QED BY <1>1, <1>2, TypesHold, PTL DEF Spec

\* However many processes overlap, die and fail, and whatever staff do: more than
\* was ordered is shipped of disturbed orders only.
THEOREM OvershippingNeedsDisturbance == NumStocks = 1 => (Spec => []OvershippedNeeds)
<1> SUFFICES ASSUME NumStocks = 1 PROVE Spec => []OvershippedNeeds
  OBVIOUS
<1>1. Init => KeptBooks
  <2> SUFFICES ASSUME Init, NEW l \in Line PROVE Kept(l)
    BY DEF KeptBooks
  <2>1. IsAt(l, "none")
    BY DEF Init, IsAt, Quiet, Underway, Stage, Idle, Looping, InRow
  <2>2. BooksAt(l, "none")
    BY DEF Init, BooksAt
  <2> QED BY <2>1, <2>2 DEF Kept, Stages
<1>2. TypeOK /\ Selected /\ Separate /\ Stocked /\ KeptBooks /\ [Next]_vars => KeptBooks'
  BY NextKept
<1>3. Spec => [](Selected /\ Separate /\ Stocked)
  BY StagesHold
<1>4. Spec => []KeptBooks
  BY <1>1, <1>2, <1>3, TypesHold, PTL DEF Spec
<1>5. TypeOK /\ KeptBooks => OvershippedNeeds
  <2> SUFFICES ASSUME TypeOK, KeptBooks, NEW l \in Line, Shipped(l) > Ordered[l]
               PROVE  l \in disturbed
    BY DEF OvershippedNeeds
  <2>1. Shipped(l) \in Nat /\ Ordered[l] \in Nat
    BY ShippedSent, FulfillmentTypes, SentNat
  <2>2. Kept(l) => Shipped(l) <= Ordered[l]
    BY KeptShipped
  <2> QED BY <2>1, <2>2 DEF KeptBooks
<1> QED BY <1>4, <1>5, TypesHold, PTL

-----------------------------------------------------------------------------
(* What the processes have subtracted in the shop and not yet in ShopKeep. *)

Load(p) ==
  SumTo([l \in Line |-> IF Stage(p, l) = "subtracted" THEN Ordered[l] ELSE 0], NumLines)

LEMMA UntoldLoad == TypeOK => \A r \in Runners : Untold(r) = Load(runner[r])
<1> SUFFICES ASSUME TypeOK, NEW r \in Runners PROVE Untold(r) = Load(runner[r])
  OBVIOUS
<1> DEFINE orders == Past(r, InRow) \ (IF runner[r].at = "mark" THEN {runner[r].order} ELSE {})
           f == [l \in Line |-> IF l \in orders THEN Ordered[l] ELSE 0]
           g == [l \in Line |-> IF Stage(runner[r], l) = "subtracted" THEN Ordered[l] ELSE 0]
<1>1. \A l \in Line : l \in orders <=> Stage(runner[r], l) = "subtracted"
  BY StageMeans
<1> HIDE DEF orders
<1>2. \A i \in 1 .. NumLines : f[i] = g[i]
  BY <1>1 DEF Line
<1> HIDE DEF f, g
<1>3. SumTo(f, NumLines) = SumTo(g, NumLines)
  BY <1>2, SumToEqual
<1> QED BY <1>3 DEF Untold, Load, f, g, orders

LEMMA LoadSame ==
  ASSUME NEW p, NEW q,
         \A l \in Line : Stage(p, l) = "subtracted" <=> Stage(q, l) = "subtracted"
  PROVE  Load(p) = Load(q)
<1> DEFINE f == [l \in Line |-> IF Stage(p, l) = "subtracted" THEN Ordered[l] ELSE 0]
           g == [l \in Line |-> IF Stage(q, l) = "subtracted" THEN Ordered[l] ELSE 0]
<1>1. \A i \in 1 .. NumLines : f[i] = g[i]
  BY DEF Line
<1> HIDE DEF f, g
<1>2. SumTo(f, NumLines) = SumTo(g, NumLines)
  BY <1>1, SumToEqual
<1> QED BY <1>2 DEF Load, f, g

\* What one order in stage st adds.
Share(l, st) == IF st = "subtracted" THEN Ordered[l] ELSE 0

LEMMA LoadMoved ==
  ASSUME NEW p, NEW q, NEW l \in Line,
         \A k \in Line : k # l => Stage(q, k) = Stage(p, k)
  PROVE  Load(q) = Load(p) + Share(l, Stage(q, l)) - Share(l, Stage(p, l))
<1> DEFINE f == [k \in Line |-> IF Stage(p, k) = "subtracted" THEN Ordered[k] ELSE 0]
           g == [k \in Line |-> IF Stage(q, k) = "subtracted" THEN Ordered[k] ELSE 0]
<1>1. \A i \in 1 .. NumLines : f[i] \in Int /\ g[i] \in Int
  BY DEF Line
<1>2. \A i \in 1 .. NumLines : i # l => g[i] = f[i]
  BY DEF Line
<1>3. g[l] = Share(l, Stage(q, l)) /\ f[l] = Share(l, Stage(p, l))
  BY DEF Share
<1>0. Load(p) = SumTo(f, NumLines) /\ Load(q) = SumTo(g, NumLines)
  BY DEF Load
<1> HIDE DEF f, g
<1>4. ApartAt(NumLines, f, g, l)
  BY <1>1, <1>2 DEF ApartAt, Line
<1>5. SumTo(g, NumLines) = SumTo(f, NumLines) + g[l] - f[l]
  BY <1>4, SumApartAt
<1> QED BY <1>0, <1>3, <1>5

LEMMA LoadNone ==
  ASSUME NEW p, \A l \in Line : Stage(p, l) = "none"
  PROVE  Load(p) = 0
<1> DEFINE f == [l \in Line |-> IF Stage(p, l) = "subtracted" THEN Ordered[l] ELSE 0]
<1>0. Load(p) = SumTo(f, NumLines)
  BY DEF Load
<1>1. \A i \in 1 .. NumLines : f[i] = 0
  BY DEF Line
<1> HIDE DEF f
<1> QED BY <1>0, <1>1, SumOfNothing

\* The same of the next state.
LEMMA UntoldNext ==
  ((\A r \in Runners : Untold(r) \in Nat) /\ Owed \in Nat)'
BY UntoldNat, PTL

LEMMA UntoldLoadNext ==
  (TypeOK => \A r \in Runners : Untold(r) = Load(runner[r]))'
BY UntoldLoad, PTL

\* A step of one process changes what is owed by what that process has untold.
LEMMA OwedAlone ==
  ASSUME TypeOK, TypeOK', NEW r \in Runners, Alone(r)
  PROVE  /\ Owed' = Owed + Load(runner'[r]) - Load(runner[r])
         /\ Owed \in Nat /\ Owed' \in Nat
         /\ Load(runner[r]) \in Nat /\ Load(runner'[r]) \in Nat
<1> DEFINE f == [q \in Runners |-> Untold(q)]
           g == [q \in Runners |-> Untold(q)']
<1>1. (\A q \in Runners : Untold(q) \in Nat) /\ Owed \in Nat
  BY UntoldNat
<1>2. (\A q \in Runners : Untold(q)' \in Nat) /\ Owed' \in Nat
  BY UntoldNext
<1>3. \A q \in Runners : Untold(q) = Load(runner[q])
  BY UntoldLoad
<1>4. \A q \in Runners : Untold(q)' = Load(runner'[q])
  <2>1. \A q \in Runners : Untold(q)' = Load(runner[q])'
    BY UntoldLoadNext
  <2>2. \A q \in Runners : Load(runner[q])' = Load(runner'[q])
    BY DEF Load, Stage, StageAt
  <2> QED BY <2>1, <2>2
<1>5. \A q \in Runners : q # r => Untold(q)' = Untold(q)
  BY <1>3, <1>4 DEF Alone
<1>6. ApartAt(NumRunners, f, g, r)
  BY <1>1, <1>2, <1>5 DEF ApartAt, Runners
<1>7. Owed = SumTo(f, NumRunners) /\ Owed' = SumTo(g, NumRunners)
  BY DEF Owed
<1>8. f[r] = Untold(r) /\ g[r] = Untold(r)'
  OBVIOUS
<1> HIDE DEF f, g
<1>9. SumTo(g, NumRunners) = SumTo(f, NumRunners) + g[r] - f[r]
  BY <1>6, SumApartAt
<1> QED BY <1>1, <1>2, <1>3, <1>4, <1>7, <1>8, <1>9

LEMMA OwedStays ==
  ASSUME TypeOK, TypeOK', NEW r \in Runners, Alone(r),
         \A k \in Line : Stage(runner[r], k) = "subtracted" <=> Stage(runner'[r], k) = "subtracted"
  PROVE  Owed' = Owed
<1>1. Load(runner[r]) = Load(runner'[r])
  BY LoadSame
<1> QED BY <1>1, OwedAlone

LEMMA OwedMoved ==
  ASSUME TypeOK, TypeOK', NEW r \in Runners, NEW l \in Line, NEW from, NEW to,
         Moved(r, l, from, to)
  PROVE  Owed' = Owed + Share(l, to) - Share(l, from)
<1>1. /\ Alone(r) /\ Stage(runner[r], l) = from /\ Stage(runner'[r], l) = to
      /\ \A k \in Line : k # l => Stage(runner'[r], k) = Stage(runner[r], k)
  BY DEF Moved
<1>2. Load(runner'[r]) = Load(runner[r]) + Share(l, to) - Share(l, from)
  BY <1>1, LoadMoved
<1>3. Share(l, to) \in Nat /\ Share(l, from) \in Nat
  BY DEF Share
<1> QED BY <1>1, <1>2, <1>3, OwedAlone

LEMMA OwedDied ==
  ASSUME TypeOK, TypeOK', NEW r \in Runners, Crash(r)
  PROVE  Owed' = Owed - Untold(r)
<1>1. Alone(r) /\ \A k \in Line : Stage(runner'[r], k) = "none"
  BY ImportStages
<1>2. Load(runner'[r]) = 0 /\ Untold(r) = Load(runner[r])
  BY <1>1, LoadNone, UntoldLoad
<1> QED BY <1>1, <1>2, OwedAlone

LEMMA OwedOutside ==
  ASSUME UNCHANGED runner
  PROVE  Owed' = Owed
BY DEF Owed, Untold, Past, Working

-----------------------------------------------------------------------------
(* The two counts.  What the shop holds is within `taken' and `added' of   *)
(* what ShopKeep will count when it has been told; no download is less     *)
(* than ShopKeep counts now, which only falls.                             *)

Goods == SumTo(wh.quantity, NumStocks)

Agreement ==
  /\ Near(Goods, shopkeep - Owed, taken, added)
  /\ \A r \in Runners : runner[r].at = "import" => runner[r].file >= shopkeep

LEMMA OneShelf ==
  ASSUME NumStocks = 1, NEW f, f[1] \in Int
  PROVE  SumTo(f, NumStocks) = f[1]
<1>1. SumTo(f, 0 + 1) = SumTo(f, 0) + f[0 + 1]
  BY SumToStep
<1>2. 0 + 1 = NumStocks
  OBVIOUS
<1> QED BY <1>1, <1>2, SumToZero

LEMMA GoodsNat == TypeOK => Goods \in Nat
<1> SUFFICES ASSUME TypeOK PROVE Goods \in Nat
  OBVIOUS
<1>1. wh.quantity \in [Stock -> Nat]
  BY DEF TypeOK, WarehouseState
<1>2. \A s \in 1 .. NumStocks : wh.quantity[s] \in Nat
  BY <1>1 DEF Stock
<1> QED BY <1>2, SumToNat DEF Goods

\* Downloads stay: no step but StartImport makes one, and none adds to ShopKeep.
LEMMA FilesStay ==
  ASSUME TypeOK, TypeOK', Agreement, shopkeep' <= shopkeep,
         \A r \in Runners : \/ runner'[r] = runner[r]
                            \/ runner'[r].at # "import"
                            \/ runner'[r].file >= shopkeep'
  PROVE  \A r \in Runners : runner'[r].at = "import" => runner'[r].file >= shopkeep'
<1> SUFFICES ASSUME NEW r \in Runners, runner'[r].at = "import", runner'[r] = runner[r]
             PROVE  runner'[r].file >= shopkeep'
  OBVIOUS
<1>1. runner[r].at = "import" /\ runner[r].file >= shopkeep
  BY DEF Agreement
<1>2. runner[r].file \in Int
  BY <1>1, ProcessFields DEF TypeOK
<1>3. shopkeep \in Int /\ shopkeep' \in Int
  BY DEF TypeOK
<1> QED BY <1>1, <1>2, <1>3

LEMMA SyncQuantity ==
  ASSUME TypeOK, NumStocks = 1, Stocked, NEW r \in Runners
  PROVE  /\ UpdateQuantity(r) =>
              Goods' = Positive(Goods - Ordered[runner[r].row[1]])
         /\ Import(r) => Goods' = Positive(runner[r].file)
<1>1. wh.quantity \in [Stock -> Nat] /\ Stock = {1} /\ wh.stocks = {1} /\ runner[r] \in Process
  <2>1. wh \in WarehouseState /\ runner[r] \in Process
    BY DEF TypeOK
  <2>2. wh.quantity \in [Stock -> Nat]
    BY <2>1 DEF WarehouseState
  <2>3. Stock = {1}
    BY DEF Stock
  <2> QED BY <2>1, <2>2, <2>3 DEF Stocked
<1>2. Goods = wh.quantity[1]
  BY <1>1, OneShelf DEF Goods
<1>3. ASSUME UpdateQuantity(r) PROVE Goods' = Positive(Goods - Ordered[runner[r].row[1]])
  <2> DEFINE k == runner[r].row[1]
  <2>1. k \in Line
    BY <1>1, <1>3, ProcessFields DEF UpdateQuantity, InRow
  <2>2. wh'.quantity = SubtractedTo0(Ordered[k])
    BY <1>3 DEF UpdateQuantity, Tables
  <2> HIDE DEF k
  <2>3. wh'.quantity[1] = Positive(wh.quantity[1] - Ordered[k]) /\ wh'.quantity[1] \in Int
    BY <1>1, <2>1, <2>2 DEF SubtractedTo0, Positive
  <2>4. SumTo(wh'.quantity, NumStocks) = wh'.quantity[1]
    BY <2>3, OneShelf
  <2> QED BY <1>2, <2>3, <2>4 DEF Goods, k
<1>4. ASSUME Import(r) PROVE Goods' = Positive(runner[r].file)
  <2>1. wh' = QuantitySet(wh, 1, Positive(runner[r].file)) /\ runner[r].at = "import"
    BY <1>1, <1>4 DEF Import
  <2>2. runner[r].file \in Int
    BY <1>1, <2>1, ProcessFields
  <2>3. wh'.quantity[1] = Positive(runner[r].file) /\ wh'.quantity[1] \in Int
    BY <1>1, <2>1, <2>2 DEF QuantitySet, Tables, Positive
  <2>4. SumTo(wh'.quantity, NumStocks) = wh'.quantity[1]
    BY <2>3, OneShelf
  <2> QED BY <2>3, <2>4 DEF Goods
<1> QED BY <1>3, <1>4

LEMMA OutsideAgrees ==
  ASSUME TypeOK, TypeOK', NumStocks = 1, Agreement, Outside
  PROVE  Agreement'
<1>1. UNCHANGED runner /\ Owed' = Owed
  BY OutsideRunner, OwedOutside
<1>2. Goods \in Nat /\ Owed \in Nat /\ shopkeep \in Int /\ taken \in Int /\ added \in Int
  BY GoodsNat, UntoldNat, Numbers
<1>3. Near(Goods, shopkeep - Owed, taken, added)
  BY DEF Agreement
<1>4. ASSUME Near(Goods', shopkeep' - Owed, taken', added'), shopkeep' <= shopkeep
      PROVE  Agreement'
  <2>1. \A r \in Runners : runner'[r].at = "import" => runner'[r].file >= shopkeep'
    BY <1>1, <1>4, FilesStay
  <2> QED BY <1>1, <1>4, <2>1 DEF Agreement
<1>5. ASSUME NEW l \in Line, Place(l) \/ Draft(l) \/ Cancel(l) PROVE Agreement'
  <2>1. Goods' = Goods
    <3>1. wh'.quantity = wh.quantity
      BY <1>5 DEF Place, Draft, Cancel, Allocated, OrderDeallocated, Tables
    <3> QED BY <3>1 DEF Goods
  <2>2. shopkeep' = shopkeep /\ taken' = taken /\ added' = added
    BY <1>5 DEF Place, Draft, Cancel, history
  <2> QED BY <1>2, <1>3, <1>4, <2>1, <2>2
<1>6. wh \in WarehouseState
  BY DEF TypeOK
<1>7. ASSUME NEW l \in Line, OrderFulfill(l) PROVE Agreement'
  <2>1. PICK n \in Unfulfilled(l), w \in Stock : wh' = Decreased(wh, l, n, w) /\ taken' = taken + n
    BY <1>7 DEF OrderFulfill
  <2>2. n \in Nat
    BY <2>1, Numbers DEF Unfulfilled
  <2>3. Goods' = Goods - n
    BY <1>6, <2>1, <2>2, DecreasedSums DEF Goods
  <2>4. shopkeep' = shopkeep /\ added' = added
    BY <1>7 DEF OrderFulfill
  <2>5. Near(Goods - n, shopkeep - Owed, taken + n, added)
    BY <1>2, <1>3, <2>2, NearTaken
  <2> QED BY <1>2, <1>4, <2>1, <2>3, <2>4, <2>5
<1>8. ASSUME NEW l \in Line, FulfillmentCancel(l) PROVE Agreement'
  <2>1. PICK f \in DOMAIN fulfillments[l], w \in Stock :
          /\ IF fulfillments[l][f].lines = <<>>
               THEN wh' = wh
               ELSE wh' = Increased(wh, l, w, Quantity(fulfillments[l][f]), TRUE)
          /\ added' = added + Quantity(fulfillments[l][f])
    BY <1>8 DEF FulfillmentCancel
  <2>2. PICK old \in Fulfillment : old = fulfillments[l][f]
    BY FulfillmentTypes
  <2>3. PICK n \in Nat : n = Quantity(old)
    BY QuantityNat
  <2>4. Goods' = Goods + n
    <3>1. CASE old.lines = <<>>
      <4>1. wh' = wh /\ n = 0
        BY <2>1, <2>2, <2>3, <3>1, FewLines
      <4> QED BY <1>2, <4>1 DEF Goods
    <3>2. CASE old.lines # <<>>
      <4>1. wh' = Increased(wh, l, w, n, TRUE)
        BY <2>1, <2>2, <2>3, <3>2
      <4> QED BY <1>6, <4>1, IncreasedSums DEF Goods
    <3> QED BY <3>1, <3>2
  <2>5. shopkeep' = shopkeep /\ taken' = taken /\ added' = added + n
    BY <1>8, <2>1, <2>2, <2>3 DEF FulfillmentCancel
  <2>6. Near(Goods + n, shopkeep - Owed, taken, added + n)
    BY <1>2, <1>3, <2>3, NearAdded
  <2> QED BY <1>2, <1>4, <2>4, <2>5, <2>6
<1>9. ASSUME NEW s \in Stock, StaffSets(s) PROVE Agreement'
  <2>1. PICK n \in Counts : /\ wh' = QuantitySet(wh, s, n)
                            /\ taken' = taken + Positive(wh.quantity[s] - n)
                            /\ added' = added + Positive(n - wh.quantity[s])
    BY <1>9 DEF StaffSets
  <2>2. n \in Nat /\ s = 1 /\ wh.quantity \in [Stock -> Nat] /\ wh.quantity[1] \in Nat
    BY <1>6 DEF WarehouseState, Stock
  <2>3. wh'.quantity[1] = n
    BY <2>1, <2>2 DEF QuantitySet, Tables
  <2>4. Goods' = n /\ Goods = wh.quantity[1]
    <3>1. SumTo(wh.quantity, NumStocks) = wh.quantity[1]
      BY <2>2, OneShelf
    <3>2. SumTo(wh'.quantity, NumStocks) = wh'.quantity[1]
      BY <2>2, <2>3, OneShelf
    <3> QED BY <2>3, <3>1, <3>2 DEF Goods
  <2>5. Near(n, shopkeep - Owed, taken + Positive(Goods - n), added + Positive(n - Goods))
    BY <1>2, <1>3, <2>2, NearCounted
  <2>6. shopkeep' = shopkeep
    BY <1>9 DEF StaffSets
  <2> QED BY <1>2, <1>4, <2>1, <2>2, <2>4, <2>5, <2>6
<1>10. ASSUME StoreSells PROVE Agreement'
  <2>1. shopkeep' = shopkeep - 1 /\ taken' = taken /\ added' = added + 1 /\ wh' = wh
    BY <1>10 DEF StoreSells, shop
  <2>2. Near(Goods, shopkeep - Owed - 1, taken, added + 1)
    BY <1>2, <1>3, NearSold
  <2>3. shopkeep - 1 - Owed = shopkeep - Owed - 1 /\ Goods' = Goods /\ shopkeep' <= shopkeep
    BY <1>2, <2>1 DEF Goods
  <2> QED BY <1>4, <2>1, <2>2, <2>3
<1> QED BY <1>5, <1>7, <1>8, <1>9, <1>10 DEF Outside

\* The steps of a process that change neither count, nor what is between them.
LEMMA SilentAgrees ==
  ASSUME TypeOK, TypeOK', Selected, Separate, Stocked, NumStocks = 1, Agreement, NEW r \in Runners,
         \/ StartSync(r) \/ NextRow(r) \/ CreateFulfillment(r) \/ InsertLine(r) \/ SetFulfilled(r)
         \/ DeleteAllocation(r) \/ SetStatus(r) \/ MarkAdjusted(r) \/ StartImport(r)
  PROVE  Agreement'
<1>1. wh'.quantity = wh.quantity /\ shopkeep' = shopkeep /\ taken' = taken /\ added' = added
  <2>1. wh' = wh \/ DeleteAllocation(r)
    BY DEF StartSync, NextRow, CreateFulfillment, InsertLine, SetFulfilled,
           SetStatus, MarkAdjusted, StartImport, shop
  <2>2. DeleteAllocation(r) => wh'.quantity = wh.quantity
    BY DEF DeleteAllocation, Tables
  <2>3. shopkeep' = shopkeep /\ taken' = taken /\ added' = added
    BY DEF StartSync, NextRow, CreateFulfillment, InsertLine, SetFulfilled, DeleteAllocation,
           SetStatus, MarkAdjusted, StartImport, history
  <2> QED BY <2>1, <2>2, <2>3
<1>2. Owed' = Owed /\ Alone(r)
  <2>1. CASE StartSync(r)
    <3>1. Alone(r) /\ \A k \in Line : /\ Stage(runner[r], k) = "none"
                                      /\ Stage(runner'[r], k) \in {"before", "none"}
      BY <2>1, SyncStarts
    <3> QED BY <3>1, OwedStays
  <2>2. ASSUME NEW l \in Line, NEW from, NEW to, Moved(r, l, from, to),
               from # "subtracted", to # "subtracted"
        PROVE  Owed' = Owed /\ Alone(r)
    <3>1. Share(l, to) = 0 /\ Share(l, from) = 0 /\ Alone(r)
      BY <2>2 DEF Share, Moved
    <3>2. Owed' = Owed + Share(l, to) - Share(l, from)
      BY <2>2, OwedMoved
    <3> QED BY <3>1, <3>2, UntoldNat
  <2>3. CASE NextRow(r)
    <3>1. PICK l \in Line, to \in {"before", "line"} : Moved(r, l, "before", to)
      BY <2>3, RowStarts
    <3> QED BY <2>2, <3>1
  <2>4. CASE CreateFulfillment(r) \/ InsertLine(r) \/ SetFulfilled(r) \/ DeleteAllocation(r)
    <3>1. PICK l \in Line, from \in {"before", "line", "fulfilled", "saved"},
               to \in {"line", "fulfilled", "saved"} : Moved(r, l, from, to)
      BY <2>4, RowSteps
    <3> QED BY <2>2, <3>1
  <2>5. CASE SetStatus(r) \/ StartImport(r)
    <3>1. Stays(r)
      BY <2>5, AfterRows, ImportStages
    <3> QED BY <3>1, OwedStays DEF Stays
  <2>6. CASE MarkAdjusted(r)
    <3>1. runner[r].order \in Line /\ Moved(r, runner[r].order, "told", "none")
      BY <2>6, AfterRows
    <3> QED BY <2>2, <3>1
  <2> QED BY <2>1, <2>3, <2>4, <2>5, <2>6
<1>3. shopkeep \in Int
  BY Numbers
<1>4. runner'[r].at # "import" \/ runner'[r].file >= shopkeep'
  <2>1. CASE StartImport(r)
    <3>1. runner'[r] = [at |-> "import", file |-> shopkeep]
      <4>1. runner' = [runner EXCEPT ![r] = [at |-> "import", file |-> shopkeep]]
        BY <2>1 DEF StartImport
      <4> QED BY <4>1, OnlyOne
    <3> QED BY <1>1, <1>3, <3>1
  <2>2. CASE NextRow(r)
    <3>1. PICK row \in runner[r].todo, at \in {"fulfillment", "line"}, ids \in [Line -> Nat] :
            /\ runner'[r] = OfRow(at, row, runner[r].todo \ {row}, runner[r].orders, ids)
      BY <2>2, NextRowGoes
    <3> QED BY <3>1 DEF OfRow
  <2>3. CASE InsertLine(r) \/ SetFulfilled(r) \/ DeleteAllocation(r) \/ CreateFulfillment(r)
    <3>0. runner[r].ids \in [Line -> Nat] /\ runner[r].row[1] \in Line /\ TypeOK
      BY <2>3, ProcessFields DEF TypeOK, Looping, InRow, InsertLine, SetFulfilled,
         DeleteAllocation, CreateFulfillment
    <3>1. PICK at \in InRow, ids \in [Line -> Nat] :
            runner' = [runner EXCEPT ![r] =
              OfRow(at, runner[r].row, runner[r].todo, runner[r].orders, ids)]
      <4>1. CASE CreateFulfillment(r)
        <5> DEFINE l == runner[r].row[1]
                   ff == Append(fulfillments[l], [canceled |-> FALSE, lines |-> <<>>])
        <5>1. fulfillments \in [Line -> Seq(Fulfillment)] /\ fulfillments[l] \in Seq(Fulfillment)
          BY <3>0 DEF TypeOK
        <5>2. fulfillments'[l] = ff
          BY <3>0, <4>1, <5>1 DEF CreateFulfillment
        <5>3. Len(ff) \in Nat
          BY <5>1
        <5>4. [runner[r].ids EXCEPT ![l] = Len(fulfillments'[l])] \in [Line -> Nat]
          BY <3>0, <5>2, <5>3
        <5> QED BY <4>1, <5>4 DEF CreateFulfillment, InRow
      <4>2. CASE InsertLine(r) \/ SetFulfilled(r) \/ DeleteAllocation(r)
        BY <3>0, <4>2 DEF InsertLine, SetFulfilled, DeleteAllocation, Goes, InRow
      <4> QED BY <2>3, <4>1, <4>2
    <3>2. runner'[r].at = at
      <4>1. runner'[r] = OfRow(at, runner[r].row, runner[r].todo, runner[r].orders, ids)
        BY <3>1, OnlyOne
      <4> QED BY <4>1 DEF OfRow
    <3> QED BY <3>2 DEF InRow
  <2>4. CASE StartSync(r) \/ SetStatus(r) \/ MarkAdjusted(r)
    <3>1. PICK p \in {Rows(ToSync \X wh.stocks, ToSync, [l \in Line |-> 0]), Idle,
                      [at |-> "adjust", todo |-> runner[r].orders],
                      [at |-> "adjust", todo |-> runner[r].todo]} :
            runner' = [runner EXCEPT ![r] = p]
      BY <2>4 DEF StartSync, SetStatus, MarkAdjusted
    <3>2. p.at # "import"
      BY DEF Rows, Idle
    <3> QED BY <3>1, <3>2, OnlyOne
  <2> QED BY <2>1, <2>2, <2>3, <2>4
<1>5. \A q \in Runners : runner'[q].at = "import" => runner'[q].file >= shopkeep'
  <2>1. \A q \in Runners : \/ runner'[q] = runner[q] \/ runner'[q].at # "import"
                           \/ runner'[q].file >= shopkeep'
    BY <1>2, <1>4 DEF Alone
  <2> QED BY <1>1, <1>3, <2>1, FilesStay
<1>6. Goods' = Goods
  BY <1>1 DEF Goods
<1> QED BY <1>1, <1>2, <1>5, <1>6 DEF Agreement

\* Those that do.
LEMMA TellingAgrees ==
  ASSUME TypeOK, TypeOK', Selected, Separate, Stocked, NumStocks = 1, Agreement, NEW r \in Runners,
         UpdateQuantity(r) \/ Adjust(r) \/ AdjustFails(r) \/ Import(r) \/ Crash(r)
  PROVE  Agreement'
<1>1. Goods \in Nat /\ Owed \in Nat /\ shopkeep \in Int /\ taken \in Int /\ added \in Int
  BY GoodsNat, UntoldNat, Numbers
<1>2. Near(Goods, shopkeep - Owed, taken, added)
  BY DEF Agreement
<1>3. PICK x \in Int : x = shopkeep - Owed
  BY <1>1
<1>4. ASSUME NEW p, runner' = [runner EXCEPT ![r] = p], p.at # "import", shopkeep' <= shopkeep,
             Near(Goods', shopkeep' - Owed', taken', added')
      PROVE  Agreement'
  <2>1. runner'[r] = p /\ \A q \in Runners : q # r => runner'[q] = runner[q]
    BY <1>4, OnlyOne
  <2>2. \A q \in Runners : runner'[q] = runner[q] \/ runner'[q].at # "import"
    BY <1>4, <2>1
  <2>3. \A q \in Runners : runner'[q].at = "import" => runner'[q].file >= shopkeep'
    BY <1>4, <2>2, FilesStay
  <2> QED BY <1>4, <2>3 DEF Agreement
<1>5. ASSUME UpdateQuantity(r) PROVE Agreement'
  <2>1. PICK k \in Line : k = runner[r].row[1] /\ Moved(r, k, "saved", "subtracted")
    BY <1>5, RowEnds
  <2>2. PICK n \in Nat : n = Ordered[k]
    OBVIOUS
  <2>3. Owed' = Owed + n
    <3>1. Share(k, "subtracted") = n /\ Share(k, "saved") = 0
      BY <2>2 DEF Share
    <3>2. Owed' = Owed + Share(k, "subtracted") - Share(k, "saved")
      BY <2>1, OwedMoved
    <3> QED BY <1>1, <2>2, <3>1, <3>2
  <2>4. Goods' = Positive(Goods - n)
    BY <1>5, <2>1, <2>2, SyncQuantity
  <2>5. shopkeep' = shopkeep /\ taken' = taken /\ added' = added
    BY <1>5 DEF UpdateQuantity, history
  <2>6. Near(Positive(Goods - n), x - n, taken, added)
    BY <1>1, <1>2, <1>3, <2>2, NearSubtracted
  <2>7. shopkeep' - Owed' = x - n /\ shopkeep' <= shopkeep
    BY <1>1, <1>3, <2>2, <2>3, <2>5
  <2>8. PICK p : p = Rows(runner[r].todo, runner[r].orders, runner[r].ids)
    OBVIOUS
  <2>9. runner' = [runner EXCEPT ![r] = p] /\ p.at # "import"
    <3>1. p.at = "rows"
      BY <2>8 DEF Rows
    <3> QED BY <1>5, <2>8, <3>1 DEF UpdateQuantity
  <2>10. Near(Goods', shopkeep' - Owed', taken', added')
    BY <2>4, <2>5, <2>6, <2>7
  <2> QED BY <1>4, <2>7, <2>9, <2>10
<1>6. ASSUME NEW k \in runner[r].todo, NEW okay \in BOOLEAN, runner[r].at = "adjust",
             Marks(r, k, okay)
      PROVE  /\ k \in Line /\ Owed' = Owed - Ordered[k]
             /\ \E p : runner' = [runner EXCEPT ![r] = p] /\ p.at # "import"
  <2>1. k \in Line /\ Moved(r, k, "subtracted", "told")
    BY <1>6, AfterRows
  <2>2. Share(k, "subtracted") = Ordered[k] /\ Share(k, "told") = 0 /\ Ordered[k] \in Nat
    BY <2>1 DEF Share
  <2>3. Owed' = Owed + Share(k, "told") - Share(k, "subtracted")
    BY <2>1, OwedMoved
  <2>4. runner' = [runner EXCEPT ![r] = [at |-> "mark", order |-> k, okay |-> okay,
                                         todo |-> runner[r].todo \ {k}]]
    BY <1>6 DEF Marks
  <2>5. Owed' = Owed - Ordered[k]
    BY <1>1, <2>2, <2>3
  <2>6. PICK p : p = [at |-> "mark", order |-> k, okay |-> okay, todo |-> runner[r].todo \ {k}]
    OBVIOUS
  <2>7. runner' = [runner EXCEPT ![r] = p] /\ p.at # "import"
    BY <2>4, <2>6
  <2> QED BY <2>1, <2>5, <2>7
<1>7. ASSUME Adjust(r) PROVE Agreement'
  <2>1. PICK k \in runner[r].todo :
          shopkeep' = shopkeep - Adjustment(k) /\ Marks(r, k, TRUE) /\ runner[r].at = "adjust"
    BY <1>7 DEF Adjust
  <2>2. k \in Line /\ Owed' = Owed - Ordered[k]
    BY <1>6, <2>1
  <2>3. PICK p : runner' = [runner EXCEPT ![r] = p] /\ p.at # "import"
    BY <1>6, <2>1
  <2>4. PICK n \in Nat : n = Ordered[k]
    BY <2>2
  <2>5. Adjustment(k) = n
    <3>1. wh.stocks = {1}
      BY DEF Stocked, Stock
    <3>2. Cardinality({1}) = 1
      BY FS_Singleton
    <3> QED BY <2>4, <3>1, <3>2 DEF Adjustment
  <2>6. shopkeep' - Owed' = x /\ shopkeep' <= shopkeep
    BY <1>1, <1>3, <2>1, <2>2, <2>4, <2>5
  <2>7. wh' = wh /\ taken' = taken /\ added' = added
    BY <1>7 DEF Adjust, shop, history
  <2>8. Goods' = Goods
    BY <2>7 DEF Goods
  <2> QED BY <1>2, <1>3, <1>4, <2>3, <2>6, <2>7, <2>8
<1>8. ASSUME AdjustFails(r) PROVE Agreement'
  <2>1. PICK k \in runner[r].todo :
          Marks(r, k, FALSE) /\ taken' = taken + Ordered[k] /\ runner[r].at = "adjust"
    BY <1>8 DEF AdjustFails
  <2>2. k \in Line /\ Owed' = Owed - Ordered[k]
    BY <1>6, <2>1
  <2>3. PICK p : runner' = [runner EXCEPT ![r] = p] /\ p.at # "import"
    BY <1>6, <2>1
  <2>4. PICK n \in Nat : n = Ordered[k]
    BY <2>2
  <2>5. wh' = wh /\ shopkeep' = shopkeep /\ added' = added
    BY <1>8 DEF AdjustFails, shop
  <2>6. shopkeep' - Owed' = x + n
    BY <1>1, <1>3, <2>2, <2>4, <2>5
  <2>7. Near(Goods, x + n, taken + n, added)
    BY <1>1, <1>2, <1>3, <2>4, NearUntold
  <2>8. Goods' = Goods
    BY <2>5 DEF Goods
  <2>9. Near(Goods', shopkeep' - Owed', taken', added')
    BY <2>1, <2>4, <2>5, <2>6, <2>7, <2>8
  <2>10. shopkeep' <= shopkeep
    BY <1>1, <2>5
  <2> QED BY <1>4, <2>3, <2>9, <2>10
<1>9. ASSUME Crash(r) PROVE Agreement'
  <2>1. PICK n \in Nat : n = Untold(r)
    BY UntoldNat
  <2>2. Owed' = Owed - n
    BY <1>9, <2>1, OwedDied
  <2>3. wh' = wh /\ shopkeep' = shopkeep /\ added' = added /\ taken' = taken + n
    BY <1>9, <2>1 DEF Crash, shop
  <2>4. Near(Goods, x + n, taken + n, added)
    BY <1>1, <1>2, <1>3, <2>1, NearUntold
  <2>5. shopkeep' - Owed' = x + n /\ Goods' = Goods
    <3>1. shopkeep' - Owed' = x + n
      BY <1>1, <1>3, <2>1, <2>2, <2>3
    <3> QED BY <2>3, <3>1 DEF Goods
  <2>6. runner' = [runner EXCEPT ![r] = Idle] /\ Idle.at # "import"
    BY <1>9 DEF Crash, Idle
  <2>7. Near(Goods', shopkeep' - Owed', taken', added')
    BY <2>3, <2>4, <2>5
  <2>8. shopkeep' <= shopkeep
    BY <1>1, <2>3
  <2> QED BY <1>4, <2>6, <2>7, <2>8
<1>10. ASSUME Import(r) PROVE Agreement'
  <2>1. PICK file \in Int : file = runner[r].file /\ file >= shopkeep
    <3>1. runner[r].at = "import" /\ runner[r] \in Process
      BY <1>10 DEF Import, TypeOK
    <3> QED BY <3>1, ProcessFields DEF Agreement
  <2>2. Goods' = Positive(file)
    BY <1>10, <2>1, SyncQuantity
  <2>3. /\ shopkeep' = shopkeep /\ taken' = 0
        /\ added' = Positive(file) - Positive(x)
    BY <1>3, <1>10, <2>1 DEF Import
  <2>4. Owed' = Owed
    <3>1. Stays(r)
      BY <1>10, ImportStages
    <3> QED BY <3>1, OwedStays DEF Stays
  <2>5. file >= x
    BY <1>1, <1>3, <2>1
  <2>6. Near(Positive(file), x, 0, Positive(file) - Positive(x))
    BY <2>5, NearImported
  <2>7. runner' = [runner EXCEPT ![r] = Idle] /\ Idle.at # "import"
    BY <1>10 DEF Import, Idle
  <2>8. shopkeep' - Owed' = x /\ shopkeep' <= shopkeep
    BY <1>1, <1>3, <2>3, <2>4
  <2>9. Near(Goods', shopkeep' - Owed', taken', added')
    BY <2>2, <2>3, <2>6, <2>8
  <2> QED BY <1>4, <2>7, <2>8, <2>9
<1> QED BY <1>5, <1>7, <1>8, <1>9, <1>10

\* With any number of processes that overlap, die and fail: the counts part by no
\* more than what was changed on one side alone since the last import.
THEOREM CountsApartByWhatIsKnown == NumStocks = 1 => (Spec => []FollowsShopKeep)
<1> SUFFICES ASSUME NumStocks = 1 PROVE Spec => []FollowsShopKeep
  OBVIOUS
<1>1. Init => Agreement
  <2> SUFFICES ASSUME Init PROVE Agreement
    OBVIOUS
  <2>1. \A r \in Runners : runner[r] = Idle
    BY DEF Init
  <2>2. Owed = 0
    <3> DEFINE f == [r \in Runners |-> Untold(r)]
    <3>1. \A r \in Runners : Untold(r) = 0
      <4> SUFFICES ASSUME NEW r \in Runners PROVE Untold(r) = 0
        OBVIOUS
      <4>1. TypeOK
        BY InitTypeOK
      <4>2. \A l \in Line : Stage(runner[r], l) = "none"
        BY <2>1 DEF Stage, Idle, Looping, InRow
      <4> QED BY <4>1, <4>2, UntoldLoad, LoadNone
    <3>2. \A i \in 1 .. NumRunners : f[i] = 0
      BY <3>1 DEF Runners
    <3>3. Owed = SumTo(f, NumRunners)
      BY DEF Owed
    <3> HIDE DEF f
    <3> QED BY <3>2, <3>3, SumOfNothing
  <2>3. shopkeep = Goods /\ taken = 0 /\ added = 0
    BY DEF Init, Goods, Tables
  <2>4. Goods \in Nat
    BY InitTypeOK, GoodsNat
  <2>5. Near(Goods, shopkeep - Owed, taken, added)
    BY <2>2, <2>3, <2>4 DEF Near, Positive
  <2> QED BY <2>1, <2>5 DEF Agreement, Idle
<1>2. TypeOK /\ TypeOK' /\ Selected /\ Separate /\ Stocked /\ Agreement /\ [Next]_vars => Agreement'
  <2> SUFFICES ASSUME TypeOK, TypeOK', Selected, Separate, Stocked, Agreement, [Next]_vars
               PROVE  Agreement'
    OBVIOUS
  <2>1. CASE UNCHANGED vars
    <3>1. Owed' = Owed
      BY <2>1, OwedOutside DEF vars
    <3> QED BY <2>1, <3>1 DEF vars, Agreement, Goods, shop, history
  <2>2. CASE Outside
    BY <2>2, OutsideAgrees
  <2>3. ASSUME NEW r \in Runners, StartSync(r) \/ StartImport(r) \/ Proceed(r) \/ Crash(r)
        PROVE  Agreement'
    <3>1. CASE UpdateQuantity(r) \/ Adjust(r) \/ AdjustFails(r) \/ Import(r) \/ Crash(r)
      BY <3>1, TellingAgrees
    <3>2. CASE \/ StartSync(r) \/ NextRow(r) \/ CreateFulfillment(r) \/ InsertLine(r)
               \/ SetFulfilled(r) \/ DeleteAllocation(r) \/ SetStatus(r) \/ MarkAdjusted(r)
               \/ StartImport(r)
      BY <3>2, SilentAgrees
    <3> QED BY <2>3, <3>1, <3>2 DEF Proceed
  <2> QED BY <2>1, <2>2, <2>3 DEF Next, Outside
<1>3. Spec => [](Selected /\ Separate /\ Stocked)
  BY StagesHold
<1>4. Spec => []Agreement
  BY <1>1, <1>2, <1>3, TypesHold, PTL DEF Spec
<1>5. Agreement => FollowsShopKeep
  BY DEF Agreement, Near, Goods, FollowsShopKeep
<1> QED BY <1>4, <1>5, PTL

=============================================================================
