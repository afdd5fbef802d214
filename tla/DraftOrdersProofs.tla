--------------------------- MODULE DraftOrdersProofs ---------------------------
(***************************************************************************)
(* Theorems of DraftOrders, for any number of sessions, stocks, lines,     *)
(* variants and mutations.                                                 *)
(***************************************************************************)
EXTENDS DraftOrders, WarehouseProofs

USE SizesAssumption, DraftAssumption DEF SizesAssumption, DraftAssumption

Zero == [s \in Stock |-> 0]

\* The order's rows and the stocks: their types, and that what is gone has
\* nothing.
RowsOK ==
  /\ status \in OrderStatus
  /\ lines \subseteq OwnLines
  /\ gone \subseteq OwnLines \ lines
  /\ quantity \in [OwnLines -> Nat]
  /\ \A l \in OwnLines : l \in lines <=> quantity[l] > 0
  /\ total \in Nat
  /\ payments \in Nat
  /\ wh \in [Variants -> WarehouseState]
  /\ \A l \in OwnLines \ lines, v \in Variants : wh[v].allocated[l] = Zero
  /\ ~ Exists => lines = {}

\* The sessions' memory, and what has happened.
RunsOK ==
  /\ session \in [Sessions -> Session]
  /\ asked \in 0 .. MaxMutations
  /\ past \in [overlapped : BOOLEAN, bulk : BOOLEAN, placed : 0 .. 2]

IInv == RowsOK /\ RunsOK

-----------------------------------------------------------------------------
LEMMA Numbers ==
  /\ OtherLine \in Line
  /\ OwnLines = 1 .. NumLines - 1
  /\ NumLines - 1 \in Nat
  /\ \A l \in Line : VariantOf[l] \in Variants
BY DEF OtherLine, OwnLines, Line

\* What a session remembers, by the step it is at.
LEMMA SessionFields ==
  ASSUME NEW m \in Session
  PROVE  /\ m.step # "idle" => m # Idle
         /\ m.step = "validated" => m.total \in Nat
         /\ m.step = "placing" => m.want \in [OwnLines -> Nat] /\ m.todo \in SUBSET OwnLines
         /\ m.step \in {"adding", "creating"} => m.variant \in Variants
         /\ m.step = "saving" => m.line \in OwnLines /\ m.quantity \in Nat \ {0}
         /\ m.step = "removing" => m.lines \in SUBSET OwnLines /\ m.bulk \in BOOLEAN
         /\ m.step = "totaling" => m.total \in Nat
BY DEF Session, Idle

LEMMA SumOfLinesNat ==
  ASSUME NEW q \in [OwnLines -> Nat]
  PROVE  SumOfLines(q) \in Nat
<1>1. \A l \in 1 .. NumLines - 1 : q[l] \in Nat
  BY Numbers
<1> QED BY <1>1, Numbers, SumToNat DEF SumOfLines

-----------------------------------------------------------------------------
(* The sessions.                                                           *)

\* Session c goes on, or begins a mutation that is within the bound.
Takes(c) ==
  \E m \in Session, bulk \in BOOLEAN, placed \in 0 .. 2 :
    /\ Step(c, m, bulk, placed)
    /\ session[c] = Idle => asked < MaxMutations

LEMMA TakesKeepsRuns ==
  ASSUME RunsOK, NEW c \in Sessions, Takes(c)
  PROVE  RunsOK'
<1>1. PICK m \in Session, bulk \in BOOLEAN, placed \in 0 .. 2 :
        /\ Step(c, m, bulk, placed)
        /\ session[c] = Idle => asked < MaxMutations
  BY DEF Takes
<1>2. session' \in [Sessions -> Session]
  BY <1>1 DEF Step, RunsOK
<1>3. asked' \in 0 .. MaxMutations
  BY <1>1 DEF Step, RunsOK
<1>4. Overlaps(c) \in BOOLEAN
  BY DEF Overlaps, RunsOK
<1>5. past' \in [overlapped : BOOLEAN, bulk : BOOLEAN, placed : 0 .. 2]
  BY <1>1, <1>4 DEF Step
<1> QED BY <1>2, <1>3, <1>5 DEF RunsOK

\* The common forms of a step.
LEMMA Forms ==
  ASSUME RunsOK, NEW c \in Sessions
  PROVE  /\ \A m \in Session : Begin(c, m) => Takes(c)
         /\ \A m \in Session : Remember(c, m) /\ session[c] # Idle => Takes(c)
         /\ Finish(c) /\ (session[c] = Idle => asked < MaxMutations) => Takes(c)
         /\ \A bulk \in BOOLEAN : Step(c, Idle, bulk, past.placed) /\ session[c] # Idle => Takes(c)
<1>1. past.bulk \in BOOLEAN /\ past.placed \in 0 .. 2
  BY DEF RunsOK
<1>2. Idle \in Session
  BY DEF Idle, Session
<1> QED BY <1>1, <1>2 DEF Begin, Remember, Finish, Takes, MayAsk

LEMMA CompleteTakes ==
  ASSUME IInv, NEW c \in Sessions, DraftOrderComplete(c)
  PROVE  Takes(c)
<1>1. /\ session[c] \in Session
      /\ session[c].step # "idle" => session[c] # Idle
      /\ session[c].step = "placing" =>
           session[c].want \in [OwnLines -> Nat] /\ session[c].todo \in SUBSET OwnLines
  BY SessionFields DEF IInv, RunsOK
<1>2. CASE CompleteValidate(c)
  <2>1. [step |-> "validated", total |-> total] \in Session
    BY DEF Session, IInv, RowsOK
  <2> QED BY <1>2, <2>1, Forms DEF CompleteValidate, IInv
<1>3. CASE CompleteSave(c)
  <2> DEFINE m == [step |-> "placing", want |-> quantity,
                   todo |-> {l \in lines : VariantOf[l] \in TrackedVariants}]
  <2>1. m \in Session
    BY DEF Session, IInv, RowsOK
  <2>2. past.bulk \in BOOLEAN /\ Least(2, past.placed + 1) \in 0 .. 2
    BY DEF IInv, RunsOK, Least
  <2>3. Step(c, m, past.bulk, Least(2, past.placed + 1)) /\ session[c] # Idle
    BY <1>1, <1>3 DEF CompleteSave
  <2> HIDE DEF m
  <2> QED BY <2>1, <2>2, <2>3 DEF Takes
<1>4. CASE CompleteReserve(c)
  <2> DEFINE m == [step |-> "placing", want |-> session[c].want,
                   todo |-> session[c].todo \ {Min(session[c].todo)}]
  <2>1. session[c].step = "placing" /\ Remember(c, m)
    BY <1>4 DEF CompleteReserve
  <2>2. m \in Session
    BY <1>1, <2>1 DEF Session
  <2> HIDE DEF m
  <2> QED BY <1>1, <2>1, <2>2, Forms DEF IInv
<1>5. CASE CompleteFail(c) \/ CompleteEnd(c)
  BY <1>1, <1>5, Forms DEF CompleteFail, CompleteEnd, Quit, IInv
<1> QED BY <1>2, <1>3, <1>4, <1>5 DEF DraftOrderComplete

LEMMA EditTakes ==
  ASSUME IInv, NEW c \in Sessions, EditLines(c)
  PROVE  Takes(c)
<1>1. /\ session[c] \in Session
      /\ session[c].step # "idle" => session[c] # Idle
      /\ session[c].step = "adding" => session[c].variant \in Variants
      /\ session[c].step = "removing" => session[c].bulk \in BOOLEAN
  BY SessionFields DEF IInv, RunsOK
<1>2. CASE \E v \in Variants : LinesCreate(c, v)
  <2>1. PICK v \in Variants : Begin(c, [step |-> "adding", variant |-> v])
    BY <1>2 DEF LinesCreate
  <2>2. [step |-> "adding", variant |-> v] \in Session
    BY DEF Session
  <2> QED BY <2>1, <2>2, Forms DEF IInv
<1>3. CASE AddRead(c)
  <2> DEFINE v == session[c].variant
  <2>1. session[c] # Idle /\ v \in Variants
    BY <1>1, <1>3 DEF AddRead
  <2>2. [step |-> "creating", variant |-> v] \in Session
    BY <2>1 DEF Session
  <2>3. \A l \in OwnLines : [step |-> "saving", line |-> l, quantity |-> quantity[l] + 1] \in Session
    BY DEF Session, IInv, RowsOK
  <2> QED BY <1>3, <2>1, <2>2, <2>3, Forms DEF AddRead, IInv
<1>4. CASE AddLine(c) \/ SaveQuantity(c)
  <2>1. [step |-> "recalculating"] \in Session
    BY DEF Session
  <2> QED BY <1>1, <1>4, <2>1, Forms DEF AddLine, SaveQuantity, IInv
<1>5. CASE AddLineToNothing(c) \/ SaveNoRow(c)
  BY <1>1, <1>5, Forms DEF AddLineToNothing, SaveNoRow, Quit, IInv
<1>6. CASE \E l \in OwnLines, n \in Quantities : LineUpdate(c, l, n)
  <2>1. PICK l \in OwnLines, n \in Quantities :
          Begin(c, [step |-> "saving", line |-> l, quantity |-> n])
    BY <1>6 DEF LineUpdate
  <2>2. [step |-> "saving", line |-> l, quantity |-> n] \in Session
    BY DEF Session
  <2> QED BY <2>1, <2>2, Forms DEF IInv
<1>7. CASE \/ \E l \in OwnLines : LineDelete(c, l)
           \/ \E ls \in SUBSET OwnLines : LinesBulkDelete(c, ls)
  <2>1. PICK ls \in SUBSET OwnLines, bulk \in BOOLEAN :
          Begin(c, [step |-> "removing", lines |-> ls, bulk |-> bulk])
    BY <1>7 DEF LineDelete, LinesBulkDelete
  <2>2. [step |-> "removing", lines |-> ls, bulk |-> bulk] \in Session
    BY DEF Session
  <2> QED BY <2>1, <2>2, Forms DEF IInv
<1>8. CASE RemoveLines(c)
  <2> DEFINE m == IF session[c].bulk THEN Idle ELSE [step |-> "recalculating"]
             b == past.bulk \/ session[c].bulk
  <2>1. session[c] # Idle /\ Step(c, m, b, past.placed)
    BY <1>1, <1>8 DEF RemoveLines
  <2>2. m \in Session /\ b \in BOOLEAN /\ past.placed \in 0 .. 2
    BY <1>1, <1>8 DEF RemoveLines, Session, Idle, IInv, RunsOK
  <2> HIDE DEF m, b
  <2> QED BY <2>1, <2>2 DEF Takes
<1>9. CASE RecalculateRead(c)
  <2>1. [step |-> "totaling", total |-> Recalculated] \in Session
    BY SumOfLinesNat DEF Session, IInv, RowsOK, Recalculated
  <2> QED BY <1>1, <1>9, <2>1, Forms DEF RecalculateRead, IInv
<1>10. CASE RecalculateSave(c)
  BY <1>1, <1>10, Forms DEF RecalculateSave, IInv
<1> QED BY <1>2, <1>3, <1>4, <1>5, <1>6, <1>7, <1>8, <1>9, <1>10 DEF EditLines

OtherMutation(c) ==
  \/ UpdateCheck(c) \/ UpdateSave(c)
  \/ DraftOrderDelete(c) \/ BulkDeleteCheck(c) \/ BulkDelete(c)
  \/ CancelCheck(c) \/ Cancel(c)
  \/ PayCheck(c) \/ Pay(c)

LEMMA OtherTakes ==
  ASSUME IInv, NEW c \in Sessions, OtherMutation(c)
  PROVE  Takes(c)
<1>1. /\ session[c] \in Session
      /\ session[c].step # "idle" => session[c] # Idle
  BY SessionFields DEF IInv, RunsOK
<1>2. CASE UpdateCheck(c) \/ BulkDeleteCheck(c) \/ CancelCheck(c) \/ PayCheck(c)
  <2>1. \A at \in {"reverting", "deleting", "canceling", "paying"} : [step |-> at] \in Session
    BY DEF Session
  <2> QED BY <1>2, <2>1, Forms DEF UpdateCheck, BulkDeleteCheck, CancelCheck, PayCheck, IInv
<1>3. CASE UpdateSave(c)
  BY <1>1, <1>3, Forms DEF UpdateSave, IInv
<1>4. CASE DraftOrderDelete(c)
  BY <1>4, Forms DEF DraftOrderDelete, MayAsk, IInv
<1>5. CASE BulkDelete(c) \/ Cancel(c) \/ Pay(c)
  BY <1>1, <1>5, Forms DEF BulkDelete, Cancel, Pay, IInv
<1> QED BY <1>2, <1>3, <1>4, <1>5 DEF OtherMutation

LEMMA NextKeepsRuns ==
  ASSUME IInv, [Next]_vars
  PROVE  RunsOK'
<1>1. CASE UNCHANGED vars
  BY <1>1 DEF vars, IInv, RunsOK
<1>2. ASSUME NEW c \in Sessions, DraftOrderComplete(c) \/ EditLines(c) \/ OtherMutation(c)
      PROVE  RunsOK'
  BY <1>2, CompleteTakes, EditTakes, OtherTakes, TakesKeepsRuns DEF IInv
<1>3. CASE \E v \in Variants : Sell(v)
  BY <1>3 DEF Sell, IInv, RunsOK
<1> QED BY <1>1, <1>2, <1>3 DEF Next, OtherMutation

-----------------------------------------------------------------------------
(* The rows.                                                               *)

LEMMA TotalsAreNat ==
  ASSUME RowsOK, NEW v \in Variants
  PROVE  Totals(v) \in [Stock -> Nat]
BY TotalsNat DEF Totals, RowsOK

\* A reservation leaves the other lines alone.
LEMMA ReserveEffect ==
  ASSUME NEW x \in WarehouseState, NEW l \in Line, NEW n \in Nat, NEW counted \in [Stock -> Nat]
  PROVE  /\ Allocated(x, l, n, counted) \in WarehouseState
         /\ \A k \in Line : k # l => Allocated(x, l, n, counted).allocated[k] = x.allocated[k]
<1>1. Allocated(x, l, n, counted) \in WarehouseState
  BY AllocatedEffect
<1>2. \A k \in Line : k # l => Allocated(x, l, n, counted).allocated[k] = x.allocated[k]
  BY DEF Allocated, Tables, WarehouseState
<1> QED BY <1>1, <1>2

\* The stocks after a step that reserves nothing for the order's lines.
Tame ==
  /\ wh' \in [Variants -> WarehouseState]
  /\ \A l \in OwnLines, v \in Variants : wh'[v].allocated[l] \in {wh[v].allocated[l], Zero}

LEMMA DeleteLinesEffect ==
  ASSUME RowsOK, NEW ls \in SUBSET OwnLines, DeleteLines(ls)
  PROVE  /\ Tame
         /\ \A l \in ls, v \in Variants : wh'[v].allocated[l] = Zero
         /\ quantity' \in [OwnLines -> Nat]
         /\ \A l \in OwnLines : l \in lines' <=> quantity'[l] > 0
         /\ lines' \subseteq lines
         /\ gone' \subseteq OwnLines \ lines'
<1>1. ASSUME NEW v \in Variants
      PROVE  /\ wh'[v] \in WarehouseState
             /\ \A l \in Line : wh'[v].allocated[l] = IF l \in ls THEN Zero ELSE wh[v].allocated[l]
  <2>1. wh[v] \in WarehouseState
    BY DEF RowsOK
  <2>2. wh'[v] = Tables(wh[v].stocks, wh[v].quantity, {r \in wh[v].rows : r[1] \notin ls},
                        [l \in Line |-> IF l \in ls THEN Zero ELSE wh[v].allocated[l]])
    BY DEF DeleteLines, WithoutAllocations, Zero
  <2>3. [l \in Line |-> IF l \in ls THEN Zero ELSE wh[v].allocated[l]] \in [Line -> [Stock -> Nat]]
    BY <2>1 DEF WarehouseState, Zero
  <2>4. {r \in wh[v].rows : r[1] \notin ls} \in SUBSET (Line \X Stock)
    BY <2>1 DEF WarehouseState
  <2> QED BY <2>1, <2>2, <2>3, <2>4 DEF Tables, WarehouseState
<1>2. wh' \in [Variants -> WarehouseState]
  BY <1>1 DEF DeleteLines, WithoutAllocations
<1>3. /\ Tame
      /\ \A l \in ls, v \in Variants : wh'[v].allocated[l] = Zero
  BY <1>1, <1>2, Numbers DEF Tame, OwnLines
<1>4. /\ quantity' \in [OwnLines -> Nat]
      /\ \A l \in OwnLines : l \in lines' <=> quantity'[l] > 0
      /\ lines' \subseteq lines
      /\ gone' \subseteq OwnLines \ lines'
  BY DEF DeleteLines, RowsOK
<1> QED BY <1>3, <1>4

LEMMA CompleteKeepsRows ==
  ASSUME IInv, NEW c \in Sessions, DraftOrderComplete(c)
  PROVE  RowsOK'
<1>1. session[c] \in Session
  BY DEF IInv, RunsOK
<1>2. CASE CompleteValidate(c) \/ CompleteFail(c) \/ CompleteEnd(c)
  <2>1. UNCHANGED <<status, lines, gone, quantity, total, payments, wh>>
    BY <1>2 DEF CompleteValidate, CompleteFail, CompleteEnd, Begin, Quit
  <2> QED BY <2>1 DEF IInv, RowsOK, Exists
<1>3. CASE CompleteSave(c)
  <2>1. /\ status' = "unfulfilled"
        /\ total' \in Nat
        /\ UNCHANGED <<lines, gone, quantity, payments, wh>>
    BY <1>1, <1>3, SessionFields DEF CompleteSave, Items
  <2> QED BY <2>1 DEF IInv, RowsOK, Exists, OrderStatus
<1>4. CASE CompleteReserve(c)
  <2> DEFINE l == Min(session[c].todo)
             n == session[c].want[l]
             v == VariantOf[l]
  <2>1. /\ l \in lines
        /\ wh' = [wh EXCEPT ![v] = Allocated(wh[v], l, n, Totals(v))]
        /\ UNCHANGED <<status, lines, gone, quantity, total, payments>>
    BY <1>4 DEF CompleteReserve, CanReserve, Items
  <2>2. l \in OwnLines /\ l \in Line /\ v \in Variants
    BY <2>1, Numbers DEF IInv, RowsOK, OwnLines
  <2>3. n \in Nat
    BY <1>1, <1>4, <2>2, SessionFields DEF CompleteReserve
  <2>4. /\ wh[v] \in WarehouseState
        /\ Totals(v) \in [Stock -> Nat]
    BY <2>2, TotalsAreNat DEF IInv, RowsOK
  <2> HIDE DEF l, n, v
  <2>5. /\ Allocated(wh[v], l, n, Totals(v)) \in WarehouseState
        /\ \A k \in Line : k # l =>
             Allocated(wh[v], l, n, Totals(v)).allocated[k] = wh[v].allocated[k]
    BY <2>2, <2>3, <2>4, ReserveEffect
  <2>6. wh' \in [Variants -> WarehouseState]
    BY <2>1, <2>2, <2>5 DEF IInv, RowsOK
  <2>7. \A k \in OwnLines \ lines', u \in Variants : wh'[u].allocated[k] = Zero
    BY <2>1, <2>2, <2>5 DEF IInv, RowsOK, OwnLines
  <2> QED BY <2>1, <2>6, <2>7 DEF IInv, RowsOK, Exists
<1> QED BY <1>2, <1>3, <1>4 DEF DraftOrderComplete

LEMMA EditKeepsRows ==
  ASSUME IInv, NEW c \in Sessions, EditLines(c)
  PROVE  RowsOK'
<1>1. /\ session[c] \in Session
      /\ session[c].step = "saving" => session[c].line \in OwnLines /\ session[c].quantity \in Nat \ {0}
      /\ session[c].step = "removing" => session[c].lines \in SUBSET OwnLines
      /\ session[c].step = "totaling" => session[c].total \in Nat
  BY SessionFields DEF IInv, RunsOK
<1>2. CASE \/ \E v \in Variants : LinesCreate(c, v)
           \/ AddRead(c)
           \/ AddLineToNothing(c)
           \/ \E l \in OwnLines, n \in Quantities : LineUpdate(c, l, n)
           \/ SaveNoRow(c)
           \/ \E l \in OwnLines : LineDelete(c, l)
           \/ \E ls \in SUBSET OwnLines : LinesBulkDelete(c, ls)
           \/ RecalculateRead(c)
  <2>1. UNCHANGED <<status, lines, gone, quantity, total, payments, wh>>
    BY <1>2 DEF LinesCreate, AddRead, AddLineToNothing, LineUpdate, SaveNoRow, LineDelete,
                LinesBulkDelete, RecalculateRead, Begin, Quit, Items
  <2> QED BY <2>1 DEF IInv, RowsOK, Exists
<1>3. CASE AddLine(c)
  <2>1. PICK l \in OwnLines \ (lines \union gone) :
          /\ Exists
          /\ lines' = lines \union {l}
          /\ quantity' = [quantity EXCEPT ![l] = 1]
          /\ UNCHANGED <<status, gone, total, payments, wh>>
    BY <1>3 DEF AddLine
  <2> QED BY <2>1 DEF IInv, RowsOK, Exists
<1>4. CASE SaveQuantity(c)
  <2>1. /\ session[c].line \in lines
        /\ quantity' = [quantity EXCEPT ![session[c].line] = session[c].quantity]
        /\ session[c].quantity \in Nat \ {0}
        /\ UNCHANGED <<status, lines, gone, total, payments, wh>>
    BY <1>1, <1>4 DEF SaveQuantity
  <2> QED BY <2>1 DEF IInv, RowsOK, Exists
<1>5. CASE RemoveLines(c)
  <2> DEFINE ls == session[c].lines
  <2>1. ls \in SUBSET OwnLines /\ DeleteLines(ls) /\ UNCHANGED <<status, total, payments>>
    BY <1>1, <1>5 DEF RemoveLines
  <2>2. lines' = lines \ ls
    BY <2>1 DEF DeleteLines
  <2> HIDE DEF ls
  <2> QED BY <2>1, <2>2, DeleteLinesEffect DEF IInv, RowsOK, Exists, Tame
<1>6. CASE RecalculateSave(c)
  <2>1. total' \in Nat /\ UNCHANGED <<status, lines, gone, quantity, payments, wh>>
    BY <1>1, <1>6 DEF RecalculateSave, Items, IInv, RowsOK
  <2> QED BY <2>1 DEF IInv, RowsOK, Exists
<1> QED BY <1>2, <1>3, <1>4, <1>5, <1>6 DEF EditLines

LEMMA OtherKeepsRows ==
  ASSUME IInv, NEW c \in Sessions, OtherMutation(c)
  PROVE  RowsOK'
<1>1. CASE UpdateCheck(c) \/ BulkDeleteCheck(c) \/ CancelCheck(c) \/ PayCheck(c)
  <2>1. UNCHANGED <<status, lines, gone, quantity, total, payments, wh>>
    BY <1>1 DEF UpdateCheck, BulkDeleteCheck, CancelCheck, PayCheck, Begin
  <2> QED BY <2>1 DEF IInv, RowsOK, Exists
<1>2. CASE UpdateSave(c)
  <2>1. status' = "draft" /\ total' \in Nat /\ UNCHANGED <<lines, gone, quantity, payments, wh>>
    BY <1>2, SumOfLinesNat DEF UpdateSave, Items, IInv, RowsOK
  <2> QED BY <2>1 DEF IInv, RowsOK, Exists, OrderStatus
<1>3. CASE /\ DraftOrderDelete(c) \/ BulkDelete(c)
           /\ DeleteOrder
  <2>1. status' = "deleted" /\ DeleteLines(lines) /\ UNCHANGED <<total, payments>>
    BY <1>3 DEF DraftOrderDelete, BulkDelete, DeleteOrder
  <2>2. lines' = {} /\ lines \in SUBSET OwnLines
    BY <2>1 DEF DeleteLines, IInv, RowsOK
  <2> QED BY <2>1, <2>2, DeleteLinesEffect DEF IInv, RowsOK, Exists, OrderStatus, Tame
<1>4. CASE BulkDelete(c) /\ ~ DeleteOrder
  <2>1. UNCHANGED <<status, lines, gone, quantity, total, payments, wh>>
    BY <1>4 DEF BulkDelete, Items
  <2> QED BY <2>1 DEF IInv, RowsOK, Exists
<1>5. CASE Cancel(c)
  <2>1. UNCHANGED <<lines, gone, quantity, total, payments>>
    BY <1>5 DEF Cancel, Items
  <2>2. CASE ~ Exists
    <3>1. UNCHANGED <<status, wh>>
      BY <1>5, <2>2 DEF Cancel
    <3> QED BY <2>1, <3>1 DEF IInv, RowsOK, Exists
  <2>3. CASE Exists
    <3>1. status' = "canceled" /\ wh' = [v \in Variants |-> OrderDeallocated(wh[v], lines)]
      BY <1>5, <2>3 DEF Cancel
    <3>2. lines \in SUBSET Line
      BY Numbers DEF IInv, RowsOK, OwnLines
    <3>3. ASSUME NEW v \in Variants
          PROVE  /\ wh'[v] \in WarehouseState
                 /\ \A l \in Line : l \notin lines => wh'[v].allocated[l] = wh[v].allocated[l]
      <4>1. wh[v] \in WarehouseState /\ wh'[v] = OrderDeallocated(wh[v], lines)
        BY <3>1 DEF IInv, RowsOK
      <4>2. wh'[v] \in WarehouseState
        BY <3>2, <4>1, OrderDeallocatedEffect
      <4> QED BY <4>1, <4>2 DEF OrderDeallocated, Tables
    <3>4. wh' \in [Variants -> WarehouseState]
      BY <3>1, <3>3
    <3>5. \A l \in OwnLines \ lines', v \in Variants : wh'[v].allocated[l] = Zero
      BY <2>1, <3>3 DEF IInv, RowsOK, OwnLines
    <3>6. status' \in OrderStatus /\ status' # "deleted"
      BY <3>1 DEF OrderStatus
    <3> QED BY <2>1, <3>4, <3>5, <3>6 DEF IInv, RowsOK, Exists
  <2> QED BY <2>2, <2>3
<1>6. CASE Pay(c)
  <2>1. payments' \in Nat /\ UNCHANGED <<status, lines, gone, quantity, total, wh>>
    BY <1>6 DEF Pay, Items, IInv, RowsOK
  <2> QED BY <2>1 DEF IInv, RowsOK, Exists
<1>7. CASE DraftOrderDelete(c)
  BY <1>3, <1>7 DEF DraftOrderDelete
<1> QED BY <1>1, <1>2, <1>3, <1>4, <1>5, <1>6, <1>7 DEF OtherMutation

LEMMA SellKeepsRows ==
  ASSUME IInv, NEW v \in Variants, Sell(v)
  PROVE  RowsOK'
<1>1. /\ wh' = [wh EXCEPT ![v] = Allocated(wh[v], OtherLine, 1, Totals(v))]
      /\ UNCHANGED <<status, lines, gone, quantity, total, payments>>
  BY DEF Sell, Items
<1>2. wh[v] \in WarehouseState /\ Totals(v) \in [Stock -> Nat] /\ OtherLine \in Line /\ 1 \in Nat
  BY TotalsAreNat, Numbers DEF IInv, RowsOK
<1>3. /\ Allocated(wh[v], OtherLine, 1, Totals(v)) \in WarehouseState
      /\ \A k \in Line : k # OtherLine =>
           Allocated(wh[v], OtherLine, 1, Totals(v)).allocated[k] = wh[v].allocated[k]
  BY <1>2, ReserveEffect
<1>4. wh' \in [Variants -> WarehouseState]
  BY <1>1, <1>3 DEF IInv, RowsOK
<1>5. \A k \in OwnLines \ lines', u \in Variants : wh'[u].allocated[k] = Zero
  BY <1>1, <1>3 DEF IInv, RowsOK, OwnLines
<1> QED BY <1>1, <1>4, <1>5 DEF IInv, RowsOK, Exists

LEMMA NextKeepsRows ==
  ASSUME IInv, [Next]_vars
  PROVE  RowsOK'
<1>1. CASE UNCHANGED vars
  BY <1>1 DEF vars, IInv, RowsOK, Exists
<1>2. ASSUME NEW c \in Sessions, DraftOrderComplete(c) \/ EditLines(c) \/ OtherMutation(c)
      PROVE  RowsOK'
  BY <1>2, CompleteKeepsRows, EditKeepsRows, OtherKeepsRows
<1>3. CASE \E v \in Variants : Sell(v)
  BY <1>3, SellKeepsRows
<1> QED BY <1>1, <1>2, <1>3 DEF Next, OtherMutation

LEMMA InitIInv == Init => IInv
<1> SUFFICES ASSUME Init PROVE IInv
  OBVIOUS
<1>1. quantity \in [OwnLines -> Nat] /\ \A l \in OwnLines : l \in lines <=> quantity[l] > 0
  BY DEF Init
<1>2. total \in Nat
  BY <1>1, SumOfLinesNat DEF Init
<1>3. ASSUME NEW v \in Variants
      PROVE  Unreserved(v) \in WarehouseState /\ \A l \in Line : Unreserved(v).allocated[l] = Zero
  BY DEF Unreserved, Tables, WarehouseState, Zero
<1>4. RowsOK
  BY <1>1, <1>2, <1>3 DEF Init, RowsOK, OrderStatus, Exists, OwnLines
<1>5. RunsOK
  BY DEF Init, RunsOK, Idle, Session
<1> QED BY <1>4, <1>5 DEF IInv

LEMMA Invariance == Spec => []IInv
<1>1. IInv /\ [Next]_vars => IInv'
  BY NextKeepsRows, NextKeepsRuns DEF IInv
<1> QED BY <1>1, InitIInv, PTL DEF Spec

\* Nothing is reserved for lines that are gone, nothing is left of a deleted
\* order, and the columns' values are in their range, whatever overlaps.
THEOREM NothingStays == Spec => []NothingForTheGone
<1>1. ASSUME IInv PROVE NothingForTheGone
  <2>1. TypeOK
    BY <1>1 DEF IInv, RowsOK, RunsOK, TypeOK
  <2>2. ASSUME NEW l \in OwnLines \ lines, NEW v \in Variants PROVE LineTotal(wh[v], l) = 0
    BY <1>1, SumOfZeros DEF IInv, RowsOK, LineTotal, Zero
  <2> QED BY <1>1, <2>1, <2>2 DEF NothingForTheGone, IInv, RowsOK
<1> QED BY <1>1, Invariance, PTL

-----------------------------------------------------------------------------
(* What validation finds available.                                        *)

\* Stocks with the same quantity count once, so the sum validation compares
\* with is not above that of the stocks; and what is left of the stocks
\* together is not above what is left of those that have something left.
LEMMA AvailableIsEnough ==
  ASSUME NEW x \in WarehouseState, NEW n \in Nat \ {0}, n <= AvailableQuantity(x)
  PROVE  Enough(Available(x, [s \in Stock |-> Total(x, s)]), n)
<1> DEFINE counted == [s \in Stock |-> Total(x, s)]
           distinct == [s \in Stock |-> IF s \in x.stocks /\ \A t \in x.stocks :
                              x.quantity[t] = x.quantity[s] => s <= t
                           THEN x.quantity[s] ELSE 0]
           held == [s \in Stock |-> IF s \in x.stocks THEN Total(x, s) ELSE 0]
           left == PositivePart(Available(x, counted))
           both == [s \in Stock |-> left[s] + held[s]]
<1>1. \A s \in Stock : x.quantity[s] \in Nat /\ Total(x, s) \in Nat
  BY TotalsNat DEF WarehouseState
<1>2. \A s \in 1 .. NumStocks :
        /\ distinct[s] \in Int
        /\ held[s] \in Int
        /\ left[s] \in Int
        /\ both[s] \in Int
        /\ both[s] = left[s] + held[s]
        /\ distinct[s] <= both[s]
  BY <1>1 DEF Stock, PositivePart, Available, Positive
<1>3. AvailableQuantity(x) = Positive(SumTo(distinct, NumStocks) - SumTo(held, NumStocks))
  BY DEF AvailableQuantity, DistinctQuantity
<1>4. Enough(Available(x, counted), n) <=> SumTo(left, NumStocks) >= n
  BY DEF Enough
<1> HIDE DEF distinct, held, left, both, counted
<1>5. /\ SumTo(distinct, NumStocks) \in Int
      /\ SumTo(held, NumStocks) \in Int
      /\ SumTo(left, NumStocks) \in Int
  BY <1>2, SumToInt
<1>6. SumTo(distinct, NumStocks) <= SumTo(both, NumStocks)
  BY <1>2, SumToMonotone
<1>7. SumTo(both, NumStocks) = SumTo(left, NumStocks) + SumTo(held, NumStocks)
  BY <1>2, SumToAdd
<1>8. SumTo(left, NumStocks) >= n
  BY <1>3, <1>5, <1>6, <1>7 DEF Positive
<1> QED BY <1>4, <1>8 DEF counted

\* Whatever is reserved and sold, validation finds nothing available that
\* allocate_stock could not reserve at that moment.
THEOREM ValidationIsNoPromiseTooMany == Spec => []ValidatedCanBeReserved
<1>1. ASSUME IInv PROVE ValidatedCanBeReserved
  <2> SUFFICES ASSUME NEW v \in Variants, NEW n \in Quantities, n <= AvailableQuantity(wh[v])
               PROVE  Enough(Available(wh[v], Totals(v)), n)
    BY DEF ValidatedCanBeReserved
  <2>1. wh[v] \in WarehouseState /\ n \in Nat \ {0}
    BY <1>1 DEF IInv, RowsOK
  <2> QED BY <2>1, AvailableIsEnough DEF Totals
<1> QED BY <1>1, Invariance, PTL

-----------------------------------------------------------------------------
(* Which steps reserve anything for a line.                                *)

\* What a line holds stays, or all of it goes.
Keeps(l, v) == wh'[v].allocated[l] \in {wh[v].allocated[l], Zero}

LEMMA SellLeaves ==
  ASSUME RowsOK, NEW u \in Variants, Sell(u), NEW l \in OwnLines, NEW v \in Variants
  PROVE  wh'[v].allocated[l] = wh[v].allocated[l]
<1>1. wh' = [wh EXCEPT ![u] = Allocated(wh[u], OtherLine, 1, Totals(u))]
  BY DEF Sell
<1>2. wh[u] \in WarehouseState /\ Totals(u) \in [Stock -> Nat] /\ OtherLine \in Line /\ 1 \in Nat
  BY TotalsAreNat, Numbers DEF RowsOK
<1>3. /\ Allocated(wh[u], OtherLine, 1, Totals(u)) \in WarehouseState
      /\ \A k \in Line : k # OtherLine =>
           Allocated(wh[u], OtherLine, 1, Totals(u)).allocated[k] = wh[u].allocated[k]
  BY <1>2, ReserveEffect
<1> QED BY <1>1, <1>3 DEF RowsOK, OwnLines

LEMMA SellKeeps ==
  ASSUME RowsOK, NEW u \in Variants, Sell(u), NEW l \in OwnLines, NEW v \in Variants
  PROVE  Keeps(l, v)
BY SellLeaves DEF Keeps

\* Of the steps of a mutation only CompleteReserve makes a line hold more.
LEMMA OnlyReserveAdds ==
  ASSUME IInv, NEW c \in Sessions, DraftOrderComplete(c) \/ EditLines(c) \/ OtherMutation(c),
         ~ CompleteReserve(c), NEW l \in OwnLines, NEW v \in Variants
  PROVE  Keeps(l, v)
<1>1. CASE DraftOrderComplete(c)
  BY <1>1 DEF DraftOrderComplete, CompleteValidate, CompleteSave, CompleteFail, CompleteEnd,
              Begin, Quit, Keeps
<1>2. CASE EditLines(c) /\ ~ RemoveLines(c)
  BY <1>2 DEF EditLines, LinesCreate, AddRead, AddLine, AddLineToNothing, LineUpdate, SaveQuantity,
              SaveNoRow, LineDelete, LinesBulkDelete, RecalculateRead, RecalculateSave, Begin, Quit,
              Keeps
<1>3. CASE RemoveLines(c)
  <2>1. session[c].lines \in SUBSET OwnLines /\ DeleteLines(session[c].lines)
    BY <1>3, SessionFields DEF RemoveLines, IInv, RunsOK
  <2> QED BY <2>1, DeleteLinesEffect DEF Tame, Keeps, IInv
<1>4. CASE OtherMutation(c) /\ DeleteOrder
  <2>1. DeleteLines(lines) /\ lines \in SUBSET OwnLines
    BY <1>4 DEF DeleteOrder, IInv, RowsOK
  <2> QED BY <2>1, DeleteLinesEffect DEF Tame, Keeps, IInv
<1>5. CASE OtherMutation(c) /\ ~ DeleteOrder /\ ~ Cancel(c)
  BY <1>5 DEF OtherMutation, UpdateCheck, UpdateSave, DraftOrderDelete, BulkDeleteCheck, BulkDelete,
              CancelCheck, PayCheck, Pay, Begin, Keeps
<1>6. CASE Cancel(c)
  <2>1. CASE Exists
    <3>1. wh' = [u \in Variants |-> OrderDeallocated(wh[u], lines)]
      BY <1>6, <2>1 DEF Cancel
    <3>2. wh'[v].allocated[l] = IF l \in lines THEN Zero ELSE wh[v].allocated[l]
      BY <3>1, Numbers DEF OrderDeallocated, Tables, Zero, OwnLines
    <3> QED BY <3>2 DEF Keeps
  <2> QED BY <1>6, <2>1 DEF Cancel, Keeps
<1> QED BY <1>1, <1>2, <1>3, <1>4, <1>5, <1>6

-----------------------------------------------------------------------------
(* One mutation at a time.                                                 *)

EditSteps == {"adding", "creating", "saving", "removing", "recalculating", "totaling", "reverting"}

\* As long as no two mutations have overlapped, what a session read of the
\* order's status still holds, and a draft has never been placed.
Alone ==
  ~ past.overlapped =>
    /\ \A c, d \in Sessions : session[c] # Idle /\ session[d] # Idle => c = d
    /\ \A c \in Sessions :
         /\ session[c].step \in EditSteps => status = "draft"
         /\ session[c].step = "placing" => status = "unfulfilled"
         /\ session[c].step = "validated" => Exists
    /\ status = "draft" => \A l \in OwnLines, v \in Variants : wh[v].allocated[l] = Zero

\* What a step of session c must leave.
Leaves(c) ==
  /\ session'[c].step \in EditSteps => status' = "draft"
  /\ session'[c].step = "placing" => status' = "unfulfilled"
  /\ session'[c].step = "validated" => status' # "deleted"
  /\ status' = "draft" => status = "draft" /\ ~ CompleteReserve(c)

\* A step of a mutation changes the memory of its session only.
LEMMA StepAlone ==
  ASSUME IInv, Alone, NEW c \in Sessions, Takes(c), ~ past'.overlapped
  PROVE  /\ ~ past.overlapped
         /\ \A d \in Sessions : d # c => session[d] = Idle /\ session'[d] = Idle
         /\ \A m : session' = [session EXCEPT ![c] = m] => session'[c] = m
<1>1. PICK m \in Session, bulk \in BOOLEAN, placed \in 0 .. 2 : Step(c, m, bulk, placed)
  BY DEF Takes
<1>2. ~ Overlaps(c)
  BY <1>1 DEF Step
<1> QED BY <1>1, <1>2 DEF Step, Overlaps, IInv, RunsOK

\* What a session remembers after a step.
LEMMA After ==
  ASSUME IInv, NEW c \in Sessions
  PROVE  /\ Idle.step = "idle"
         /\ \A m, bulk, placed : Step(c, m, bulk, placed) => session'[c] = m
         /\ \A m : Remember(c, m) => session'[c] = m
         /\ \A m : Begin(c, m) => session'[c] = m /\ session[c].step = "idle" /\ status' = status
         /\ Finish(c) => session'[c].step = "idle"
         /\ Quit(c) => session'[c].step = "idle" /\ status' = status
<1>1. \A m, bulk, placed : Step(c, m, bulk, placed) => session'[c] = m
  BY DEF Step, IInv, RunsOK
<1>2. Idle.step = "idle"
  BY DEF Idle
<1> QED BY <1>1, <1>2 DEF Remember, Begin, Finish, Quit, MayAsk

LEMMA CompleteLeaves ==
  ASSUME IInv, Alone, ~ past.overlapped, NEW c \in Sessions, DraftOrderComplete(c)
  PROVE  Leaves(c)
<1>2. CASE CompleteValidate(c)
  <2>1. session'[c].step = "validated" /\ status' = status /\ Exists /\ session[c].step = "idle"
    BY <1>2, After DEF CompleteValidate
  <2> QED BY <2>1 DEF Leaves, Exists, EditSteps, CompleteReserve
<1>3. CASE CompleteSave(c)
  <2>1. session'[c].step = "placing" /\ status' = "unfulfilled"
    BY <1>3, After DEF CompleteSave
  <2> QED BY <2>1 DEF Leaves, EditSteps
<1>4. CASE CompleteReserve(c)
  <2>1. session'[c].step = "placing" /\ session[c].step = "placing" /\ status' = status
    BY <1>4, After DEF CompleteReserve
  <2> QED BY <2>1 DEF Leaves, EditSteps, Alone
<1>5. CASE CompleteFail(c) \/ CompleteEnd(c)
  <2>1. session'[c].step = "idle" /\ session[c].step = "placing" /\ status' = status
    BY <1>5, After DEF CompleteFail, CompleteEnd
  <2> QED BY <2>1 DEF Leaves, EditSteps, Alone
<1> QED BY <1>2, <1>3, <1>4, <1>5 DEF DraftOrderComplete

LEMMA EditLeaves ==
  ASSUME IInv, Alone, ~ past.overlapped, NEW c \in Sessions, EditLines(c)
  PROVE  Leaves(c)
<1>2. CASE \/ \E v \in Variants : LinesCreate(c, v)
           \/ \E l \in OwnLines, n \in Quantities : LineUpdate(c, l, n)
           \/ \E l \in OwnLines : LineDelete(c, l)
           \/ \E ls \in SUBSET OwnLines : LinesBulkDelete(c, ls)
  <2>1. /\ session'[c].step \in {"adding", "saving", "removing"}
        /\ status' = status
        /\ status = "draft"
        /\ session[c].step = "idle"
    <3>1. PICK m : Begin(c, m) /\ status = "draft" /\ m.step \in {"adding", "saving", "removing"}
      <4>1. CASE \E v \in Variants : LinesCreate(c, v)
        BY <4>1 DEF LinesCreate, Editable
      <4>2. CASE \E l \in OwnLines, n \in Quantities : LineUpdate(c, l, n)
        BY <4>2 DEF LineUpdate, Editable
      <4>3. CASE \E l \in OwnLines : LineDelete(c, l)
        BY <4>3 DEF LineDelete, Editable
      <4>4. CASE \E ls \in SUBSET OwnLines : LinesBulkDelete(c, ls)
        BY <4>4 DEF LinesBulkDelete, Editable
      <4> QED BY <1>2, <4>1, <4>2, <4>3, <4>4
    <3> QED BY <3>1, After
  <2> QED BY <2>1 DEF Leaves, CompleteReserve
<1>3. CASE AddRead(c) \/ AddLine(c) \/ SaveQuantity(c) \/ RemoveLines(c) \/ RecalculateRead(c)
           \/ RecalculateSave(c) \/ AddLineToNothing(c) \/ SaveNoRow(c)
  <2>1. session[c].step \in EditSteps /\ status' = status
    BY <1>3 DEF AddRead, AddLine, SaveQuantity, RemoveLines, RecalculateRead, RecalculateSave,
                AddLineToNothing, SaveNoRow, Quit, EditSteps
  <2>2. session'[c].step \in {"idle", "creating", "saving", "recalculating", "totaling"}
    <3>1. CASE AddRead(c)
      <4>1. \/ Finish(c)
            \/ \E m : Remember(c, m) /\ m.step \in {"creating", "saving"}
        <5> DEFINE create == [step |-> "creating", variant |-> session[c].variant]
                   save(l) == [step |-> "saving", line |-> l, quantity |-> quantity[l] + 1]
        <5>1. \/ Finish(c)
              \/ Remember(c, create)
              \/ \E l \in OwnLines : Remember(c, save(l))
          BY <3>1 DEF AddRead
        <5>2. create.step = "creating" /\ \A l : save(l).step = "saving"
          OBVIOUS
        <5> HIDE DEF create, save
        <5> QED BY <5>1, <5>2
      <4> QED BY <4>1, After
    <3>2. CASE AddLine(c) \/ SaveQuantity(c) \/ RecalculateRead(c)
      BY <3>2, After DEF AddLine, SaveQuantity, RecalculateRead
    <3>3. CASE RemoveLines(c)
      BY <3>3, After DEF RemoveLines
    <3>4. CASE RecalculateSave(c) \/ AddLineToNothing(c) \/ SaveNoRow(c)
      BY <3>4, After DEF RecalculateSave, AddLineToNothing, SaveNoRow
    <3> QED BY <1>3, <3>1, <3>2, <3>3, <3>4
  <2>3. status = "draft" /\ session[c].step # "placing"
    BY <2>1 DEF Alone, EditSteps
  <2> QED BY <2>1, <2>2, <2>3 DEF Leaves, CompleteReserve
<1> QED BY <1>2, <1>3 DEF EditLines

LEMMA OtherLeaves ==
  ASSUME IInv, Alone, ~ past.overlapped, NEW c \in Sessions, OtherMutation(c)
  PROVE  Leaves(c)
<1>2. session[c].step # "placing"
  <2>1. MayAsk(c) => session[c].step = "idle"
    BY DEF MayAsk, Idle
  <2> QED BY <2>1, After DEF OtherMutation, UpdateCheck, UpdateSave, DraftOrderDelete,
                             BulkDeleteCheck, BulkDelete, CancelCheck, Cancel, PayCheck, Pay
<1>3. CASE UpdateCheck(c)
  <2>1. session'[c].step = "reverting" /\ status' = status /\ status = "draft"
    BY <1>3, After DEF UpdateCheck, Editable
  <2> QED BY <1>2, <2>1 DEF Leaves, CompleteReserve
<1>4. CASE UpdateSave(c)
  <2>1. session'[c].step = "idle" /\ status = "draft"
    <3>1. session[c].step = "reverting" /\ Step(c, Idle, FALSE, past.placed)
      BY <1>4 DEF UpdateSave
    <3>2. status = "draft"
      BY <3>1 DEF Alone, EditSteps
    <3> QED BY <3>1, <3>2, After
  <2> QED BY <1>2, <2>1 DEF Leaves, CompleteReserve, EditSteps
<1>5. CASE \/ DraftOrderDelete(c) \/ BulkDeleteCheck(c) \/ BulkDelete(c)
           \/ CancelCheck(c) \/ Cancel(c) \/ PayCheck(c) \/ Pay(c)
  <2>1. session'[c].step \in {"idle", "deleting", "canceling", "paying"}
    BY <1>5, After DEF DraftOrderDelete, BulkDeleteCheck, BulkDelete, CancelCheck, Cancel,
                       PayCheck, Pay
  <2>2. status' \in {status, "deleted", "canceled"}
    BY <1>5 DEF DraftOrderDelete, BulkDeleteCheck, BulkDelete, CancelCheck, Cancel, PayCheck,
                Pay, Begin, DeleteOrder
  <2> QED BY <1>2, <2>1, <2>2 DEF Leaves, CompleteReserve, EditSteps
<1> QED BY <1>3, <1>4, <1>5 DEF OtherMutation

LEMMA NextKeepsAlone ==
  ASSUME IInv, Alone, [Next]_vars
  PROVE  Alone'
<1> SUFFICES ASSUME ~ past'.overlapped PROVE Alone'
  BY DEF Alone
<1>1. CASE UNCHANGED vars
  BY <1>1 DEF vars, Alone, Exists
<1>2. ASSUME NEW c \in Sessions, DraftOrderComplete(c) \/ EditLines(c) \/ OtherMutation(c)
      PROVE  Alone'
  <2>1. Takes(c)
    BY <1>2, CompleteTakes, EditTakes, OtherTakes
  <2>2. /\ ~ past.overlapped
        /\ \A d \in Sessions : d # c => session[d] = Idle /\ session'[d] = Idle
    BY <2>1, StepAlone
  <2>3. Leaves(c)
    BY <1>2, <2>2, CompleteLeaves, EditLeaves, OtherLeaves
  <2>4. \A d \in Sessions :
          /\ session'[d].step \in EditSteps => status' = "draft"
          /\ session'[d].step = "placing" => status' = "unfulfilled"
          /\ session'[d].step = "validated" => status' # "deleted"
    BY <2>2, <2>3 DEF Leaves, EditSteps, Idle
  <2>5. ASSUME status' = "draft", NEW l \in OwnLines, NEW v \in Variants
        PROVE  wh'[v].allocated[l] = Zero
    <3>1. Keeps(l, v)
      BY <1>2, <2>3, <2>5, OnlyReserveAdds DEF Leaves
    <3> QED BY <2>2, <2>3, <2>5, <3>1 DEF Leaves, Alone, Keeps
  <2> QED BY <2>2, <2>4, <2>5 DEF Alone, Exists
<1>3. ASSUME NEW u \in Variants, Sell(u) PROVE Alone'
  <2>1. UNCHANGED <<status, session, past>>
    BY <1>3 DEF Sell
  <2>2. \A l \in OwnLines, v \in Variants : Keeps(l, v)
    BY <1>3, SellKeeps DEF IInv
  <2> QED BY <2>1, <2>2 DEF Alone, Exists, Keeps
<1> QED BY <1>1, <1>2, <1>3 DEF Next, OtherMutation

LEMMA AloneInvariance == Spec => [](IInv /\ Alone)
<1>1. Init => Alone
  <2> SUFFICES ASSUME Init PROVE Alone
    OBVIOUS
  <2>1. \A v \in Variants, l \in Line : wh[v].allocated[l] = Zero
    BY DEF Init, Unreserved, Tables, Zero
  <2> QED BY <2>1 DEF Init, Alone, Idle, EditSteps, OwnLines
<1>2. (IInv /\ Alone) /\ [Next]_vars => (IInv /\ Alone)'
  BY NextKeepsRows, NextKeepsRuns, NextKeepsAlone DEF IInv
<1> QED BY <1>1, <1>2, InitIInv, PTL DEF Spec

\* Without overlapping mutations a placed order keeps its lines and is never a
\* draft again: every session that goes on to write lines has read a draft that
\* is still one.  A deleted order does not come back.
THEOREM PlacedIsPlaced == Spec => PlacedStaysPlaced
<1> DEFINE Allowed ==
      ~ past'.overlapped =>
        /\ status \in {"unfulfilled", "canceled"} /\ status' # "deleted" =>
             status' # "draft" /\ lines' = lines /\ quantity' = quantity
        /\ status = "deleted" => status' = "deleted"
<1>1. ASSUME IInv, Alone, [Next]_vars PROVE Allowed
  <2> SUFFICES ASSUME ~ past'.overlapped PROVE Allowed
    OBVIOUS
  <2>1. CASE UNCHANGED vars
    BY <2>1 DEF vars
  <2>2. CASE \E v \in Variants : Sell(v)
    BY <2>2 DEF Sell, Items
  <2>3. ASSUME NEW c \in Sessions, DraftOrderComplete(c) \/ EditLines(c) \/ OtherMutation(c)
        PROVE  Allowed
    <3>1. ~ past.overlapped
      BY <2>3, <1>1, CompleteTakes, EditTakes, OtherTakes, StepAlone
    <3>2. /\ session[c].step \in EditSteps => status = "draft"
          /\ session[c].step = "validated" => Exists
      BY <3>1, <1>1 DEF Alone
    <3>3. CASE DraftOrderComplete(c)
      <4>1. \/ UNCHANGED <<lines, quantity>> /\ status' # "draft"
            \/ UNCHANGED <<status, lines, quantity>>
        BY <3>3 DEF DraftOrderComplete, CompleteValidate, CompleteSave, CompleteReserve, CompleteFail,
                    CompleteEnd, Begin, Quit, Items
      <4>2. status = "deleted" => status' = status
        BY <3>2, <3>3 DEF DraftOrderComplete, CompleteValidate, CompleteSave, CompleteReserve,
                          CompleteFail, CompleteEnd, Begin, Quit, Exists
      <4> QED BY <4>1, <4>2
    <3>4. CASE EditLines(c)
      <4>1. status' = status
        BY <3>4 DEF EditLines, LinesCreate, AddRead, AddLine, AddLineToNothing, LineUpdate,
                    SaveQuantity, SaveNoRow, LineDelete, LinesBulkDelete, RemoveLines,
                    RecalculateRead, RecalculateSave, Begin, Quit
      <4>2. UNCHANGED <<lines, quantity>> \/ session[c].step \in EditSteps
        BY <3>4 DEF EditLines, LinesCreate, AddRead, AddLine, AddLineToNothing, LineUpdate,
                    SaveQuantity, SaveNoRow, LineDelete, LinesBulkDelete, RemoveLines,
                    RecalculateRead, RecalculateSave, Begin, Quit, Items, EditSteps
      <4> QED BY <4>1, <4>2, <3>2
    <3>5. CASE OtherMutation(c) /\ ~ DeleteOrder
      <4>1. UNCHANGED <<lines, quantity>>
        BY <3>5 DEF OtherMutation, UpdateCheck, UpdateSave, DraftOrderDelete, BulkDeleteCheck,
                    BulkDelete, CancelCheck, Cancel, PayCheck, Pay, Begin, Items
      <4>2. status' = status \/ (Exists /\ status' = "canceled") \/ session[c].step = "reverting"
        BY <3>5 DEF OtherMutation, UpdateCheck, UpdateSave, DraftOrderDelete, BulkDeleteCheck,
                    BulkDelete, CancelCheck, Cancel, PayCheck, Pay, Begin
      <4> QED BY <4>1, <4>2, <3>2 DEF Exists, EditSteps
    <3>6. CASE DeleteOrder
      BY <3>6 DEF DeleteOrder
    <3> QED BY <2>3, <3>3, <3>4, <3>5, <3>6
  <2> QED BY <1>1, <2>1, <2>2, <2>3 DEF Next, OtherMutation
<1>2. IInv /\ Alone /\ [Next]_vars => Allowed
  BY <1>1
<1> HIDE DEF Allowed
<1>3. Spec => [][Allowed]_vars
  BY <1>2, AloneInvariance, PTL DEF Spec
<1> QED BY <1>3 DEF PlacedStaysPlaced, Allowed

\* A line comes to hold more than its quantity only through a reservation on top
\* of another or for a quantity that is no longer the line's, or when an
\* overlapping mutation saves a quantity below what is reserved.
THEOREM OverReserving == Spec => OverReservedNeeds
<1> DEFINE Raced(l) ==
             \E c \in Sessions :
               \/ CompleteReserve(c) /\ (Reserved(l) > 0 \/ session[c].want[l] # quantity[l])
               \/ SaveQuantity(c) /\ past'.overlapped
           Needs ==
             \A l \in OwnLines :
               l \in lines /\ Reserved(l) <= quantity[l] /\ l \in lines' /\ Reserved(l)' > quantity'[l] =>
                 Raced(l)
<1>1. ASSUME IInv, Alone, [Next]_vars, NEW l \in OwnLines,
             l \in lines, Reserved(l) <= quantity[l], l \in lines', Reserved(l)' > quantity'[l]
      PROVE  Raced(l)
  <2> DEFINE v == VariantOf[l]
  <2>1. /\ v \in Variants /\ l \in Line
        /\ quantity[l] \in Nat
        /\ Reserved(l) = LineTotal(wh[v], l)
        /\ Reserved(l)' = LineTotal(wh'[v], l)
        /\ Reserved(l) \in Nat
        /\ Reserved(l)' \in Nat
        /\ quantity'[l] \in Nat
    <3>1. v \in Variants /\ l \in Line /\ RowsOK /\ RowsOK'
      BY <1>1, Numbers, NextKeepsRows DEF OwnLines, IInv
    <3>2. wh[v] \in WarehouseState /\ wh'[v] \in WarehouseState
      BY <3>1 DEF RowsOK
    <3>3. LineTotal(wh[v], l) \in Nat /\ LineTotal(wh'[v], l) \in Nat
      BY <3>1, <3>2, TotalsNat
    <3> QED BY <3>1, <3>3 DEF Reserved, RowsOK
  <2> HIDE DEF v
  <2>2. Keeps(l, v) => Reserved(l)' <= Reserved(l)
    <3> SUFFICES ASSUME Keeps(l, v) PROVE Reserved(l)' <= Reserved(l)
      OBVIOUS
    <3>1. CASE wh'[v].allocated[l] = wh[v].allocated[l]
      <4>1. LineTotal(wh'[v], l) = LineTotal(wh[v], l)
        BY <3>1 DEF LineTotal
      <4> QED BY <2>1, <4>1
    <3>2. CASE wh'[v].allocated[l] = Zero
      <4>1. LineTotal(wh'[v], l) = 0
        BY <3>2, SumOfZeros DEF LineTotal, Zero
      <4> QED BY <2>1, <4>1
    <3> QED BY <3>1, <3>2 DEF Keeps
  <2>3. CASE UNCHANGED vars
    BY <1>1, <2>1, <2>2, <2>3 DEF vars, Keeps
  <2>4. ASSUME NEW u \in Variants, Sell(u) PROVE Raced(l)
    <3>1. Keeps(l, v) /\ quantity' = quantity
      BY <1>1, <2>1, <2>4, SellKeeps DEF IInv, Sell, Items
    <3> QED BY <1>1, <2>1, <2>2, <3>1
  <2>5. ASSUME NEW c \in Sessions, CompleteReserve(c) PROVE Raced(l)
    <3> DEFINE k == Min(session[c].todo)
               n == session[c].want[k]
               u == VariantOf[k]
    <3>1. /\ k \in lines
          /\ Enough(Available(wh[u], Totals(u)), n)
          /\ wh' = [wh EXCEPT ![u] = Allocated(wh[u], k, n, Totals(u))]
          /\ quantity' = quantity
          /\ session[c].step = "placing"
      BY <2>5 DEF CompleteReserve, CanReserve, CanAllocate, Items
    <3>2. k \in OwnLines /\ k \in Line /\ u \in Variants
      BY <1>1, <3>1, Numbers DEF IInv, RowsOK, OwnLines
    <3>3. session[c].want \in [OwnLines -> Nat] /\ n \in Nat
      BY <1>1, <3>1, <3>2, SessionFields DEF IInv, RunsOK
    <3>4. wh[u] \in WarehouseState /\ Totals(u) \in [Stock -> Nat] /\ wh'[u] = Allocated(wh[u], k, n, Totals(u))
      BY <1>1, <3>1, <3>2, TotalsAreNat DEF IInv, RowsOK
    <3>5. CASE k = l
      <4>1. n = session[c].want[l] /\ u = v
        BY <3>5 DEF v
      <4> HIDE DEF k, n, u
      <4>2. LineTotal(wh'[u], k) <= LineTotal(wh[u], k) + n
        BY <3>1, <3>2, <3>3, <3>4, ReserveAdds
      <4>3. Reserved(l)' <= Reserved(l) + n
        BY <2>1, <3>5, <4>1, <4>2
      <4>4. Reserved(l) > 0 \/ session[c].want[l] # quantity[l]
        BY <1>1, <2>1, <3>1, <3>3, <4>1, <4>3
      <4> QED BY <2>5, <4>4
    <3>6. CASE k # l
      <4> HIDE DEF k, n, u
      <4>1. \A j \in Line : j # k => Allocated(wh[u], k, n, Totals(u)).allocated[j] = wh[u].allocated[j]
        <5>1. /\ Allocated(wh[u], k, n, Totals(u)) \in WarehouseState
              /\ \A j \in Line : j # k =>
                   Allocated(wh[u], k, n, Totals(u)).allocated[j] = wh[u].allocated[j]
          BY <3>2, <3>3, <3>4, ReserveEffect
        <5> QED BY <5>1
      <4>2. Keeps(l, v)
        BY <1>1, <2>1, <3>1, <3>2, <3>6, <4>1 DEF Keeps, IInv, RowsOK
      <4> QED BY <1>1, <2>1, <2>2, <3>1, <4>2
    <3> QED BY <3>5, <3>6
  <2>6. ASSUME NEW c \in Sessions, DraftOrderComplete(c) \/ EditLines(c) \/ OtherMutation(c),
               ~ CompleteReserve(c)
        PROVE  Raced(l)
    <3>1. Reserved(l)' <= Reserved(l)
      BY <1>1, <2>1, <2>2, <2>6, OnlyReserveAdds
    <3>2. quantity'[l] = quantity[l] \/ SaveQuantity(c)
      <4>1. CASE DraftOrderComplete(c)
        BY <4>1 DEF DraftOrderComplete, CompleteValidate, CompleteSave, CompleteReserve, CompleteFail,
                    CompleteEnd, Begin, Quit, Items
      <4>2. CASE EditLines(c) /\ ~ AddLine(c) /\ ~ RemoveLines(c) /\ ~ SaveQuantity(c)
        BY <4>2 DEF EditLines, LinesCreate, AddRead, AddLineToNothing, LineUpdate, SaveNoRow,
                    LineDelete, LinesBulkDelete, RecalculateRead, RecalculateSave, Begin, Quit, Items
      <4>3. CASE AddLine(c)
        BY <1>1, <4>3 DEF AddLine, IInv, RowsOK
      <4>4. CASE RemoveLines(c)
        BY <1>1, <4>4 DEF RemoveLines, DeleteLines
      <4>5. CASE OtherMutation(c) /\ DeleteOrder
        BY <1>1, <4>5 DEF DeleteOrder, DeleteLines
      <4>6. CASE OtherMutation(c) /\ ~ DeleteOrder
        BY <4>6 DEF OtherMutation, UpdateCheck, UpdateSave, DraftOrderDelete, BulkDeleteCheck,
                    BulkDelete, CancelCheck, Cancel, PayCheck, Pay, Begin, Items
      <4> QED BY <2>6, <4>1, <4>2, <4>3, <4>4, <4>5, <4>6
    <3>3. SaveQuantity(c) /\ quantity'[l] # quantity[l]
      BY <1>1, <2>1, <3>1, <3>2
    <3>4. past'.overlapped
      <4> SUFFICES ASSUME ~ past'.overlapped PROVE FALSE
        OBVIOUS
      <4>1. ~ past.overlapped
        BY <1>1, <2>6, CompleteTakes, EditTakes, OtherTakes, StepAlone
      <4>2. session[c].step = "saving" /\ wh' = wh
        BY <3>3 DEF SaveQuantity
      <4>3. status = "draft"
        BY <1>1, <4>1, <4>2 DEF Alone, EditSteps
      <4>4. Reserved(l) = 0
        BY <1>1, <2>1, <4>1, <4>3, SumOfZeros DEF Alone, LineTotal, Zero
      <4> QED BY <1>1, <2>1, <3>1, <4>4
    <3> QED BY <3>3, <3>4
  <2> QED BY <1>1, <2>3, <2>4, <2>5, <2>6 DEF Next, OtherMutation
<1>2. IInv /\ Alone /\ [Next]_vars => Needs
  BY <1>1
<1> HIDE DEF Needs
<1>3. Spec => [][Needs]_vars
  BY <1>2, AloneInvariance, PTL DEF Spec
<1> QED BY <1>3 DEF OverReservedNeeds, Needs

-----------------------------------------------------------------------------
(* The books, one mutation at a time.                                      *)

\* The total is that of the lines, but between a change of them and the save that
\* follows it; who is about to save a total has the right one.
TotalRight ==
  /\ \A c \in Sessions :
       /\ session[c].step = "validated" => session[c].total = total
       /\ session[c].step = "totaling" => session[c].total = SumOfLines(quantity)
  /\ Exists /\ ~ past.bulk
     /\ (\A c \in Sessions : session[c].step \notin {"recalculating", "totaling"}) =>
       total = SumOfLines(quantity)

PaidOnce ==
  /\ payments <= 1
  /\ \A c \in Sessions : session[c].step = "paying" => payments = 0

\* Who places the order has the lines' quantities, and has reserved all of the lines
\* before those that are left to do.
PlacingRight ==
  \A c \in Sessions :
    session[c].step = "placing" =>
      /\ session[c].want = quantity
      /\ session[c].todo \subseteq TrackedLines
      /\ \A l \in session[c].todo : wh[VariantOf[l]].allocated[l] = Zero
      /\ \A k \in TrackedLines \ session[c].todo :
           /\ Reserved(k) = quantity[k]
           /\ \A l \in session[c].todo : k < l

AllOrNothing ==
  /\ \A l \in TrackedLines : Reserved(l) \in {0, quantity[l]}
  /\ \A k, l \in TrackedLines : k < l /\ Reserved(l) > 0 => Reserved(k) > 0

StockRight ==
  /\ status # "unfulfilled" => \A l \in OwnLines, v \in Variants : wh[v].allocated[l] = Zero
  /\ past.placed = 0 =>
       status \in {"draft", "deleted"} /\ \A c \in Sessions : session[c].step # "canceling"
  /\ past.placed <= 1 => AllOrNothing /\ PlacingRight

Serial == ~ past.overlapped => TotalRight /\ PaidOnce /\ StockRight

\* Only session c has a mutation, before and after its step.
Only(c) == \A d \in Sessions : d # c => session[d] = Idle /\ session'[d] = Idle

\* Without overlap what a step of session c writes is all there is.
LEMMA OnlySession ==
  ASSUME NEW c \in Sessions, Only(c), NEW d \in Sessions, session'[d].step # "idle"
  PROVE  d = c
BY DEF Only, Idle

LEMMA NothingReserved ==
  ASSUME NEW l \in OwnLines, \A v \in Variants : wh[v].allocated[l] = Zero
  PROVE  Reserved(l) = 0
<1>1. VariantOf[l] \in Variants
  BY Numbers DEF OwnLines
<1>2. wh[VariantOf[l]].allocated[l] = Zero
  BY <1>1
<1> QED BY <1>2, SumOfZeros DEF Reserved, LineTotal, Zero

LEMMA NothingReservedNext ==
  ASSUME NEW l \in OwnLines, \A v \in Variants : wh'[v].allocated[l] = Zero
  PROVE  Reserved(l)' = 0
<1>1. VariantOf[l] \in Variants
  BY Numbers DEF OwnLines
<1>2. wh'[VariantOf[l]].allocated[l] = Zero
  BY <1>1
<1> QED BY <1>2, SumOfZeros DEF Reserved, LineTotal, Zero

\* Where nothing is reserved, what is reserved is right.
Empties ==
  /\ \A l \in OwnLines, v \in Variants : wh'[v].allocated[l] = Zero
  /\ \A d \in Sessions : session'[d].step # "placing"
  /\ past'.placed = 0 =>
       status' \in {"draft", "deleted"} /\ \A d \in Sessions : session'[d].step # "canceling"

LEMMA EmptyIsRight ==
  ASSUME RowsOK', Empties
  PROVE  StockRight'
<1>1. \A l \in OwnLines : Reserved(l)' = 0
  BY NothingReservedNext DEF Empties
<1>2. \A l \in TrackedLines' : l \in OwnLines
  BY DEF TrackedLines, RowsOK
<1>3. AllOrNothing'
  BY <1>1, <1>2 DEF AllOrNothing
<1>4. PlacingRight'
  BY DEF PlacingRight, Empties
<1> QED BY <1>3, <1>4 DEF StockRight, Empties

\* A step that only reads.
Recalls(c) ==
  /\ UNCHANGED <<status, Items, total, payments, wh>>
  /\ past'.bulk = past.bulk /\ past'.placed = past.placed
  /\ session'[c].step # "placing"
  /\ session'[c].step = "validated" => session'[c].total = total
  /\ session'[c].step = "totaling" => session'[c].total = SumOfLines(quantity)
  /\ session'[c].step = "paying" => payments = 0
  /\ session'[c].step = "canceling" => status = "unfulfilled"
  /\ session[c].step \in {"recalculating", "totaling"} =>
       session'[c].step \in {"recalculating", "totaling"}

LEMMA RecallsIsRight ==
  ASSUME TotalRight, PaidOnce, StockRight, NEW c \in Sessions, Only(c), Recalls(c)
  PROVE  TotalRight' /\ PaidOnce' /\ StockRight'
<1>1. UNCHANGED <<status, lines, gone, quantity, total, payments, wh>>
  BY DEF Recalls, Items
<1>2. \A d \in Sessions : session'[d].step \notin {"idle"} => d = c
  BY OnlySession
<1>3. TotalRight'
  <2>1. ASSUME NEW d \in Sessions
        PROVE  /\ session'[d].step = "validated" => session'[d].total = total'
               /\ session'[d].step = "totaling" => session'[d].total = SumOfLines(quantity')
    BY <1>1, <1>2 DEF Recalls
  <2>2. (\A d \in Sessions : session'[d].step \notin {"recalculating", "totaling"}) =>
          \A d \in Sessions : session[d].step \notin {"recalculating", "totaling"}
    BY DEF Recalls, Only, Idle
  <2>3. SumOfLines(quantity') = SumOfLines(quantity)
    BY <1>1
  <2>4. Exists' = Exists
    BY <1>1 DEF Exists
  <2>5. past'.bulk = past.bulk
    BY DEF Recalls
  <2>6. Exists' /\ ~ past'.bulk
        /\ (\A d \in Sessions : session'[d].step \notin {"recalculating", "totaling"}) =>
          total' = SumOfLines(quantity')
    BY <1>1, <2>2, <2>3, <2>4, <2>5 DEF TotalRight
  <2> QED BY <2>1, <2>6 DEF TotalRight
<1>4. PaidOnce'
  BY <1>1, <1>2 DEF PaidOnce, Recalls
<1>5. StockRight'
  <2>1. PlacingRight'
    BY <1>2 DEF PlacingRight, Recalls
  <2>2. past'.placed = 0 => \A d \in Sessions : session'[d].step # "canceling"
    BY <1>2 DEF StockRight, Recalls
  <2>3. \A l : Reserved(l)' = Reserved(l)
    BY <1>1 DEF Reserved
  <2>4. AllOrNothing => AllOrNothing'
    BY <1>1, <2>3 DEF AllOrNothing, TrackedLines
  <2> QED BY <1>1, <2>1, <2>4, <2>2 DEF StockRight, Recalls
<1> QED BY <1>3, <1>4, <1>5

LEMMA FirstLine ==
  ASSUME NEW T \in SUBSET OwnLines, T # {}
  PROVE  Min(T) \in T /\ \A y \in T : Min(T) <= y
<1>1. T \in SUBSET Nat
  BY Numbers
<1>2. \E x \in T : \A y \in T : x <= y
  BY <1>1, LeastNat
<1> QED BY <1>2 DEF Min

\* A reservation for a line that has none is of what is asked for.
LEMMA ReservesExactly ==
  ASSUME NEW x \in WarehouseState, NEW l \in Line, NEW n \in Nat, NEW counted \in [Stock -> Nat],
         Enough(Available(x, counted), n), x.allocated[l] = Zero
  PROVE  LineTotal(Allocated(x, l, n, counted), l) = n
<1> DEFINE plan == Take(Available(x, counted), n)
           new == Allocated(x, l, n, counted).allocated[l]
<1>1. plan \in [Stock -> Nat] /\ SumTo(plan, NumStocks) = n
  BY AvailableInt, TakeBounds, TakeExact
<1>2. new = [s \in Stock |-> IF plan[s] > 0 THEN plan[s] ELSE x.allocated[l][s]]
  BY DEF Allocated, Tables, WarehouseState
<1>3. LineTotal(Allocated(x, l, n, counted), l) = SumTo(new, NumStocks)
  BY DEF LineTotal
<1> HIDE DEF plan, new
<1>4. new = plan
  BY <1>1, <1>2 DEF Zero
<1> QED BY <1>1, <1>3, <1>4

LEMMA SaveIsRight ==
  ASSUME IInv, Alone, ~ past.overlapped, TotalRight, PaidOnce, StockRight,
         NEW c \in Sessions, Only(c), CompleteSave(c)
  PROVE  TotalRight' /\ PaidOnce' /\ StockRight'
<1> DEFINE todo == {l \in lines : VariantOf[l] \in TrackedVariants}
           m == [step |-> "placing", want |-> quantity, todo |-> todo]
<1>1. /\ session[c].step = "validated" /\ status' = "unfulfilled" /\ total' = session[c].total
      /\ Step(c, m, past.bulk, Least(2, past.placed + 1))
      /\ UNCHANGED <<lines, gone, quantity, payments, wh>>
  BY DEF CompleteSave, Items
<1>2. session'[c] = m /\ past'.bulk = past.bulk /\ past'.placed = Least(2, past.placed + 1)
  BY <1>1, After DEF Step
<1>3. m.step = "placing" /\ m.want = quantity /\ m.todo = todo
  OBVIOUS
<1>4. todo = TrackedLines
  BY DEF TrackedLines
<1> HIDE DEF m, todo
<1>5. session'[c].step = "placing" /\ \A d \in Sessions : session'[d].step # "idle" => d = c
  BY <1>2, <1>3, OnlySession
<1>6. TotalRight'
  <2>1. total' = total /\ Exists
    BY <1>1 DEF TotalRight, Alone
  <2>2. \A d \in Sessions : session[d].step \notin {"recalculating", "totaling"}
    BY <1>1 DEF Only, Idle
  <2>3. ~ past'.bulk => total' = SumOfLines(quantity')
    BY <1>1, <1>2, <2>1, <2>2 DEF TotalRight
  <2>4. \A d \in Sessions : session'[d].step \notin {"validated", "totaling"}
    BY <1>5
  <2> QED BY <2>3, <2>4 DEF TotalRight
<1>7. PaidOnce'
  BY <1>1, <1>5 DEF PaidOnce
<1>8. StockRight'
  <2>1. past'.placed # 0 /\ (past'.placed <= 1 => past.placed = 0)
    BY <1>2 DEF IInv, RunsOK, Least
  <2>2. ASSUME past'.placed <= 1 PROVE AllOrNothing' /\ PlacingRight'
    <3>1. status = "draft"
      BY <2>1, <2>2, <1>1 DEF StockRight, Alone, Exists
    <3>2. \A l \in OwnLines, v \in Variants : wh'[v].allocated[l] = Zero
      BY <1>1, <3>1 DEF StockRight
    <3>3. TrackedLines' = TrackedLines /\ TrackedLines \in SUBSET OwnLines
      BY <1>1 DEF TrackedLines, IInv, RowsOK
    <3>4. \A l \in OwnLines : Reserved(l)' = 0
      BY <3>2, NothingReservedNext
    <3>5. AllOrNothing'
      BY <3>3, <3>4 DEF AllOrNothing
    <3>6. \A l \in OwnLines : wh'[VariantOf[l]].allocated[l] = Zero
      BY <3>2, Numbers DEF OwnLines
    <3>7. session'[c].want = quantity' /\ session'[c].todo = TrackedLines'
      BY <1>1, <1>2, <1>3, <1>4, <3>3
    <3>8. PlacingRight'
      BY <1>5, <3>3, <3>6, <3>7 DEF PlacingRight
    <3> QED BY <3>5, <3>8
  <2> QED BY <1>1, <2>1, <2>2 DEF StockRight
<1> QED BY <1>6, <1>7, <1>8

LEMMA ReserveIsRight ==
  ASSUME IInv, Alone, ~ past.overlapped, TotalRight, PaidOnce, StockRight,
         NEW c \in Sessions, Only(c), CompleteReserve(c)
  PROVE  TotalRight' /\ PaidOnce' /\ StockRight'
<1> DEFINE t == session[c]
           k == Min(t.todo)
           n == t.want[k]
           v == VariantOf[k]
           m == [step |-> "placing", want |-> t.want, todo |-> t.todo \ {k}]
<1>1. /\ t.step = "placing" /\ t.todo # {}
      /\ k \in lines
      /\ Enough(Available(wh[v], Totals(v)), n)
      /\ wh' = [wh EXCEPT ![v] = Allocated(wh[v], k, n, Totals(v))]
      /\ Remember(c, m)
      /\ UNCHANGED <<status, lines, gone, quantity, total, payments>>
  BY DEF CompleteReserve, CanReserve, CanAllocate, Items
<1>2. t.want \in [OwnLines -> Nat] /\ t.todo \in SUBSET OwnLines
  BY <1>1, SessionFields DEF IInv, RunsOK
<1>3. k \in t.todo /\ \A y \in t.todo : k <= y
  BY <1>1, <1>2, FirstLine
<1>4. session'[c] = m /\ past'.bulk = past.bulk /\ past'.placed = past.placed
  BY <1>1, After DEF Step, Remember
<1>5. m.step = "placing" /\ m.want = t.want /\ m.todo = t.todo \ {k}
  OBVIOUS
<1> HIDE DEF m
<1>6. session'[c].step = "placing" /\ \A d \in Sessions : session'[d].step # "idle" => d = c
  BY <1>4, <1>5, OnlySession
<1>7. TotalRight'
  <2>1. \A d \in Sessions : session[d].step \notin {"recalculating", "totaling"}
    BY <1>1 DEF Only, Idle
  <2>2. \A d \in Sessions : session'[d].step \notin {"validated", "totaling"}
    BY <1>6
  <2>3. Exists' = Exists
    BY <1>1 DEF Exists
  <2> QED BY <1>1, <1>4, <2>1, <2>2, <2>3 DEF TotalRight
<1>8. PaidOnce'
  BY <1>1, <1>6 DEF PaidOnce
<1>9. status = "unfulfilled"
  BY <1>1 DEF Alone
<1>10. ASSUME past.placed <= 1 PROVE AllOrNothing' /\ PlacingRight'
  <2>1. /\ t.want = quantity /\ t.todo \subseteq TrackedLines
        /\ \A l \in t.todo : wh[VariantOf[l]].allocated[l] = Zero
        /\ \A j \in TrackedLines \ t.todo : Reserved(j) = quantity[j] /\ \A l \in t.todo : j < l
    BY <1>1, <1>10 DEF StockRight, PlacingRight
  <2>2. TrackedLines' = TrackedLines /\ TrackedLines \in SUBSET OwnLines
    BY <1>1 DEF TrackedLines, IInv, RowsOK
  <2>3. k \in OwnLines /\ k \in Line /\ v \in Variants /\ n \in Nat
    BY <1>2, <1>3, Numbers DEF OwnLines
  <2>4. wh[v] \in WarehouseState /\ Totals(v) \in [Stock -> Nat] /\ wh \in [Variants -> WarehouseState]
    BY <2>3, TotalsAreNat DEF IInv, RowsOK
  <2>5. wh'[v] = Allocated(wh[v], k, n, Totals(v)) /\ \A u \in Variants : u # v => wh'[u] = wh[u]
    BY <1>1, <2>3, <2>4
  <2>6. n = quantity[k] /\ wh[v].allocated[k] = Zero
    BY <1>3, <2>1
  <2> HIDE DEF k, n, v, t
  <2>7. v = VariantOf[k]
    BY DEF v
  <2>8. ASSUME NEW j \in OwnLines, j = k PROVE Reserved(j)' = quantity[j]
    <3>1. LineTotal(wh'[v], k) = n
      BY <1>1, <2>3, <2>4, <2>5, <2>6, ReservesExactly
    <3>2. Reserved(j)' = LineTotal(wh'[VariantOf[j]], j)
      BY DEF Reserved
    <3> QED BY <2>6, <2>7, <2>8, <3>1, <3>2
  <2>9. \A l \in OwnLines, u \in Variants : l # k => wh'[u].allocated[l] = wh[u].allocated[l]
    <3>1. \A l \in Line : l # k => Allocated(wh[v], k, n, Totals(v)).allocated[l] = wh[v].allocated[l]
      <4>1. /\ Allocated(wh[v], k, n, Totals(v)) \in WarehouseState
            /\ \A l \in Line : l # k =>
                 Allocated(wh[v], k, n, Totals(v)).allocated[l] = wh[v].allocated[l]
        BY <2>3, <2>4, ReserveEffect
      <4> QED BY <4>1
    <3> QED BY <2>5, <3>1 DEF OwnLines
  <2>10. \A l \in OwnLines : VariantOf[l] \in Variants
    BY Numbers DEF OwnLines
  <2>11. ASSUME NEW l \in OwnLines, l # k
         PROVE  /\ Reserved(l)' = Reserved(l)
                /\ wh'[VariantOf[l]].allocated[l] = wh[VariantOf[l]].allocated[l]
    <3>1. wh'[VariantOf[l]].allocated[l] = wh[VariantOf[l]].allocated[l]
      BY <2>9, <2>10, <2>11
    <3> QED BY <3>1 DEF Reserved, LineTotal
  <2>12. /\ session'[c].want = quantity' /\ session'[c].todo = t.todo \ {k}
         /\ session'[c].todo \subseteq TrackedLines'
    BY <1>1, <1>4, <1>5, <2>1, <2>2
  <2>13. \A l \in session'[c].todo : l # k /\ l \in OwnLines /\ wh'[VariantOf[l]].allocated[l] = Zero
    BY <2>1, <2>2, <2>11, <2>12
  <2>14. \A j \in TrackedLines' \ session'[c].todo : Reserved(j)' = quantity'[j]
    BY <1>1, <2>1, <2>2, <2>8, <2>11, <2>12
  <2>15. ASSUME NEW j \in TrackedLines' \ session'[c].todo, NEW l \in session'[c].todo
         PROVE  j < l
    <3>1. l \in t.todo /\ l # k /\ l \in Nat /\ k \in Nat
      BY <2>12, <2>13, <2>3, Numbers
    <3>2. j \in TrackedLines /\ (j = k \/ j \notin t.todo)
      BY <2>2, <2>12
    <3>3. CASE j = k
      BY <1>3, <3>1, <3>3
    <3>4. CASE j \notin t.todo
      BY <2>1, <3>1, <3>2, <3>4
    <3> QED BY <3>2, <3>3, <3>4
  <2>16. PlacingRight'
    BY <1>6, <2>12, <2>13, <2>14, <2>15 DEF PlacingRight
  <2>17. \A l \in session'[c].todo : Reserved(l)' = 0
    BY <2>13, SumOfZeros DEF Reserved, LineTotal, Zero
  <2>18. \A l \in TrackedLines' : quantity'[l] \in Nat \ {0} /\ l \in OwnLines
    BY <1>1, <2>2 DEF TrackedLines, IInv, RowsOK
  <2>19. AllOrNothing'
    <3>1. \A l \in TrackedLines' : Reserved(l)' \in {0, quantity'[l]}
      BY <2>14, <2>17
    <3>2. ASSUME NEW j \in TrackedLines', NEW l \in TrackedLines', j < l, Reserved(l)' > 0
          PROVE  Reserved(j)' > 0
      <4>1. l \notin session'[c].todo
        BY <2>17, <3>2
      <4>2. j \notin session'[c].todo
        BY <2>15, <2>18, <3>2, <4>1, Numbers
      <4> QED BY <2>14, <2>18, <4>2
    <3> QED BY <3>1, <3>2 DEF AllOrNothing
  <2> QED BY <2>16, <2>19
<1>11. StockRight'
  BY <1>1, <1>4, <1>6, <1>9, <1>10 DEF StockRight
<1> QED BY <1>7, <1>8, <1>11

\* The steps of DraftOrderComplete.
LEMMA CompleteIsRight ==
  ASSUME IInv, Alone, ~ past.overlapped, TotalRight, PaidOnce, StockRight,
         NEW c \in Sessions, Only(c), DraftOrderComplete(c)
  PROVE  TotalRight' /\ PaidOnce' /\ StockRight'
<1>1. CASE CompleteValidate(c)
  <2> DEFINE m == [step |-> "validated", total |-> total]
  <2>1. Begin(c, m)
    BY <1>1 DEF CompleteValidate
  <2>2. m.step = "validated" /\ m.total = total
    OBVIOUS
  <2> HIDE DEF m
  <2>3. session'[c] = m /\ session[c].step = "idle"
    BY <2>1, After
  <2>4. Recalls(c)
    BY <2>1, <2>2, <2>3 DEF Begin, Remember, Step, Recalls, Items
  <2> QED BY <2>4, RecallsIsRight
<1>2. CASE CompleteFail(c) \/ CompleteEnd(c)
  <2>1. Quit(c) /\ session[c].step = "placing"
    BY <1>2 DEF CompleteFail, CompleteEnd
  <2>2. session'[c].step = "idle"
    BY <2>1, After
  <2>3. Recalls(c)
    BY <2>1, <2>2 DEF Quit, Finish, Remember, Step, Recalls, Items
  <2> QED BY <2>3, RecallsIsRight
<1> QED BY <1>1, <1>2, SaveIsRight, ReserveIsRight DEF DraftOrderComplete

\* A step of an edit that has written lines or a total.
Edits(c) ==
  /\ status' = "draft" /\ status = "draft"
  /\ payments' = payments
  /\ \A l \in OwnLines, v \in Variants : Keeps(l, v)
  /\ session'[c].step \in {"recalculating", "idle"}
  /\ session'[c].step = "idle" => past'.bulk \/ total' = SumOfLines(quantity')

LEMMA EditsAreRight ==
  ASSUME RowsOK', TotalRight, PaidOnce, StockRight, NEW c \in Sessions, Only(c), Edits(c)
  PROVE  TotalRight' /\ PaidOnce' /\ StockRight'
<1>1. \A d \in Sessions : session'[d].step # "idle" => d = c
  BY OnlySession
<1>2. TotalRight'
  <2>1. \A d \in Sessions : session'[d].step \notin {"validated", "totaling"}
    BY <1>1 DEF Edits
  <2>2. ~ past'.bulk /\ session'[c].step \notin {"recalculating", "totaling"} =>
          total' = SumOfLines(quantity')
    BY DEF Edits
  <2> QED BY <2>1, <2>2 DEF TotalRight
<1>3. PaidOnce'
  BY <1>1 DEF PaidOnce, Edits
<1>4. \A l \in OwnLines, v \in Variants : wh'[v].allocated[l] = Zero
  BY DEF StockRight, Edits, Keeps
<1>5. Empties
  BY <1>1, <1>4 DEF Empties, Edits
<1> QED BY <1>2, <1>3, <1>5, EmptyIsRight

LEMMA EditIsRight ==
  ASSUME IInv, RowsOK', Alone, ~ past.overlapped, TotalRight, PaidOnce, StockRight,
         NEW c \in Sessions, Only(c), EditLines(c)
  PROVE  TotalRight' /\ PaidOnce' /\ StockRight'
<1>1. CASE \/ \E v \in Variants : LinesCreate(c, v)
           \/ \E l \in OwnLines, n \in Quantities : LineUpdate(c, l, n)
           \/ \E l \in OwnLines : LineDelete(c, l)
           \/ \E ls \in SUBSET OwnLines : LinesBulkDelete(c, ls)
  <2>1. PICK m : Begin(c, m) /\ m.step \in {"adding", "saving", "removing"}
    <3>1. CASE \E v \in Variants : LinesCreate(c, v)
      BY <3>1 DEF LinesCreate
    <3>2. CASE \E l \in OwnLines, n \in Quantities : LineUpdate(c, l, n)
      BY <3>2 DEF LineUpdate
    <3>3. CASE \E l \in OwnLines : LineDelete(c, l)
      BY <3>3 DEF LineDelete
    <3>4. CASE \E ls \in SUBSET OwnLines : LinesBulkDelete(c, ls)
      BY <3>4 DEF LinesBulkDelete
    <3> QED BY <1>1, <3>1, <3>2, <3>3, <3>4
  <2>2. session'[c] = m /\ session[c].step = "idle"
    BY <2>1, After
  <2>3. Recalls(c)
    BY <2>1, <2>2 DEF Begin, Remember, Step, Recalls, Items
  <2> QED BY <2>3, RecallsIsRight
<1>2. CASE AddRead(c)
  <2> DEFINE create == [step |-> "creating", variant |-> session[c].variant]
             save(l) == [step |-> "saving", line |-> l, quantity |-> quantity[l] + 1]
  <2>1. /\ UNCHANGED <<status, lines, gone, quantity, total, payments, wh>>
        /\ session[c].step = "adding"
        /\ Finish(c) \/ Remember(c, create) \/ \E l \in OwnLines : Remember(c, save(l))
    BY <1>2 DEF AddRead, Items
  <2>2. create.step = "creating" /\ \A l : save(l).step = "saving"
    OBVIOUS
  <2> HIDE DEF create, save
  <2>3. session'[c].step \in {"idle", "creating", "saving"}
    BY <2>1, <2>2, After
  <2>4. past'.bulk = past.bulk /\ past'.placed = past.placed
    BY <2>1 DEF Finish, Remember, Step
  <2>5. Recalls(c)
    BY <2>1, <2>3, <2>4 DEF Recalls, Items
  <2> QED BY <2>5, RecallsIsRight
<1>3. CASE AddLineToNothing(c) \/ SaveNoRow(c)
  <2>1. Quit(c) /\ session[c].step \in {"creating", "saving"}
    BY <1>3 DEF AddLineToNothing, SaveNoRow
  <2>2. session'[c].step = "idle"
    BY <2>1, After
  <2>3. Recalls(c)
    BY <2>1, <2>2 DEF Quit, Finish, Remember, Step, Recalls, Items
  <2> QED BY <2>3, RecallsIsRight
<1>4. CASE RecalculateRead(c)
  <2> DEFINE m == [step |-> "totaling", total |-> SumOfLines(quantity)]
  <2>1. Remember(c, m) /\ UNCHANGED <<status, Items, total, payments, wh>>
    BY <1>4 DEF RecalculateRead, Recalculated
  <2>2. m.step = "totaling" /\ m.total = SumOfLines(quantity)
    OBVIOUS
  <2> HIDE DEF m
  <2>3. session'[c] = m
    BY <2>1, After
  <2>4. Recalls(c)
    BY <2>1, <2>2, <2>3 DEF Remember, Step, Recalls
  <2> QED BY <2>4, RecallsIsRight
<1>5. CASE AddLine(c) \/ SaveQuantity(c) \/ RemoveLines(c) \/ RecalculateSave(c)
  <2>1. session[c].step \in EditSteps /\ status' = status /\ payments' = payments
    BY <1>5 DEF AddLine, SaveQuantity, RemoveLines, RecalculateSave, EditSteps
  <2>2. status = "draft"
    BY <2>1 DEF Alone
  <2>3. \A l \in OwnLines, v \in Variants : Keeps(l, v)
    <3>1. session[c].step # "placing"
      BY <1>5 DEF AddLine, SaveQuantity, RemoveLines, RecalculateSave
    <3> QED BY <3>1, OnlyReserveAdds DEF CompleteReserve
  <2>4. CASE AddLine(c) \/ SaveQuantity(c)
    <3>1. session'[c].step = "recalculating"
      BY <2>4, After DEF AddLine, SaveQuantity
    <3>2. Edits(c)
      BY <2>1, <2>2, <2>3, <3>1 DEF Edits
    <3> QED BY <3>2, EditsAreRight
  <2>5. CASE RemoveLines(c)
    <3>1. PICK b \in BOOLEAN : b = session[c].bulk
      BY <2>5, SessionFields DEF RemoveLines, IInv, RunsOK
    <3>2. Step(c, IF b THEN Idle ELSE [step |-> "recalculating"], past.bulk \/ b, past.placed)
      BY <2>5, <3>1 DEF RemoveLines
    <3>3. session'[c] = IF b THEN Idle ELSE [step |-> "recalculating"]
      BY <3>2, After
    <3>4. past'.bulk = (past.bulk \/ b)
      BY <3>2 DEF Step
    <3>5. /\ session'[c].step \in {"recalculating", "idle"}
          /\ session'[c].step = "idle" => past'.bulk
      BY <3>3, <3>4 DEF Idle
    <3>6. Edits(c)
      BY <2>1, <2>2, <2>3, <3>5 DEF Edits
    <3> QED BY <3>6, EditsAreRight
  <2>6. CASE RecalculateSave(c)
    <3>1. /\ session[c].step = "totaling" /\ quantity' = quantity
          /\ total' = session[c].total
          /\ Step(c, Idle, FALSE, past.placed)
      BY <2>2, <2>6 DEF RecalculateSave, Exists, Items
    <3>2. session'[c].step = "idle" /\ session[c].total = SumOfLines(quantity)
      BY <3>1, After DEF TotalRight
    <3>3. Edits(c)
      BY <2>1, <2>2, <2>3, <3>1, <3>2 DEF Edits
    <3> QED BY <3>3, EditsAreRight
  <2> QED BY <1>5, <2>4, <2>5, <2>6
<1> QED BY <1>1, <1>2, <1>3, <1>4, <1>5 DEF EditLines

LEMMA OtherIsRight ==
  ASSUME IInv, RowsOK', Alone, ~ past.overlapped, TotalRight, PaidOnce, StockRight,
         NEW c \in Sessions, Only(c), OtherMutation(c)
  PROVE  TotalRight' /\ PaidOnce' /\ StockRight'
<1>1. CASE UpdateCheck(c) \/ BulkDeleteCheck(c) \/ CancelCheck(c) \/ PayCheck(c)
  <2>1. PICK at \in {"reverting", "deleting", "canceling", "paying"} :
          /\ Begin(c, [step |-> at])
          /\ at = "canceling" => status = "unfulfilled"
          /\ at = "paying" => payments = 0
    BY <1>1 DEF UpdateCheck, BulkDeleteCheck, CancelCheck, PayCheck, CanCancel, CanMarkAsPaid, IInv,
                RowsOK, OrderStatus
  <2>2. session'[c].step = at /\ session[c].step = "idle"
    BY <2>1, After
  <2>3. Recalls(c)
    BY <2>1, <2>2 DEF Begin, Remember, Step, Recalls, Items
  <2> QED BY <2>3, RecallsIsRight
<1>2. CASE BulkDelete(c) /\ ~ DeleteOrder
  <2>1. /\ UNCHANGED <<status, Items, total, payments, wh>>
        /\ session[c].step = "deleting" /\ Finish(c)
    BY <1>2 DEF BulkDelete
  <2>2. session'[c].step = "idle"
    BY <2>1, After
  <2>3. Recalls(c)
    BY <2>1, <2>2 DEF Finish, Remember, Step, Recalls
  <2> QED BY <2>3, RecallsIsRight
<1>3. CASE UpdateSave(c)
  <2>1. /\ session[c].step = "reverting" /\ status' = "draft" /\ total' = SumOfLines(quantity)
        /\ Step(c, Idle, FALSE, past.placed)
        /\ UNCHANGED <<lines, gone, quantity, payments, wh>>
    BY <1>3 DEF UpdateSave, Items
  <2>2. status = "draft"
    BY <2>1 DEF Alone, EditSteps
  <2>3. session'[c].step = "idle"
    BY <2>1, After
  <2>4. Edits(c)
    BY <2>1, <2>2, <2>3 DEF Edits, Keeps
  <2> QED BY <2>4, EditsAreRight
<1>4. ASSUME Finish(c) PROVE \A d \in Sessions : session'[d].step = "idle"
  BY <1>4, After DEF Only, Idle
<1>5. ASSUME Finish(c) PROVE past'.bulk = past.bulk /\ past'.placed = past.placed
  BY <1>5 DEF Finish, Remember, Step
<1>6. CASE DeleteOrder /\ (DraftOrderDelete(c) \/ BulkDelete(c))
  <2>1. status' = "deleted" /\ payments' = payments /\ DeleteLines(lines) /\ Finish(c)
    BY <1>6 DEF DeleteOrder, DraftOrderDelete, BulkDelete
  <2>2. \A l \in OwnLines, v \in Variants : wh'[v].allocated[l] = Zero
    BY <2>1 DEF RowsOK, Exists
  <2>3. Empties
    BY <1>4, <2>1, <2>2 DEF Empties
  <2>4. TotalRight'
    BY <1>4, <2>1 DEF TotalRight, Exists
  <2>5. PaidOnce'
    BY <1>4, <2>1 DEF PaidOnce
  <2> QED BY <2>3, <2>4, <2>5, EmptyIsRight
<1>7. CASE Cancel(c)
  <2>1. /\ UNCHANGED <<lines, gone, quantity, total, payments>>
        /\ session[c].step = "canceling" /\ Finish(c)
    BY <1>7 DEF Cancel, Items
  <2>2. past.placed # 0
    BY <2>1 DEF StockRight
  <2>3. CASE ~ Exists
    <3>1. UNCHANGED <<status, wh>>
      BY <1>7, <2>3 DEF Cancel
    <3>2. session'[c].step = "idle"
      BY <1>4, <2>1
    <3>3. Recalls(c)
      BY <1>5, <2>1, <3>1, <3>2 DEF Recalls, Items
    <3> QED BY <3>3, RecallsIsRight
  <2>4. CASE Exists
    <3>1. status' = "canceled" /\ wh' = [v \in Variants |-> OrderDeallocated(wh[v], lines)]
      BY <1>7, <2>4 DEF Cancel
    <3>2. ASSUME NEW l \in OwnLines, NEW v \in Variants PROVE wh'[v].allocated[l] = Zero
      <4>1. wh'[v].allocated[l] = IF l \in lines THEN Zero ELSE wh[v].allocated[l]
        BY <3>1, Numbers DEF OrderDeallocated, Tables, Zero, OwnLines
      <4> QED BY <4>1 DEF IInv, RowsOK
    <3>3. Empties
      BY <1>4, <1>5, <2>1, <2>2, <3>2 DEF Empties
    <3>4. \A d \in Sessions : session[d].step \notin {"recalculating", "totaling"}
      BY <2>1 DEF Only, Idle
    <3>5. TotalRight'
      BY <1>4, <1>5, <2>1, <2>4, <3>4 DEF TotalRight
    <3>6. PaidOnce'
      BY <1>4, <2>1 DEF PaidOnce
    <3> QED BY <3>3, <3>5, <3>6, EmptyIsRight
  <2> QED BY <2>3, <2>4
<1>8. CASE Pay(c)
  <2>1. /\ UNCHANGED <<status, lines, gone, quantity, total, wh>>
        /\ session[c].step = "paying" /\ Finish(c)
        /\ payments' \in {payments, payments + 1}
    BY <1>8 DEF Pay, Items
  <2>2. payments' <= 1
    BY <2>1 DEF PaidOnce
  <2>3. PaidOnce'
    BY <1>4, <2>1, <2>2 DEF PaidOnce
  <2>4. TotalRight'
    <3>1. \A d \in Sessions : session[d].step \notin {"recalculating", "totaling"}
      BY <2>1 DEF Only, Idle
    <3>2. Exists' = Exists
      BY <2>1 DEF Exists
    <3> QED BY <1>4, <1>5, <2>1, <3>1, <3>2 DEF TotalRight
  <2>5. StockRight'
    <3>1. \A l : Reserved(l)' = Reserved(l)
      BY <2>1 DEF Reserved
    <3>2. AllOrNothing => AllOrNothing'
      BY <2>1, <3>1 DEF AllOrNothing, TrackedLines
    <3>3. PlacingRight'
      BY <1>4, <2>1 DEF PlacingRight
    <3> QED BY <1>4, <1>5, <2>1, <3>2, <3>3 DEF StockRight
  <2> QED BY <2>3, <2>4, <2>5
<1>9. DraftOrderDelete(c) => DeleteOrder
  BY DEF DraftOrderDelete
<1> QED BY <1>1, <1>2, <1>3, <1>6, <1>7, <1>8, <1>9 DEF OtherMutation

\* Another order's reservation touches none of this one.
LEMMA SellIsRight ==
  ASSUME IInv, TotalRight, PaidOnce, StockRight, NEW u \in Variants, Sell(u)
  PROVE  TotalRight' /\ PaidOnce' /\ StockRight'
<1>1. UNCHANGED <<status, lines, gone, quantity, total, payments, session, past>>
  BY DEF Sell, Items
<1>2. \A l \in OwnLines, v \in Variants : wh'[v].allocated[l] = wh[v].allocated[l]
  BY SellLeaves DEF IInv
<1>3. ASSUME NEW l \in OwnLines
      PROVE  /\ Reserved(l)' = Reserved(l)
             /\ wh'[VariantOf[l]].allocated[l] = wh[VariantOf[l]].allocated[l]
  <2>1. VariantOf[l] \in Variants
    BY Numbers DEF OwnLines
  <2>2. wh'[VariantOf[l]].allocated[l] = wh[VariantOf[l]].allocated[l]
    BY <1>2, <2>1
  <2> QED BY <2>2 DEF Reserved, LineTotal
<1>4. TrackedLines' = TrackedLines /\ TrackedLines \in SUBSET OwnLines
  BY <1>1 DEF TrackedLines, IInv, RowsOK
<1>5. TotalRight' /\ PaidOnce'
  BY <1>1 DEF TotalRight, PaidOnce, Exists
<1>6. AllOrNothing => AllOrNothing'
  BY <1>1, <1>3, <1>4 DEF AllOrNothing
<1>7. PlacingRight => PlacingRight'
  <2> SUFFICES ASSUME PlacingRight, NEW d \in Sessions, session[d].step = "placing"
               PROVE  /\ session[d].want = quantity'
                      /\ session[d].todo \subseteq TrackedLines'
                      /\ \A l \in session[d].todo : wh'[VariantOf[l]].allocated[l] = Zero
                      /\ \A k \in TrackedLines' \ session[d].todo :
                           /\ Reserved(k)' = quantity'[k]
                           /\ \A l \in session[d].todo : k < l
    BY <1>1 DEF PlacingRight
  <2> QED BY <1>1, <1>3, <1>4 DEF PlacingRight
<1> QED BY <1>1, <1>2, <1>5, <1>6, <1>7 DEF StockRight

LEMMA NextKeepsSerial ==
  ASSUME IInv, RowsOK', Alone, Serial, [Next]_vars
  PROVE  Serial'
<1> SUFFICES ASSUME ~ past'.overlapped PROVE TotalRight' /\ PaidOnce' /\ StockRight'
  BY DEF Serial
<1>1. CASE UNCHANGED vars
  <2>1. \A l : Reserved(l)' = Reserved(l)
    BY <1>1 DEF vars, Reserved
  <2>2. AllOrNothing => AllOrNothing'
    BY <1>1, <2>1 DEF vars, AllOrNothing, TrackedLines
  <2>3. PlacingRight => PlacingRight'
    BY <1>1, <2>1 DEF vars, PlacingRight, TrackedLines
  <2>4. TotalRight /\ PaidOnce /\ StockRight
    BY <1>1 DEF vars, Serial
  <2>5. TotalRight' /\ PaidOnce'
    BY <1>1, <2>4 DEF vars, TotalRight, PaidOnce, Exists
  <2>6. StockRight'
    BY <1>1, <2>2, <2>3, <2>4 DEF vars, StockRight
  <2> QED BY <2>5, <2>6
<1>2. ASSUME NEW c \in Sessions, DraftOrderComplete(c) \/ EditLines(c) \/ OtherMutation(c)
      PROVE  TotalRight' /\ PaidOnce' /\ StockRight'
  <2>1. Takes(c)
    BY <1>2, CompleteTakes, EditTakes, OtherTakes
  <2>2. ~ past.overlapped /\ Only(c)
    BY <2>1, StepAlone DEF Only
  <2>3. TotalRight /\ PaidOnce /\ StockRight
    BY <2>2 DEF Serial
  <2> QED BY <1>2, <2>2, <2>3, CompleteIsRight, EditIsRight, OtherIsRight
<1>3. ASSUME NEW u \in Variants, Sell(u) PROVE TotalRight' /\ PaidOnce' /\ StockRight'
  <2>1. past' = past
    BY <1>3 DEF Sell
  <2>2. TotalRight /\ PaidOnce /\ StockRight
    BY <2>1 DEF Serial
  <2> QED BY <1>3, <2>2, SellIsRight
<1> QED BY <1>1, <1>2, <1>3 DEF Next, OtherMutation

\* As long as mutations come one after another, an order holds, of its first lines
\* up to the one that failed, exactly what they say, nothing before it is placed and
\* nothing after it is canceled; it is paid once, and its total is that of its lines.
THEOREM BooksAreKept == Spec => []SerialBooks
<1>1. Init => Serial
  <2> SUFFICES ASSUME Init PROVE TotalRight /\ PaidOnce /\ StockRight
    BY DEF Serial
  <2>1. RowsOK
    BY InitIInv DEF IInv
  <2>2. \A v \in Variants, l \in Line : wh[v].allocated[l] = Zero
    BY DEF Init, Unreserved, Tables, Zero
  <2>3. \A l \in OwnLines : Reserved(l) = 0
    BY <2>2, NothingReserved DEF OwnLines
  <2>4. \A c \in Sessions : session[c].step = "idle"
    BY DEF Init, Idle
  <2>5. TotalRight /\ PaidOnce
    BY <2>4 DEF Init, TotalRight, PaidOnce
  <2>6. AllOrNothing
    BY <2>1, <2>3 DEF AllOrNothing, TrackedLines, RowsOK
  <2>7. PlacingRight
    BY <2>4 DEF PlacingRight
  <2>8. StockRight
    BY <2>2, <2>4, <2>6, <2>7 DEF Init, StockRight, OwnLines
  <2> QED BY <2>5, <2>8
<1>2. IInv /\ Alone /\ Serial /\ [Next]_vars => Serial'
  BY NextKeepsRows, NextKeepsSerial
<1>3. ASSUME Serial, RowsOK PROVE SerialBooks
  <2> SUFFICES ASSUME Quiet, ~ past.overlapped PROVE SerialBooks
    BY DEF SerialBooks
  <2>1. \A c \in Sessions : session[c].step = "idle"
    BY DEF Quiet, Idle
  <2>2. TotalRight /\ PaidOnce /\ StockRight
    BY <1>3 DEF Serial
  <2>3. Exists /\ ~ past.bulk => total = SumOfLines(quantity)
    BY <2>1, <2>2 DEF TotalRight
  <2>4. status # "unfulfilled" => \A l \in OwnLines : Reserved(l) = 0
    BY <2>2, NothingReserved DEF StockRight
  <2>5. past.placed <= 1 => AllOrNothing
    BY <2>2 DEF StockRight
  <2> QED BY <2>2, <2>3, <2>4, <2>5 DEF SerialBooks, AllOrNothing, PaidOnce
<1> QED BY <1>1, <1>2, <1>3, AloneInvariance, PTL DEF Spec, IInv
=============================================================================
