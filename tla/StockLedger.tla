----------------------------- MODULE StockLedger -----------------------------
(***************************************************************************)
(* What the warehouse promises a shop: a ledger of goods on hand and goods *)
(* promised to order lines, with no stocks, rows or sessions in it.  Goods *)
(* are promised only while there are goods nobody was promised, and leave  *)
(* only as far as what stays covers the promises that remain.  Somebody    *)
(* who counts the goods by hand may leave fewer than were promised; until  *)
(* the promises are covered again the ledger says nothing of the total.    *)
(***************************************************************************)
EXTENDS Integers, Sums

CONSTANTS NumLines, Orders, Quantities, InitialOnHand

Line == 1 .. NumLines

VARIABLES onHand,    \* goods in all warehouses
          reserved,  \* goods promised to each order line
          covered    \* no promise is on goods a count by hand took away

ledger == <<onHand, reserved, covered>>

Promised(r) == SumTo(r, NumLines)
Less(m, n) == IF m > n THEN m - n ELSE 0

Init ==
  /\ onHand = InitialOnHand
  /\ reserved = [l \in Line |-> 0]
  /\ covered = TRUE

\* A request never leaves a promise uncovered that was covered.
StaysCovered ==
  /\ covered' \in BOOLEAN
  /\ covered => covered' /\ Promised(reserved') <= onHand'

Reserve(l, n) ==
  /\ reserved' = [reserved EXCEPT ![l] = @ + n]
  /\ UNCHANGED onHand

Release(l, n) ==
  /\ n <= reserved[l]
  /\ reserved' = [reserved EXCEPT ![l] = @ - n]
  /\ UNCHANGED onHand

CancelOrder(lines) ==
  /\ reserved' = [l \in Line |-> IF l \in lines THEN 0 ELSE reserved[l]]
  /\ UNCHANGED onHand

\* Goods come back, and may be promised to the same line again.
Return(l, n, again) ==
  /\ onHand' = onHand + n
  /\ reserved' = [reserved EXCEPT ![l] = IF again THEN @ + n ELSE @]

Ship(l, n) ==
  /\ onHand' = onHand - n
  /\ reserved' = [reserved EXCEPT ![l] = Less(@, n)]

Request ==
  /\ \/ \E l \in Line, n \in Quantities : Reserve(l, n) \/ Release(l, n) \/ Ship(l, n)
     \/ \E l \in Line, n \in Quantities, again \in BOOLEAN : Return(l, n, again)
     \/ \E lines \in Orders : CancelOrder(lines)
  /\ StaysCovered

\* Goods are counted by hand, or a warehouse goes with what was promised on it.
Recount ==
  /\ onHand' \in Nat
  /\ reserved' \in [Line -> Nat]
  /\ \A l \in Line : reserved'[l] <= reserved[l]
  /\ covered' \in BOOLEAN

Next == Request \/ Recount

Spec == Init /\ [][Next]_ledger
=============================================================================
