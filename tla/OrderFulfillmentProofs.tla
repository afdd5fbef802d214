------------------------ MODULE OrderFulfillmentProofs ------------------------
(***************************************************************************)
(* Theorems of OrderFulfillment, for any order, stocks, requests and number *)
(* of sessions.                                                            *)
(***************************************************************************)
EXTENDS OrderFulfillment, WarehouseProofs

\* Two tables of n integers that differ at j only.
DifferOnce(n, f, h, j) ==
  /\ n \in Nat
  /\ j \in 1 .. n
  /\ \A i \in 1 .. n : f[i] \in Int /\ h[i] \in Int
  /\ \A i \in 1 .. n : i # j => h[i] = f[i]

LEMMA SumDifferOnce ==
  ASSUME NEW n, NEW f, NEW h, NEW j, DifferOnce(n, f, h, j)
  PROVE  SumTo(h, n) = SumTo(f, n) + h[j] - f[j]
<1>1. n \in Nat /\ j \in 1 .. n
  BY DEF DifferOnce
<1>2. \A i \in 1 .. n : f[i] \in Int /\ h[i] \in Int
  BY DEF DifferOnce
<1>3. \A i \in 1 .. n : i # j => h[i] = f[i]
  BY DEF DifferOnce
<1> QED BY <1>1, <1>2, <1>3, SumToChangeOne

USE SizesAssumption, OrderAssumption DEF SizesAssumption, OrderAssumption

Request == [Stock -> [Line -> Nat]]
Fulfillment == [canceled : BOOLEAN, lines : [Line -> Nat]]

-----------------------------------------------------------------------------
(* The loops over the warehouses of a request.                             *)

\* ShippedUpTo, of a table given.
ShipFrom(x, request, l) ==
  CHOOSE g : g = [w \in 0 .. NumStocks |->
        IF w = 0 THEN x
        ELSE IF request[w][l] = 0 THEN g[w - 1]
        ELSE Decreased(g[w - 1], l, request[w][l], w)]

CanShipFrom(x, request, l) ==
  \A w \in Stock : request[w][l] > 0 =>
    /\ w \in x.stocks
    /\ l \in Tracked => CanDecrease(ShipFrom(x, request, l)[w - 1], l, request[w][l], w)

LEMMA ShipsFromItsTable ==
  ASSUME NEW request, NEW l
  PROVE  /\ ShippedUpTo(request, l) = ShipFrom(wh[l], request, l)
         /\ CanShip(request, l) <=> CanShipFrom(wh[l], request, l)
<1>1. ShippedUpTo(request, l) = ShipFrom(wh[l], request, l)
  BY DEF ShippedUpTo, ShipFrom
<1> QED BY <1>1 DEF CanShip, CanShipFrom

\* The recursion has a solution, one warehouse after another.
LEMMA ShipFromDef ==
  ASSUME NEW x, NEW request, NEW l
  PROVE  LET g == ShipFrom(x, request, l)
         IN  /\ g[0] = x
             /\ \A w \in Stock :
                  g[w] = IF request[w][l] = 0 THEN g[w - 1]
                         ELSE Decreased(g[w - 1], l, request[w][l], w)
<1> DEFINE Next1(y, w) == IF request[w][l] = 0 THEN y ELSE Decreased(y, l, request[w][l], w)
           Lists(g, n) == g = [w \in 0 .. n |-> IF w = 0 THEN x ELSE Next1(g[w - 1], w)]
           T == {n \in Nat : \E g : Lists(g, n)}
<1> HIDE DEF Next1
<1>1. 0 \in T
  <2> DEFINE z == [w \in 0 .. 0 |-> x]
  <2>1. Lists(z, 0)
    OBVIOUS
  <2> HIDE DEF z, Lists
  <2> QED BY <2>1
<1>2. ASSUME NEW n \in Nat, n \in T PROVE n + 1 \in T
  <2>1. PICK g : Lists(g, n)
    BY <1>2
  <2> DEFINE h == [w \in 0 .. n + 1 |-> IF w = n + 1 THEN Next1(g[n], n + 1) ELSE g[w]]
  <2>2. ASSUME NEW w \in 0 .. n + 1
        PROVE  h[w] = IF w = 0 THEN x ELSE Next1(h[w - 1], w)
    BY <2>1
  <2>3. Lists(h, n + 1)
    BY <2>2
  <2> HIDE DEF h, Lists
  <2> QED BY <2>3
<1>3. Nat \subseteq T
  <2> HIDE DEF T
  <2> QED BY <1>1, <1>2, NatSetInduction
<1>4. \E g : Lists(g, NumStocks)
  BY <1>3
<1>5. ShipFrom(x, request, l) = CHOOSE g : Lists(g, NumStocks)
  BY DEF ShipFrom, Next1
<1>6. Lists(ShipFrom(x, request, l), NumStocks)
  <2> HIDE DEF Lists
  <2> QED BY <1>4, <1>5
<1> QED BY <1>6 DEF Next1, Stock

LEMMA AddedDef ==
  ASSUME NEW request
  PROVE  LET g == AddedUpTo(request)
         IN  /\ g[0] = <<>>
             /\ \A w \in Stock :
                  g[w] = IF \A l \in Line : request[w][l] = 0 THEN g[w - 1]
                         ELSE Append(g[w - 1], [canceled |-> FALSE, lines |-> request[w]])
<1> DEFINE Next1(y, w) == IF \A l \in Line : request[w][l] = 0 THEN y
                          ELSE Append(y, [canceled |-> FALSE, lines |-> request[w]])
           Lists(g, n) == g = [w \in 0 .. n |-> IF w = 0 THEN <<>> ELSE Next1(g[w - 1], w)]
           T == {n \in Nat : \E g : Lists(g, n)}
<1> HIDE DEF Next1
<1>1. 0 \in T
  <2> DEFINE z == [w \in 0 .. 0 |-> <<>>]
  <2>1. Lists(z, 0)
    OBVIOUS
  <2> HIDE DEF z, Lists
  <2> QED BY <2>1
<1>2. ASSUME NEW n \in Nat, n \in T PROVE n + 1 \in T
  <2>1. PICK g : Lists(g, n)
    BY <1>2
  <2> DEFINE h == [w \in 0 .. n + 1 |-> IF w = n + 1 THEN Next1(g[n], n + 1) ELSE g[w]]
  <2>2. ASSUME NEW w \in 0 .. n + 1
        PROVE  h[w] = IF w = 0 THEN <<>> ELSE Next1(h[w - 1], w)
    BY <2>1
  <2>3. Lists(h, n + 1)
    BY <2>2
  <2> HIDE DEF h, Lists
  <2> QED BY <2>3
<1>3. Nat \subseteq T
  <2> HIDE DEF T
  <2> QED BY <1>1, <1>2, NatSetInduction
<1>4. \E g : Lists(g, NumStocks)
  BY <1>3
<1>5. AddedUpTo(request) = CHOOSE g : Lists(g, NumStocks)
  BY DEF AddedUpTo, Next1
<1>6. Lists(AddedUpTo(request), NumStocks)
  <2> HIDE DEF Lists
  <2> QED BY <1>4, <1>5
<1>7. AddedUpTo(request)[0] = <<>>
  BY <1>6
<1>8. ASSUME NEW w \in Stock PROVE AddedUpTo(request)[w] = Next1(AddedUpTo(request)[w - 1], w)
  BY <1>6 DEF Stock
<1> QED BY <1>7, <1>8 DEF Next1

\* Induction over the warehouses.
LEMMA StockInduction ==
  ASSUME NEW T, 0 \in T, \A w \in Stock : w - 1 \in T => w \in T
  PROVE  \A w \in 0 .. NumStocks : w \in T
<1> DEFINE U == {n \in Nat : n <= NumStocks => n \in T}
<1>1. 0 \in U
  OBVIOUS
<1>2. ASSUME NEW n \in Nat, n \in U PROVE n + 1 \in U
  BY <1>2 DEF Stock
<1>3. Nat \subseteq U
  <2> HIDE DEF U
  <2> QED BY <1>1, <1>2, NatSetInduction
<1> QED BY <1>3

\* What shipping does to the tables of a line's variant.
LEMMA ShipEffect ==
  ASSUME NEW x \in WarehouseState, \A s \in Stock : Headroom(x, s) >= 0,
         NEW request \in Request, NEW l \in Tracked, CanShipFrom(x, request, l)
  PROVE  \A w \in 0 .. NumStocks :
           LET y == ShipFrom(x, request, l)[w]
           IN  /\ y \in WarehouseState
               /\ \A s \in Stock : Headroom(y, s) >= 0
<1> DEFINE g == ShipFrom(x, request, l)
           T == {w \in 0 .. NumStocks : /\ g[w] \in WarehouseState
                                        /\ \A s \in Stock : Headroom(g[w], s) >= 0}
<1>1. g[0] = x /\ \A w \in Stock : g[w] = IF request[w][l] = 0 THEN g[w - 1]
                                          ELSE Decreased(g[w - 1], l, request[w][l], w)
  BY ShipFromDef
<1>2. \A w \in Stock : request[w][l] > 0 => CanDecrease(g[w - 1], l, request[w][l], w)
  BY DEF CanShipFrom
<1> HIDE DEF g
<1>3. 0 \in T
  BY <1>1
<1>4. ASSUME NEW w \in Stock, w - 1 \in T PROVE w \in T
  <2>1. w \in 0 .. NumStocks /\ request[w][l] \in Nat /\ l \in Line
    BY DEF Stock, Request
  <2>2. CASE request[w][l] = 0
    BY <1>1, <1>4, <2>1, <2>2
  <2>3. CASE request[w][l] # 0
    <3>1. g[w - 1] \in WarehouseState /\ CanDecrease(g[w - 1], l, request[w][l], w)
      BY <1>2, <1>4, <2>1, <2>3
    <3> DEFINE z == g[w - 1]
               y == Decreased(z, l, request[w][l], w)
    <3>2. /\ y \in WarehouseState
          /\ Headroom(y, w) >= 0
          /\ \A s \in Stock : s # w => Headroom(y, s) >= Headroom(z, s)
      BY <2>1, <3>1, DecreasedEffect
    <3>3. \A s \in Stock : Headroom(z, s) >= 0
      BY <1>4
    <3>4. \A s \in Stock : Headroom(y, s) \in Int /\ Headroom(z, s) \in Int
      <4>1. y \in WarehouseState /\ z \in WarehouseState
        BY <3>1, <3>2
      <4> HIDE DEF y, z
      <4>2. \A s \in Stock : /\ Total(y, s) \in Nat /\ Total(z, s) \in Nat
                             /\ y.quantity[s] \in Nat /\ z.quantity[s] \in Nat
        BY <4>1, TotalsNat DEF WarehouseState
      <4> QED BY <4>2 DEF Headroom
    <3>5. g[w] = y
      BY <1>1, <2>3
    <3> HIDE DEF y, z
    <3>6. \A s \in Stock : Headroom(y, s) >= 0
      BY <3>2, <3>3, <3>4
    <3> QED BY <2>1, <3>2, <3>5, <3>6
  <2> QED BY <2>2, <2>3
<1>5. \A w \in 0 .. NumStocks : w \in T
  <2> HIDE DEF T
  <2> QED BY <1>3, <1>4, StockInduction
<1> QED BY <1>5 DEF g

\* The new fulfillments.
LEMMA NewFulfillmentsType ==
  ASSUME NEW request \in Request
  PROVE  NewFulfillments(request) \in Seq(Fulfillment)
<1> DEFINE g == AddedUpTo(request)
           T == {w \in 0 .. NumStocks : g[w] \in Seq(Fulfillment)}
<1>1. g[0] = <<>> /\ \A w \in Stock :
        g[w] = IF \A l \in Line : request[w][l] = 0 THEN g[w - 1]
               ELSE Append(g[w - 1], [canceled |-> FALSE, lines |-> request[w]])
  BY AddedDef
<1> HIDE DEF g
<1>2. 0 \in T
  <2>1. <<>> \in Seq(Fulfillment)
    OBVIOUS
  <2>2. 0 \in 0 .. NumStocks /\ g[0] \in Seq(Fulfillment)
    BY <1>1, <2>1
  <2> QED BY <2>2
<1>3. ASSUME NEW w \in Stock, w - 1 \in T PROVE w \in T
  <2>1. w \in 0 .. NumStocks /\ g[w - 1] \in Seq(Fulfillment)
    BY <1>3 DEF Stock
  <2>2. [canceled |-> FALSE, lines |-> request[w]] \in Fulfillment
    BY DEF Fulfillment, Request
  <2>3. Append(g[w - 1], [canceled |-> FALSE, lines |-> request[w]]) \in Seq(Fulfillment)
    BY <2>1, <2>2
  <2> QED BY <1>1, <2>1, <2>3
<1>4. \A w \in 0 .. NumStocks : w \in T
  <2> HIDE DEF T
  <2> QED BY <1>2, <1>3, StockInduction
<1> QED BY <1>4 DEF g, NewFulfillments

-----------------------------------------------------------------------------
(* The inductive invariant.                                                *)

\* The tables, and that no stock has more reserved than it holds.
RowsOK ==
  /\ wh \in [Line -> WarehouseState]
  /\ fulfilled \in [Line -> Int]
  /\ fulfillments \in Seq(Fulfillment)
  /\ status \in OrderStatus
  /\ overlapped \in BOOLEAN
  /\ \A l \in Line, s \in Stock : Headroom(wh[l], s) >= 0

\* What a session remembers of tables x and fulfillments ff that its row locks,
\* or the keys of what is never deleted, keep true until it uses it.
Remembers(m, ff, x) ==
  /\ m.step \in {"checked", "locked", "restocking"} => m.target \in DOMAIN ff
  /\ m.step = "fulfilling" =>
       /\ m.lines = LinesOf(m.request)
       /\ \A l \in m.lines : CanShipFrom(x[l], m.request, l)
  /\ m.step = "restocking" => m.lines = {l \in Line : ff[m.target].lines[l] > 0}

\* Two transactions never hold locks on the same line.
Apart(m, n) ==
  m.step \in InTransaction /\ n.step \in InTransaction => m.lines \cap n.lines = {}

MemoryOK ==
  /\ session \in [Sessions -> Session]
  /\ \A c \in Sessions : Remembers(session[c], fulfillments, wh)
  /\ \A c, d \in Sessions : c # d => Apart(session[c], session[d])

IInv == RowsOK /\ MemoryOK

\* What a session remembers, by the step it is at.
LEMMA SessionFields ==
  ASSUME NEW m \in Session
  PROVE  /\ m.step \in {"cleaned", "fulfilling"} => m.request \in Requests
         /\ m.step \in {"cleaned", "fulfilling", "locked", "restocking"} => m.seen \in [Line -> Int]
         /\ m.step \in {"fulfilling", "restocking"} => m.order \in OrderStatus /\ m.next \in OrderStatus
         /\ m.step \in InTransaction => m.lines \in SUBSET Line
         /\ m.step \in {"checked", "locked", "restocking"} => m.target \in Nat /\ m.warehouse \in Stock
         /\ m.step \in {"idle", "approved", "cleaned", "fulfilling", "checked", "locked",
                        "restocking", "canceling"}
BY DEF Session, InTransaction

LEMMA WantedNat ==
  ASSUME NEW request \in Request, NEW l \in Line
  PROVE  Wanted(request, l) \in Nat
<1> DEFINE f == [w \in Stock |-> request[w][l]]
<1>1. \A w \in 1 .. NumStocks : f[w] \in Nat
  BY DEF Stock, Request
<1> HIDE DEF f
<1>2. SumTo(f, NumStocks) \in Nat
  BY <1>1, SumToNat
<1> QED BY <1>2 DEF Wanted, f

LEMMA StatusOfType == ASSUME NEW f PROVE StatusOf(f) \in OrderStatus
BY DEF StatusOf, OrderStatus

\* A session takes a step: the others remember what still holds, as long as the
\* step changes nothing they have locked and no fulfillment's lines.
LEMMA MemoryStep ==
  ASSUME MemoryOK, NEW c \in Sessions, NEW m \in Session,
         session' = [session EXCEPT ![c] = m],
         Remembers(m, fulfillments', wh'),
         \A d \in Sessions : d # c => Apart(m, session[d]),
         \A d \in Sessions : d # c /\ session[d].step = "fulfilling" =>
           \A l \in session[d].lines : wh'[l] = wh[l],
         \A f \in DOMAIN fulfillments :
           f \in DOMAIN fulfillments' /\ fulfillments'[f].lines = fulfillments[f].lines
  PROVE  MemoryOK'
<1>1. session' \in [Sessions -> Session]
  BY DEF MemoryOK
<1>2. session'[c] = m /\ \A d \in Sessions : d # c => session'[d] = session[d]
  BY DEF MemoryOK
<1>3. ASSUME NEW d \in Sessions PROVE Remembers(session'[d], fulfillments', wh')
  <2>1. CASE d = c
    BY <1>2, <2>1
  <2>2. CASE d # c
    <3> DEFINE n == session[d]
    <3>1. Remembers(n, fulfillments, wh) /\ n = session'[d]
      BY <1>2, <2>2 DEF MemoryOK
    <3>2. n.step = "fulfilling" => \A l \in n.lines : wh'[l] = wh[l]
      BY <2>2
    <3> HIDE DEF n
    <3>3. Remembers(n, fulfillments', wh')
      BY <3>1, <3>2 DEF Remembers
    <3> QED BY <3>1, <3>3
  <2> QED BY <2>1, <2>2
<1>4. ASSUME NEW d \in Sessions, NEW e \in Sessions, d # e PROVE Apart(session'[d], session'[e])
  <2>1. d = c \/ e = c \/ (d # c /\ e # c)
    OBVIOUS
  <2>2. ASSUME NEW p \in Sessions, p # c PROVE Apart(m, session[p]) /\ Apart(session[p], m)
    BY <2>2 DEF Apart
  <2> QED BY <1>2, <1>4, <2>1, <2>2 DEF MemoryOK
<1> QED BY <1>1, <1>3, <1>4 DEF MemoryOK

\* A session whose step changes no rows.
LEMMA QuietStep ==
  ASSUME IInv, NEW c \in Sessions, NEW m \in Session,
         session' = [session EXCEPT ![c] = m],
         Remembers(m, fulfillments, wh),
         m.step \in InTransaction =>
           \A d \in Sessions \ {c} : session[d].step \in InTransaction => session[d].lines \cap m.lines = {},
         overlapped' \in BOOLEAN,
         UNCHANGED <<wh, fulfilled, fulfillments, status>>
  PROVE  IInv'
<1>1. RowsOK'
  BY DEF IInv, RowsOK
<1>2. \A d \in Sessions : d # c => Apart(m, session[d])
  BY DEF Apart
<1>3. MemoryOK'
  BY <1>2, MemoryStep DEF IInv
<1> QED BY <1>1, <1>3 DEF IInv

\* The steps that only read, and those that take locks.
LEMMA QuietKeeps ==
  ASSUME IInv, NEW c \in Sessions, overlapped' \in BOOLEAN,
         \/ \E request \in Requests : FulfillClean(c, request)
         \/ FulfillRefuse(c)
         \/ \E f \in DOMAIN fulfillments, w \in Stock : RestockCheck(c, f, w)
         \/ RestockLock(c)
         \/ CancelCheck(c)
  PROVE  IInv'
<1>1. /\ session[c] \in Session
      /\ Remembers(session[c], fulfillments, wh)
      /\ fulfilled \in [Line -> Int]
      /\ status \in OrderStatus
      /\ fulfillments \in Seq(Fulfillment)
  BY DEF IInv, RowsOK, MemoryOK
<1>2. ASSUME NEW request \in Requests, FulfillClean(c, request) PROVE IInv'
  <2> DEFINE m == [step |-> "cleaned", request |-> request, seen |-> fulfilled, order |-> status]
  <2>1. m \in Session /\ m.step = "cleaned"
    BY <1>1 DEF Session
  <2>2. session' = [session EXCEPT ![c] = m] /\ UNCHANGED <<wh, fulfilled, fulfillments, status>>
    BY <1>2 DEF FulfillClean
  <2> HIDE DEF m
  <2>3. Remembers(m, fulfillments, wh) /\ m.step \notin InTransaction
    BY <2>1 DEF Remembers, InTransaction
  <2> QED BY <2>1, <2>2, <2>3, QuietStep
<1>3. CASE FulfillRefuse(c)
  <2>1. Idle \in Session /\ Idle.step = "idle"
    BY DEF Idle, Session
  <2>2. session' = [session EXCEPT ![c] = Idle] /\ UNCHANGED <<wh, fulfilled, fulfillments, status>>
    BY <1>3 DEF FulfillRefuse
  <2>3. Remembers(Idle, fulfillments, wh) /\ Idle.step \notin InTransaction
    BY <2>1 DEF Remembers, InTransaction
  <2> QED BY <2>1, <2>2, <2>3, QuietStep
<1>4. ASSUME NEW f \in DOMAIN fulfillments, NEW w \in Stock, RestockCheck(c, f, w) PROVE IInv'
  <2> DEFINE m == [step |-> "checked", target |-> f, warehouse |-> w]
  <2>1. f \in Nat
    BY <1>1
  <2>2. m \in Session /\ m.step = "checked" /\ m.target = f
    BY <2>1 DEF Session
  <2>3. session' = [session EXCEPT ![c] = m] /\ UNCHANGED <<wh, fulfilled, fulfillments, status>>
    BY <1>4 DEF RestockCheck
  <2> HIDE DEF m
  <2>4. Remembers(m, fulfillments, wh) /\ m.step \notin InTransaction
    BY <2>2 DEF Remembers, InTransaction
  <2> QED BY <2>2, <2>3, <2>4, QuietStep
<1>5. CASE RestockLock(c)
  <2> DEFINE t == session[c]
             m == [step |-> "locked", target |-> t.target, warehouse |-> t.warehouse, seen |-> fulfilled]
  <2>1. t.step = "checked" /\ t.target \in Nat /\ t.warehouse \in Stock /\ t.target \in DOMAIN fulfillments
    BY <1>1, <1>5, SessionFields DEF RestockLock, Remembers
  <2>2. m \in Session /\ m.step = "locked" /\ m.target = t.target
    BY <1>1, <2>1 DEF Session
  <2>3. session' = [session EXCEPT ![c] = m] /\ UNCHANGED <<wh, fulfilled, fulfillments, status>>
    BY <1>5 DEF RestockLock
  <2> HIDE DEF m
  <2>4. Remembers(m, fulfillments, wh) /\ m.step \notin InTransaction
    BY <2>1, <2>2 DEF Remembers, InTransaction
  <2> QED BY <2>2, <2>3, <2>4, QuietStep
<1>6. CASE CancelCheck(c)
  <2> DEFINE m == [step |-> "approved"]
  <2>1. m \in Session /\ m.step = "approved"
    BY DEF Session
  <2>2. session' = [session EXCEPT ![c] = m] /\ UNCHANGED <<wh, fulfilled, fulfillments, status>>
    BY <1>6 DEF CancelCheck
  <2> HIDE DEF m
  <2>3. Remembers(m, fulfillments, wh) /\ m.step \notin InTransaction
    BY <2>1 DEF Remembers, InTransaction
  <2> QED BY <2>1, <2>2, <2>3, QuietStep
<1> QED BY <1>2, <1>3, <1>4, <1>5, <1>6

LEMMA LockKeeps ==
  ASSUME IInv, NEW c \in Sessions, overlapped' \in BOOLEAN,
         FulfillShip(c) \/ Restock(c) \/ CancelDeallocate(c)
  PROVE  IInv'
<1> DEFINE t == session[c]
<1>1. /\ t \in Session
      /\ Remembers(t, fulfillments, wh)
      /\ status \in OrderStatus
  BY DEF IInv, RowsOK, MemoryOK
<1>2. CASE FulfillShip(c)
  <2> DEFINE m == [step |-> "fulfilling", request |-> t.request, seen |-> t.seen, order |-> t.order,
                   next |-> StatusOf(Fulfilled(t)), lines |-> LinesOf(t.request)]
  <2>1. t.step = "cleaned" /\ t.request \in Requests /\ t.seen \in [Line -> Int]
    BY <1>1, <1>2, SessionFields DEF FulfillShip
  <2>2. t.order \in OrderStatus
    BY <1>1, <2>1 DEF Session
  <2>3. LinesOf(t.request) \in SUBSET Line /\ StatusOf(Fulfilled(t)) \in OrderStatus
    BY StatusOfType DEF LinesOf
  <2>4. m \in Session
    BY <2>1, <2>2, <2>3 DEF Session
  <2>5. m.step = "fulfilling" /\ m.lines = LinesOf(m.request) /\ m.request = t.request
    OBVIOUS
  <2>6. /\ session' = [session EXCEPT ![c] = m]
        /\ UNCHANGED <<wh, fulfilled, fulfillments, status>>
        /\ Free(c, LinesOf(t.request))
        /\ \A l \in LinesOf(t.request) : CanShip(t.request, l)
    BY <1>2 DEF FulfillShip
  <2> HIDE DEF m, t
  <2>7. Remembers(m, fulfillments, wh)
    BY <2>5, <2>6, ShipsFromItsTable DEF Remembers
  <2>8. \A d \in Sessions \ {c} : session[d].step \in InTransaction => session[d].lines \cap m.lines = {}
    BY <2>5, <2>6 DEF Free
  <2> QED BY <2>4, <2>6, <2>7, <2>8, QuietStep
<1>3. CASE Restock(c)
  <2> DEFINE m == [step |-> "restocking", target |-> t.target, warehouse |-> t.warehouse,
                   seen |-> t.seen, order |-> status, next |-> StatusOf(Unfulfilled(t)),
                   lines |-> LinesIn(t.target)]
  <2>1. /\ t.step = "locked"
        /\ t.target \in Nat
        /\ t.warehouse \in Stock
        /\ t.seen \in [Line -> Int]
        /\ t.target \in DOMAIN fulfillments
    BY <1>1, <1>3, SessionFields DEF Restock, Remembers
  <2>2. LinesIn(t.target) \in SUBSET Line /\ StatusOf(Unfulfilled(t)) \in OrderStatus
    BY StatusOfType DEF LinesIn
  <2>3. m \in Session
    BY <1>1, <2>1, <2>2 DEF Session
  <2>4. m.step = "restocking" /\ m.lines = LinesIn(m.target) /\ m.target = t.target
    OBVIOUS
  <2>5. /\ session' = [session EXCEPT ![c] = m]
        /\ UNCHANGED <<wh, fulfilled, fulfillments, status>>
        /\ Free(c, LinesIn(t.target))
    BY <1>3 DEF Restock
  <2> HIDE DEF m, t
  <2>6. Remembers(m, fulfillments, wh)
    BY <2>1, <2>4 DEF Remembers, LinesIn
  <2>7. \A d \in Sessions \ {c} : session[d].step \in InTransaction => session[d].lines \cap m.lines = {}
    BY <2>4, <2>5 DEF Free
  <2> QED BY <2>3, <2>5, <2>6, <2>7, QuietStep
<1>4. CASE CancelDeallocate(c)
  <2> DEFINE m == [step |-> "canceling", lines |-> Holding]
  <2>1. m \in Session /\ m.step = "canceling" /\ m.lines = Holding
    BY DEF Session, Holding
  <2>2. /\ session' = [session EXCEPT ![c] = m]
        /\ UNCHANGED <<wh, fulfilled, fulfillments, status>>
        /\ Free(c, Holding)
    BY <1>4 DEF CancelDeallocate
  <2> HIDE DEF m
  <2>3. Remembers(m, fulfillments, wh)
    BY <2>1 DEF Remembers
  <2>4. \A d \in Sessions \ {c} : session[d].step \in InTransaction => session[d].lines \cap m.lines = {}
    BY <2>1, <2>2 DEF Free
  <2> QED BY <2>1, <2>2, <2>3, <2>4, QuietStep
<1> QED BY <1>2, <1>3, <1>4

\* A commit: the rows it writes are those it has locked.
LEMMA CommitStep ==
  ASSUME IInv, NEW c \in Sessions, session' = [session EXCEPT ![c] = Idle], RowsOK',
         session[c].step \in InTransaction,
         \A l \in Line : l \notin session[c].lines => wh'[l] = wh[l],
         \A f \in DOMAIN fulfillments :
           f \in DOMAIN fulfillments' /\ fulfillments'[f].lines = fulfillments[f].lines
  PROVE  IInv'
<1>1. Idle \in Session /\ Idle.step = "idle"
  BY DEF Idle, Session
<1>2. Remembers(Idle, fulfillments', wh')
  BY <1>1 DEF Remembers
<1>3. \A d \in Sessions : Apart(Idle, session[d])
  BY <1>1 DEF Apart, InTransaction
<1>4. ASSUME NEW d \in Sessions, d # c, session[d].step = "fulfilling", NEW l \in session[d].lines
      PROVE  wh'[l] = wh[l]
  <2>1. l \in Line
    BY <1>4, SessionFields DEF IInv, MemoryOK, InTransaction
  <2>2. session[d].lines \cap session[c].lines = {}
    BY <1>4 DEF IInv, MemoryOK, Apart, InTransaction
  <2> QED BY <1>4, <2>1, <2>2
<1>5. MemoryOK'
  BY <1>1, <1>2, <1>3, <1>4, MemoryStep DEF IInv
<1> QED BY <1>5 DEF IInv

LEMMA FulfillCommitKeeps ==
  ASSUME IInv, NEW c \in Sessions, overlapped' \in BOOLEAN, FulfillCommit(c)
  PROVE  IInv'
<1> DEFINE t == session[c]
<1>1. /\ t.step = "fulfilling"
      /\ wh' = [l \in Line |-> IF l \in LinesOf(t.request) \cap Tracked
                                 THEN ShippedUpTo(t.request, l)[NumStocks]
                                 ELSE wh[l]]
      /\ fulfilled' = Fulfilled(t)
      /\ fulfillments' = fulfillments \o NewFulfillments(t.request)
      /\ status' = StatusSaved(t)
      /\ session' = [session EXCEPT ![c] = Idle]
  BY DEF FulfillCommit
<1>2. /\ t.request \in Requests
      /\ t.request \in Request
      /\ t.seen \in [Line -> Int]
      /\ t.next \in OrderStatus
      /\ t.lines = LinesOf(t.request)
      /\ \A l \in t.lines : CanShipFrom(wh[l], t.request, l)
  BY <1>1, SessionFields DEF IInv, MemoryOK, Remembers, Request
<1> HIDE DEF t
<1>3. ASSUME NEW l \in Line
      PROVE  /\ wh'[l] \in WarehouseState
             /\ \A s \in Stock : Headroom(wh'[l], s) >= 0
  <2>1. wh[l] \in WarehouseState /\ \A s \in Stock : Headroom(wh[l], s) >= 0
    BY DEF IInv, RowsOK
  <2>2. CASE l \in LinesOf(t.request) \cap Tracked
    <3>1. wh'[l] = ShipFrom(wh[l], t.request, l)[NumStocks]
      BY <1>1, <2>2, ShipsFromItsTable
    <3>2. CanShipFrom(wh[l], t.request, l) /\ l \in Tracked /\ NumStocks \in 0 .. NumStocks
      BY <1>2, <2>2
    <3> QED BY <1>2, <2>1, <3>1, <3>2, ShipEffect
  <2>3. CASE l \notin LinesOf(t.request) \cap Tracked
    BY <1>1, <2>1, <2>3
  <2> QED BY <2>2, <2>3
<1>4. wh' \in [Line -> WarehouseState]
  BY <1>1, <1>3
<1>5. fulfilled' \in [Line -> Int]
  <2>1. \A l \in Line : Wanted(t.request, l) \in Nat
    BY <1>2, WantedNat
  <2> QED BY <1>1, <1>2, <2>1 DEF Fulfilled, IInv, RowsOK
<1>6. fulfillments \in Seq(Fulfillment) /\ NewFulfillments(t.request) \in Seq(Fulfillment)
  BY <1>2, NewFulfillmentsType DEF IInv, RowsOK
<1>7. fulfillments' \in Seq(Fulfillment)
  BY <1>1, <1>6
<1>8. \A f \in DOMAIN fulfillments :
        f \in DOMAIN fulfillments' /\ fulfillments'[f].lines = fulfillments[f].lines
  BY <1>1, <1>6
<1>9. status' \in OrderStatus
  BY <1>1, <1>2 DEF StatusSaved, IInv, RowsOK
<1>10. RowsOK'
  BY <1>3, <1>4, <1>5, <1>7, <1>9 DEF RowsOK
<1>11. session[c].step \in InTransaction /\ \A l \in Line : l \notin session[c].lines => wh'[l] = wh[l]
  BY <1>1, <1>2 DEF t, InTransaction
<1> QED BY <1>1, <1>8, <1>10, <1>11, CommitStep

LEMMA RestockCommitKeeps ==
  ASSUME IInv, NEW c \in Sessions, overlapped' \in BOOLEAN, RestockCommit(c)
  PROVE  IInv'
<1> DEFINE t == session[c]
           n(l) == fulfillments[t.target].lines[l]
<1>1. /\ t.step = "restocking"
      /\ wh' = [l \in Line |-> Returned(l, t)]
      /\ fulfilled' = Unfulfilled(t)
      /\ fulfillments' = [fulfillments EXCEPT ![t.target] = [canceled |-> TRUE, lines |-> @.lines]]
      /\ status' = StatusSaved(t)
      /\ session' = [session EXCEPT ![c] = Idle]
  BY DEF RestockCommit
<1>2. /\ t.target \in DOMAIN fulfillments
      /\ t.warehouse \in Stock
      /\ t.seen \in [Line -> Int]
      /\ t.next \in OrderStatus
      /\ t.lines = LinesIn(t.target)
  BY <1>1, SessionFields DEF IInv, MemoryOK, Remembers, LinesIn
<1>3. /\ fulfillments \in Seq(Fulfillment)
      /\ fulfillments[t.target] \in Fulfillment
      /\ \A l \in Line : n(l) \in Nat
  <2>1. fulfillments \in Seq(Fulfillment) /\ fulfillments[t.target] \in Fulfillment
    BY <1>2 DEF IInv, RowsOK
  <2> QED BY <2>1 DEF Fulfillment
<1> HIDE DEF t
<1>4. ASSUME NEW l \in Line
      PROVE  /\ wh'[l] \in WarehouseState
             /\ \A s \in Stock : Headroom(wh'[l], s) >= 0
  <2>1. wh[l] \in WarehouseState /\ \A s \in Stock : Headroom(wh[l], s) >= 0
    BY DEF IInv, RowsOK
  <2>2. CASE l \in LinesIn(t.target) \cap Tracked
    <3> DEFINE y == Increased(wh[l], l, t.warehouse, n(l), TRUE)
    <3>1. wh'[l] = y
      BY <1>1, <2>2 DEF Returned
    <3>2. y \in WarehouseState /\ \A s \in Stock : Headroom(y, s) >= Headroom(wh[l], s)
      BY <1>2, <1>3, <2>1, IncreasedEffect
    <3>3. \A s \in Stock : Headroom(y, s) \in Int /\ Headroom(wh[l], s) \in Int
      <4> HIDE DEF y
      <4>1. \A s \in Stock : /\ Total(y, s) \in Nat /\ Total(wh[l], s) \in Nat
                             /\ y.quantity[s] \in Nat /\ wh[l].quantity[s] \in Nat
        BY <2>1, <3>2, TotalsNat DEF WarehouseState
      <4> QED BY <4>1 DEF Headroom
    <3> HIDE DEF y
    <3> QED BY <2>1, <3>1, <3>2, <3>3
  <2>3. CASE l \notin LinesIn(t.target) \cap Tracked
    BY <1>1, <2>1, <2>3 DEF Returned
  <2> QED BY <2>2, <2>3
<1>5. wh' \in [Line -> WarehouseState]
  BY <1>1, <1>4
<1>6. fulfilled' \in [Line -> Int]
  BY <1>1, <1>2, <1>3 DEF Unfulfilled, IInv, RowsOK
<1>7. fulfillments' \in Seq(Fulfillment)
  <2>1. [canceled |-> TRUE, lines |-> fulfillments[t.target].lines] \in Fulfillment
    BY <1>3 DEF Fulfillment
  <2> QED BY <1>1, <1>2, <1>3, <2>1
<1>8. \A f \in DOMAIN fulfillments :
        f \in DOMAIN fulfillments' /\ fulfillments'[f].lines = fulfillments[f].lines
  BY <1>1, <1>2, <1>3
<1>9. status' \in OrderStatus
  BY <1>1, <1>2 DEF StatusSaved, IInv, RowsOK
<1>10. RowsOK'
  BY <1>4, <1>5, <1>6, <1>7, <1>9 DEF RowsOK
<1>11. session[c].step \in InTransaction /\ \A l \in Line : l \notin session[c].lines => wh'[l] = wh[l]
  BY <1>1, <1>2 DEF t, InTransaction, Returned
<1> QED BY <1>1, <1>8, <1>10, <1>11, CommitStep

LEMMA CancelCommitKeeps ==
  ASSUME IInv, NEW c \in Sessions, overlapped' \in BOOLEAN, CancelCommit(c)
  PROVE  IInv'
<1>1. /\ session[c].step = "canceling"
      /\ wh' = [l \in Line |-> OrderDeallocated(wh[l], {l} \cap session[c].lines)]
      /\ status' = "canceled"
      /\ session' = [session EXCEPT ![c] = Idle]
      /\ UNCHANGED <<fulfilled, fulfillments>>
  BY DEF CancelCommit
<1>2. ASSUME NEW l \in Line
      PROVE  /\ wh'[l] \in WarehouseState
             /\ \A s \in Stock : Headroom(wh'[l], s) >= 0
             /\ l \notin session[c].lines => wh'[l] = wh[l]
  <2> DEFINE y == OrderDeallocated(wh[l], {l} \cap session[c].lines)
  <2>1. wh[l] \in WarehouseState /\ \A s \in Stock : Headroom(wh[l], s) >= 0
    BY DEF IInv, RowsOK
  <2>2. wh'[l] = y
    BY <1>1
  <2>3. {l} \cap session[c].lines \in SUBSET Line
    OBVIOUS
  <2>4. /\ y \in WarehouseState
        /\ y.quantity = wh[l].quantity
        /\ \A s \in Stock : Total(y, s) <= Total(wh[l], s)
    BY <2>1, <2>3, OrderDeallocatedEffect
  <2>5. l \notin session[c].lines => y = wh[l]
    <3> SUFFICES ASSUME l \notin session[c].lines PROVE y = wh[l]
      OBVIOUS
    <3>1. wh[l].allocated = [k \in Line |-> wh[l].allocated[k]]
      BY <2>1 DEF WarehouseState
    <3>2. y = Tables(wh[l].stocks, wh[l].quantity, wh[l].rows, wh[l].allocated)
      BY <3>1 DEF OrderDeallocated
    <3> QED BY <2>1, <3>2 DEF Tables, WarehouseState
  <2> HIDE DEF y
  <2>6. \A s \in Stock : /\ Total(y, s) \in Nat /\ Total(wh[l], s) \in Nat
                         /\ y.quantity[s] \in Nat
    BY <2>1, <2>4, TotalsNat DEF WarehouseState
  <2>7. \A s \in Stock : Headroom(y, s) >= 0
    BY <2>1, <2>4, <2>6 DEF Headroom
  <2> QED BY <2>2, <2>4, <2>5, <2>7
<1>3. wh' \in [Line -> WarehouseState]
  BY <1>1, <1>2
<1>4. RowsOK'
  BY <1>1, <1>2, <1>3 DEF RowsOK, IInv, OrderStatus
<1> QED BY <1>1, <1>2, <1>4, CommitStep DEF InTransaction

LEMMA NextKeeps ==
  ASSUME IInv, [Next]_vars
  PROVE  IInv'
<1>1. CASE UNCHANGED vars
  BY <1>1 DEF vars, IInv, RowsOK, MemoryOK
<1>2. CASE Next
  <2>1. overlapped' \in BOOLEAN
    BY <1>2 DEF Next, IInv, RowsOK
  <2>2. PICK c \in Sessions : OrderFulfill(c) \/ FulfillmentCancel(c) \/ OrderCancel(c)
    BY <1>2 DEF Next
  <2>3. CASE OrderFulfill(c)
    BY <2>1, <2>3, QuietKeeps, LockKeeps, FulfillCommitKeeps DEF OrderFulfill
  <2>4. CASE FulfillmentCancel(c)
    BY <2>1, <2>4, QuietKeeps, LockKeeps, RestockCommitKeeps DEF FulfillmentCancel
  <2>5. CASE OrderCancel(c)
    BY <2>1, <2>5, QuietKeeps, LockKeeps, CancelCommitKeeps DEF OrderCancel
  <2> QED BY <2>2, <2>3, <2>4, <2>5
<1> QED BY <1>1, <1>2

-----------------------------------------------------------------------------
(* The order as checkout leaves it.                                        *)

LEMMA LineZeros == SumTo([k \in Line |-> 0], NumLines) = 0
<1> DEFINE zero == [k \in Line |-> 0]
<1>1. \A k \in 1 .. NumLines : zero[k] \in Int /\ zero[k] = zero[k] + zero[k]
  BY DEF Line
<1> HIDE DEF zero
<1>2. SumTo(zero, NumLines) = SumTo(zero, NumLines) + SumTo(zero, NumLines)
  BY <1>1, SumToAdd
<1>3. SumTo(zero, NumLines) \in Int
  BY <1>1, SumToInt
<1>4. \A k \in Int : k = k + k => k = 0
  OBVIOUS
<1>5. SumTo(zero, NumLines) = 0
  BY <1>2, <1>3, <1>4, Zenon
<1> QED BY <1>5 DEF zero

\* What is on the shelves of a line's variant, and what is reserved of it.
LEMMA InitTables ==
  ASSUME Init, NEW l \in Line
  PROVE  /\ wh[l] \in WarehouseState
         /\ wh[l].quantity = InitialQuantity[l]
         /\ \A s \in Stock : Headroom(wh[l], s) >= 0
         /\ l \in Tracked => wh[l] = Allocated(Unreserved(l), l, Ordered[l], NothingCounted)
         /\ l \notin Tracked => wh[l] = Unreserved(l)
<1> DEFINE x == Unreserved(l)
<1>1. /\ l \in Tracked => wh[l] = Allocated(x, l, Ordered[l], NothingCounted)
      /\ l \notin Tracked => wh[l] = x
  BY DEF Init
<1>2. /\ x \in WarehouseState
      /\ x.quantity = InitialQuantity[l]
      /\ x.stocks = {s \in Stock : InitialQuantity[l][s] > 0}
      /\ x.allocated = [k \in Line |-> [s \in Stock |-> 0]]
  BY DEF Unreserved, Tables, WarehouseState
<1>3. ASSUME NEW s \in Stock PROVE Total(x, s) = 0
  <2>1. [k \in Line |-> x.allocated[k][s]] = [k \in Line |-> 0]
    BY <1>2
  <2> QED BY <2>1, LineZeros DEF Total
<1> HIDE DEF x
<1>4. NothingCounted \in [Stock -> Nat] /\ Ordered[l] \in Nat
  BY DEF NothingCounted
<1>5. CASE l \in Tracked
  <2> DEFINE y == Allocated(x, l, Ordered[l], NothingCounted)
             avail == Available(x, NothingCounted)
             plan == Take(avail, Ordered[l])
  <2>1. /\ y \in WarehouseState
        /\ y.quantity = x.quantity
        /\ \A s \in Stock : Total(y, s) <= Total(x, s) + plan[s]
    BY <1>2, <1>4, AllocatedEffect
  <2>2. \A s \in Stock : avail[s] = InitialQuantity[l][s]
    BY <1>2 DEF Available, NothingCounted
  <2>3. \A s \in Stock : avail[s] \in Int
    BY <2>2
  <2> HIDE DEF y, avail
  <2>4. plan \in [Stock -> Nat] /\ \A s \in Stock : plan[s] <= Positive(avail[s])
    BY <1>4, <2>3, TakeBounds
  <2> HIDE DEF plan
  <2>5. ASSUME NEW s \in Stock PROVE Headroom(y, s) >= 0
    <3>1. Total(y, s) \in Nat /\ y.quantity[s] = InitialQuantity[l][s] /\ InitialQuantity[l][s] \in Nat
      BY <1>2, <2>1, TotalsNat
    <3>2. plan[s] \in Nat /\ plan[s] <= InitialQuantity[l][s]
      BY <2>2, <2>4, <3>1 DEF Positive
    <3>3. Total(y, s) <= 0 + plan[s]
      BY <1>3, <2>1
    <3> QED BY <3>1, <3>2, <3>3 DEF Headroom
  <2> QED BY <1>1, <1>2, <1>5, <2>1, <2>5 DEF x, y
<1>6. CASE l \notin Tracked
  <2>1. \A s \in Stock : Headroom(x, s) >= 0
    BY <1>2, <1>3 DEF Headroom
  <2> QED BY <1>1, <1>2, <1>6, <2>1 DEF x
<1> QED BY <1>5, <1>6

LEMMA InitIInv == Init => IInv
<1> SUFFICES ASSUME Init PROVE IInv
  OBVIOUS
<1>1. wh \in [Line -> WarehouseState]
  <2>1. wh = [l \in Line |-> wh[l]]
    BY DEF Init
  <2> QED BY <2>1, InitTables
<1>2. RowsOK
  <2>1. /\ fulfilled \in [Line -> Int]
        /\ status \in OrderStatus
        /\ overlapped \in BOOLEAN
    <3>1. fulfilled = [l \in Line |-> 0] /\ status = "unfulfilled" /\ overlapped = FALSE
      BY DEF Init
    <3>2. [l \in Line |-> 0] \in [Line -> Int]
      OBVIOUS
    <3>3. "unfulfilled" \in OrderStatus
      BY DEF OrderStatus
    <3> QED BY <3>1, <3>2, <3>3
  <2>2. fulfillments \in Seq(Fulfillment)
    BY DEF Init
  <2>3. \A l \in Line, s \in Stock : Headroom(wh[l], s) >= 0
    BY InitTables
  <2> QED BY <1>1, <2>1, <2>2, <2>3 DEF RowsOK
<1>3. Idle \in Session /\ Idle.step = "idle"
  BY DEF Idle, Session
<1>4. Remembers(Idle, fulfillments, wh) /\ Apart(Idle, Idle)
  BY <1>3 DEF Remembers, Apart, InTransaction
<1>5. session = [c \in Sessions |-> Idle]
  BY DEF Init
<1>6. MemoryOK
  BY <1>3, <1>4, <1>5 DEF MemoryOK
<1> QED BY <1>2, <1>6 DEF IInv

LEMMA Invariance == Spec => []IInv
<1>1. IInv /\ [Next]_vars => IInv'
  BY NextKeeps
<1> QED BY <1>1, InitIInv, PTL DEF Spec

\* Whatever runs at the same time, nothing is negative and no stock has more
\* reserved than it holds: what FulfillShip finds in the stocks it has locked is
\* still there when it commits.
THEOREM ReservationsCovered == Spec => []Covered
<1>1. ASSUME IInv PROVE Covered
  <2>1. TypeOK
    BY <1>1 DEF IInv, RowsOK, MemoryOK, TypeOK, Fulfillment
  <2> QED BY <1>1, <2>1 DEF Covered, IInv, RowsOK
<1> QED BY <1>1, Invariance, PTL

-----------------------------------------------------------------------------
(* What the fulfillments hold of a line.                                   *)

Sent(ff, l) ==
  SumTo([f \in DOMAIN ff |-> IF ff[f].canceled THEN 0 ELSE ff[f].lines[l]], Len(ff))

LEMMA SentNat ==
  ASSUME NEW ff \in Seq(Fulfillment), NEW l \in Line
  PROVE  Sent(ff, l) \in Nat
<1> DEFINE h == [f \in DOMAIN ff |-> IF ff[f].canceled THEN 0 ELSE ff[f].lines[l]]
<1>1. Len(ff) \in Nat /\ \A f \in 1 .. Len(ff) : h[f] \in Nat
  <2>1. Len(ff) \in Nat /\ DOMAIN ff = 1 .. Len(ff) /\ \A f \in 1 .. Len(ff) : ff[f] \in Fulfillment
    OBVIOUS
  <2>2. \A x \in Fulfillment : x.lines[l] \in Nat
    BY DEF Fulfillment
  <2> QED BY <2>1, <2>2
<1> HIDE DEF h
<1>2. SumTo(h, Len(ff)) \in Nat
  BY <1>1, SumToNat
<1> QED BY <1>2 DEF Sent, h

LEMMA SentAppend ==
  ASSUME NEW ff \in Seq(Fulfillment), NEW x \in Fulfillment, ~ x.canceled, NEW l \in Line
  PROVE  Sent(Append(ff, x), l) = Sent(ff, l) + x.lines[l]
<1> DEFINE gg == Append(ff, x)
           h == [f \in DOMAIN ff |-> IF ff[f].canceled THEN 0 ELSE ff[f].lines[l]]
           k == [f \in DOMAIN gg |-> IF gg[f].canceled THEN 0 ELSE gg[f].lines[l]]
           n == Len(ff)
<1>1. /\ n \in Nat
      /\ Len(gg) = n + 1
      /\ \A f \in 1 .. n : gg[f] = ff[f]
      /\ gg[n + 1] = x
      /\ DOMAIN gg = 1 .. n + 1
      /\ DOMAIN ff = 1 .. n
  OBVIOUS
<1>2. /\ k[n + 1] = x.lines[l]
      /\ \A f \in 1 .. n : k[f] = h[f]
  BY <1>1
<1> HIDE DEF h, k
<1>3. SumTo(k, n + 1) = SumTo(k, n) + k[n + 1]
  BY <1>1, SumToStep
<1>4. SumTo(k, n) = SumTo(h, n)
  BY <1>1, <1>2, SumToEqual
<1>5. Sent(gg, l) = SumTo(k, n + 1) /\ Sent(ff, l) = SumTo(h, n)
  BY <1>1 DEF Sent, h, k
<1> QED BY <1>2, <1>3, <1>4, <1>5

LEMMA AppendToConcat ==
  ASSUME NEW S, NEW p \in Seq(S), NEW q \in Seq(S), NEW x \in S
  PROVE  /\ Append(q, x) \in Seq(S)
         /\ p \o Append(q, x) = Append(p \o q, x)
OBVIOUS

LEMMA SentConcatAppend ==
  ASSUME NEW ff \in Seq(Fulfillment), NEW q \in Seq(Fulfillment),
         NEW x \in Fulfillment, ~ x.canceled, NEW l \in Line
  PROVE  Sent(ff \o Append(q, x), l) = Sent(ff \o q, l) + x.lines[l]
<1>1. ff \o Append(q, x) = Append(ff \o q, x)
  BY AppendToConcat
<1>2. ff \o q \in Seq(Fulfillment)
  OBVIOUS
<1>3. Sent(Append(ff \o q, x), l) = Sent(ff \o q, l) + x.lines[l]
  BY <1>2, SentAppend
<1> QED BY <1>1, <1>3

LEMMA SentAdded ==
  ASSUME NEW ff \in Seq(Fulfillment), NEW request \in Request, NEW l \in Line
  PROVE  Sent(ff \o NewFulfillments(request), l) = Sent(ff, l) + Wanted(request, l)
<1> DEFINE g == AddedUpTo(request)
           q == [w \in Stock |-> request[w][l]]
           T == {w \in 0 .. NumStocks : /\ g[w] \in Seq(Fulfillment)
                                        /\ Sent(ff \o g[w], l) = Sent(ff, l) + SumTo(q, w)}
<1>1. g[0] = <<>> /\ \A w \in Stock :
        g[w] = IF \A k \in Line : request[w][k] = 0 THEN g[w - 1]
               ELSE Append(g[w - 1], [canceled |-> FALSE, lines |-> request[w]])
  BY AddedDef
<1>2. \A w \in Stock : q[w] = request[w][l] /\ q[w] \in Nat
  BY DEF Request
<1>3. Sent(ff, l) \in Nat
  BY SentNat
<1> HIDE DEF g, q
<1>4. 0 \in T
  <2>1. <<>> \in Seq(Fulfillment) /\ ff \o <<>> = ff
    OBVIOUS
  <2>2. SumTo(q, 0) = 0
    BY SumToZero
  <2>3. 0 \in 0 .. NumStocks /\ g[0] \in Seq(Fulfillment)
    BY <1>1, <2>1
  <2>4. Sent(ff \o g[0], l) = Sent(ff, l) + SumTo(q, 0)
    BY <1>1, <1>3, <2>1, <2>2
  <2> QED BY <2>3, <2>4
<1>5. ASSUME NEW w \in Stock, w - 1 \in T PROVE w \in T
  <2>1. /\ w \in 0 .. NumStocks
        /\ w - 1 \in Nat
        /\ (w - 1) + 1 = w
        /\ g[w - 1] \in Seq(Fulfillment)
        /\ Sent(ff \o g[w - 1], l) = Sent(ff, l) + SumTo(q, w - 1)
    BY <1>5 DEF Stock
  <2>2. SumTo(q, (w - 1) + 1) = SumTo(q, w - 1) + q[(w - 1) + 1]
    BY <2>1, SumToStep
  <2>3. SumTo(q, w - 1) \in Int
    <3>1. \A i \in 1 .. w - 1 : q[i] \in Int
      BY <1>2 DEF Stock
    <3> QED BY <2>1, <3>1, SumToInt
  <2>4. CASE \A k \in Line : request[w][k] = 0
    <3>1. g[w] = g[w - 1] /\ q[w] = 0
      BY <1>1, <1>2, <2>4
    <3>2. Sent(ff \o g[w], l) = Sent(ff, l) + SumTo(q, w)
      BY <1>3, <2>1, <2>2, <2>3, <3>1
    <3> QED BY <2>1, <3>1, <3>2
  <2>5. CASE ~ \A k \in Line : request[w][k] = 0
    <3> DEFINE x == [canceled |-> FALSE, lines |-> request[w]]
    <3>1. x \in Fulfillment /\ ~ x.canceled /\ x.lines[l] = q[w]
      BY <1>2 DEF Fulfillment, Request
    <3>2. g[w] = Append(g[w - 1], x)
      BY <1>1, <2>5
    <3> HIDE DEF x
    <3>3. g[w] \in Seq(Fulfillment) /\ ff \o g[w] \in Seq(Fulfillment)
      <4>1. Append(g[w - 1], x) \in Seq(Fulfillment)
        BY <2>1, <3>1
      <4> QED BY <3>2, <4>1
    <3>4. Sent(ff \o Append(g[w - 1], x), l) = Sent(ff \o g[w - 1], l) + x.lines[l]
      BY <2>1, <3>1, SentConcatAppend
    <3>5. Sent(ff \o g[w], l) = Sent(ff \o g[w - 1], l) + q[w]
      BY <3>1, <3>2, <3>4
    <3>6. Sent(ff \o g[w], l) = Sent(ff, l) + SumTo(q, w)
      BY <1>2, <1>3, <2>1, <2>2, <2>3, <3>5
    <3> QED BY <2>1, <3>3, <3>6
  <2> QED BY <2>4, <2>5
<1>6. \A w \in 0 .. NumStocks : w \in T
  <2> HIDE DEF T
  <2> QED BY <1>4, <1>5, StockInduction
<1>7. NumStocks \in T
  BY <1>6
<1> QED BY <1>7 DEF g, q, NewFulfillments, Wanted

\* gg is ff with fulfillment f canceled.
Unset(ff, gg, f) ==
  /\ ff \in Seq(Fulfillment)
  /\ f \in 1 .. Len(ff)
  /\ DOMAIN gg = 1 .. Len(ff)
  /\ Len(gg) = Len(ff)
  /\ gg[f].canceled
  /\ \A i \in 1 .. Len(ff) : i # f => gg[i] = ff[i]

LEMMA SentUnset ==
  ASSUME NEW ff, NEW gg, NEW f, NEW l \in Line, Unset(ff, gg, f)
  PROVE  Sent(gg, l) = Sent(ff, l) - (IF ff[f].canceled THEN 0 ELSE ff[f].lines[l])
<1> DEFINE n == Len(ff)
           h == [i \in 1 .. n |-> IF ff[i].canceled THEN 0 ELSE ff[i].lines[l]]
           k == [i \in 1 .. n |-> IF gg[i].canceled THEN 0 ELSE gg[i].lines[l]]
<1>1. n \in Nat /\ DOMAIN ff = 1 .. n /\ \A i \in 1 .. n : ff[i] \in Fulfillment
  BY DEF Unset
<1>2. \A i \in 1 .. n : h[i] \in Nat
  <2>1. \A x \in Fulfillment : x.lines[l] \in Nat
    BY DEF Fulfillment
  <2> QED BY <1>1, <2>1
<1>3. DifferOnce(n, h, k, f) /\ k[f] = 0
  <2>1. n \in Nat /\ f \in 1 .. n
    BY DEF Unset
  <2>2. (\A i \in 1 .. n : i # f => k[i] = h[i]) /\ k[f] = 0
    BY DEF Unset
  <2> HIDE DEF h, k, n
  <2>3. \A i \in 1 .. n : h[i] \in Int /\ k[i] \in Int
    BY <1>2, <2>2
  <2> QED BY <2>1, <2>2, <2>3 DEF DifferOnce
<1>4. h[f] = IF ff[f].canceled THEN 0 ELSE ff[f].lines[l]
  BY DEF Unset
<1>5. Sent(ff, l) = SumTo(h, n) /\ Sent(gg, l) = SumTo(k, n)
  BY <1>1 DEF Sent, Unset
<1> HIDE DEF h, k, n
<1>6. SumTo(k, n) = SumTo(h, n) + k[f] - h[f]
  BY <1>3, SumDifferOnce
<1>7. SumTo(h, n) \in Int /\ h[f] \in Int
  <2>1. n \in Nat /\ f \in 1 .. n /\ \A i \in 1 .. n : h[i] \in Int
    BY <1>3 DEF DifferOnce
  <2> QED BY <2>1, SumToInt
<1> QED BY <1>3, <1>4, <1>5, <1>6, <1>7

LEMMA SentCanceled ==
  ASSUME NEW ff \in Seq(Fulfillment), NEW f \in DOMAIN ff, NEW l \in Line
  PROVE  LET gg == [ff EXCEPT ![f] = [canceled |-> TRUE, lines |-> @.lines]]
         IN  Sent(gg, l) = Sent(ff, l) - (IF ff[f].canceled THEN 0 ELSE ff[f].lines[l])
<1> DEFINE gg == [ff EXCEPT ![f] = [canceled |-> TRUE, lines |-> @.lines]]
<1>1. Unset(ff, gg, f)
  BY DEF Unset
<1> HIDE DEF gg
<1>2. Sent(gg, l) = Sent(ff, l) - (IF ff[f].canceled THEN 0 ELSE ff[f].lines[l])
  BY <1>1, SentUnset
<1> QED BY <1>2 DEF gg

-----------------------------------------------------------------------------
(* What a commit makes of the quantities and of the fulfillments.          *)

\* What FulfillCommit adds to both records of a line.
LEMMA FulfillAdds ==
  ASSUME IInv, NEW c \in Sessions, FulfillCommit(c), NEW l \in Line
  PROVE  /\ Wanted(session[c].request, l) \in Nat
         /\ session[c].seen[l] \in Int
         /\ Sent(fulfillments', l) = Sent(fulfillments, l) + Wanted(session[c].request, l)
         /\ fulfilled'[l] = IF Wanted(session[c].request, l) > 0
                              THEN session[c].seen[l] + Wanted(session[c].request, l)
                              ELSE fulfilled[l]
<1> DEFINE t == session[c]
<1>1. /\ t.step = "fulfilling"
      /\ fulfilled' = Fulfilled(t)
      /\ fulfillments' = fulfillments \o NewFulfillments(t.request)
  BY DEF FulfillCommit
<1>2. t.request \in Request /\ t.seen \in [Line -> Int]
  BY <1>1, SessionFields DEF IInv, MemoryOK, Request
<1>3. fulfillments \in Seq(Fulfillment)
  BY DEF IInv, RowsOK
<1> HIDE DEF t
<1>4. Wanted(t.request, l) \in Nat
  BY <1>2, WantedNat
<1>5. Sent(fulfillments', l) = Sent(fulfillments, l) + Wanted(t.request, l)
  BY <1>1, <1>2, <1>3, SentAdded
<1>6. fulfilled'[l] = IF Wanted(t.request, l) > 0
                        THEN t.seen[l] + Wanted(t.request, l) ELSE fulfilled[l]
  BY <1>1 DEF Fulfilled, LinesOf
<1> QED BY <1>2, <1>4, <1>5, <1>6 DEF t

\* What RestockCommit takes from them.
LEMMA RestockTakes ==
  ASSUME IInv, NEW c \in Sessions, RestockCommit(c), NEW l \in Line
  PROVE  /\ fulfillments[session[c].target].lines[l] \in Nat
         /\ session[c].seen[l] \in Int
         /\ Sent(fulfillments', l) =
              Sent(fulfillments, l)
                - (IF fulfillments[session[c].target].canceled THEN 0
                   ELSE fulfillments[session[c].target].lines[l])
         /\ fulfilled'[l] = IF fulfillments[session[c].target].lines[l] > 0
                              THEN session[c].seen[l] - fulfillments[session[c].target].lines[l]
                              ELSE fulfilled[l]
<1> DEFINE t == session[c]
<1>1. /\ t.step = "restocking"
      /\ fulfilled' = Unfulfilled(t)
      /\ fulfillments' = [fulfillments EXCEPT ![t.target] = [canceled |-> TRUE, lines |-> @.lines]]
  BY DEF RestockCommit
<1>2. t.target \in DOMAIN fulfillments /\ t.seen \in [Line -> Int]
  BY <1>1, SessionFields DEF IInv, MemoryOK, Remembers
<1>3. fulfillments \in Seq(Fulfillment) /\ fulfillments[t.target] \in Fulfillment
  BY <1>2 DEF IInv, RowsOK
<1> HIDE DEF t
<1>4. fulfillments[t.target].lines[l] \in Nat
  BY <1>3 DEF Fulfillment
<1>5. Sent(fulfillments', l) = Sent(fulfillments, l) -
        (IF fulfillments[t.target].canceled THEN 0 ELSE fulfillments[t.target].lines[l])
  BY <1>1, <1>2, <1>3, SentCanceled
<1>6. fulfilled'[l] = IF fulfillments[t.target].lines[l] > 0
                        THEN t.seen[l] - fulfillments[t.target].lines[l] ELSE fulfilled[l]
  BY <1>1 DEF Unfulfilled, LinesIn
<1> QED BY <1>2, <1>4, <1>5, <1>6 DEF t

LEMMA ShippedIsSent ==
  ASSUME NEW l
  PROVE  Shipped(l) = Sent(fulfillments, l) /\ Shipped(l)' = Sent(fulfillments', l)
BY DEF Shipped, Sent

\* The other steps touch neither record.
LEMMA OthersLeaveBooks ==
  ASSUME [Next]_vars, \A c \in Sessions : ~ FulfillCommit(c) /\ ~ RestockCommit(c)
  PROVE  UNCHANGED <<fulfilled, fulfillments>>
BY DEF vars, Next, OrderFulfill, FulfillmentCancel, OrderCancel, FulfillClean, FulfillShip,
       FulfillRefuse, RestockCheck, RestockLock, Restock, CancelCheck, CancelDeallocate, CancelCommit

\* The books of a line drift apart only where a commit writes what others have
\* made stale, or restocks once more.
THEOREM DriftIsOverlap == Spec => DriftNeedsOverlap
<1> DEFINE Stale(l, c) == \/ FulfillCommit(c) /\ session[c].seen[l] # fulfilled[l]
                          \/ /\ RestockCommit(c)
                             /\ \/ session[c].seen[l] # fulfilled[l]
                                \/ fulfillments[session[c].target].canceled
           Drift(l) == fulfilled'[l] - Shipped(l)' # fulfilled[l] - Shipped(l)
<1>1. ASSUME IInv, [Next]_vars, NEW l \in Line, \A c \in Sessions : ~ Stale(l, c)
      PROVE  ~ Drift(l)
  <2>1. fulfilled[l] \in Int /\ Sent(fulfillments, l) \in Int
    BY <1>1, SentNat DEF IInv, RowsOK
  <2>2. CASE \E c \in Sessions : FulfillCommit(c)
    <3>1. PICK c \in Sessions : FulfillCommit(c)
      BY <2>2
    <3>2. session[c].seen[l] = fulfilled[l]
      BY <1>1, <3>1
    <3> QED BY <1>1, <2>1, <3>1, <3>2, FulfillAdds, ShippedIsSent
  <2>3. CASE \E c \in Sessions : RestockCommit(c)
    <3>1. PICK c \in Sessions : RestockCommit(c)
      BY <2>3
    <3>2. session[c].seen[l] = fulfilled[l] /\ ~ fulfillments[session[c].target].canceled
      BY <1>1, <3>1
    <3> QED BY <1>1, <2>1, <3>1, <3>2, RestockTakes, ShippedIsSent
  <2>4. CASE \A c \in Sessions : ~ FulfillCommit(c) /\ ~ RestockCommit(c)
    BY <1>1, <2>4, OthersLeaveBooks, ShippedIsSent
  <2> QED BY <2>2, <2>3, <2>4
<1>2. ASSUME IInv, [Next]_vars PROVE \A l \in Line : Drift(l) => \E c \in Sessions : Stale(l, c)
  <2> HIDE DEF Stale, Drift
  <2> QED BY <1>1, <1>2
<1>3. ASSUME IInv, [Next]_vars
      PROVE  [\A l \in Line : fulfilled'[l] - Shipped(l)' # fulfilled[l] - Shipped(l) =>
               \E c \in Sessions :
                 \/ FulfillCommit(c) /\ session[c].seen[l] # fulfilled[l]
                 \/ /\ RestockCommit(c)
                    /\ \/ session[c].seen[l] # fulfilled[l]
                       \/ fulfillments[session[c].target].canceled]_vars
  BY <1>2, <1>3
<1> QED BY <1>3, Invariance, PTL DEF Spec, DriftNeedsOverlap

-----------------------------------------------------------------------------
(* The books of an order whose mutations came one after another.           *)

LEMMA TakenInTwo ==
  ASSUME NEW a \in Int, NEW b \in Nat, NEW d \in Nat
  PROVE  Positive(Positive(a - b) - d) = Positive(a - (b + d))
<1>1. CASE a - b > 0
  BY <1>1 DEF Positive
<1>2. CASE ~ (a - b > 0)
  BY <1>2 DEF Positive
<1> QED BY <1>1, <1>2

\* What shipping takes from the shelves and from the line's reservations.
LEMMA ShipSums ==
  ASSUME NEW x \in WarehouseState, \A s \in Stock : Headroom(x, s) >= 0,
         NEW request \in Request, NEW l \in Tracked, CanShipFrom(x, request, l)
  PROVE  LET y == ShipFrom(x, request, l)[NumStocks]
         IN  /\ LineTotal(y, l) = Positive(LineTotal(x, l) - Wanted(request, l))
             /\ SumTo(y.quantity, NumStocks) = SumTo(x.quantity, NumStocks) - Wanted(request, l)
<1> DEFINE g == ShipFrom(x, request, l)
           q == [w \in Stock |-> request[w][l]]
           has == LineTotal(x, l)
           all == SumTo(x.quantity, NumStocks)
           T == {w \in 0 .. NumStocks :
                   /\ LineTotal(g[w], l) = Positive(has - SumTo(q, w))
                   /\ SumTo(g[w].quantity, NumStocks) = all - SumTo(q, w)}
<1>1. /\ g[0] = x
      /\ \A w \in Stock : g[w] = IF request[w][l] = 0 THEN g[w - 1]
                                 ELSE Decreased(g[w - 1], l, request[w][l], w)
  BY ShipFromDef
<1>2. \A w \in 0 .. NumStocks : g[w] \in WarehouseState
  BY ShipEffect
<1>3. \A w \in Stock : q[w] = request[w][l] /\ q[w] \in Nat
  BY DEF Request
<1>4. has \in Nat /\ all \in Int
  <2>1. \A s \in 1 .. NumStocks : x.quantity[s] \in Int
    BY DEF WarehouseState, Stock
  <2>2. l \in Line
    OBVIOUS
  <2> QED BY <2>1, <2>2, SumToInt, TotalsNat
<1>5. \A w \in 0 .. NumStocks : SumTo(q, w) \in Nat
  <2> SUFFICES ASSUME NEW w \in 0 .. NumStocks PROVE SumTo(q, w) \in Nat
    OBVIOUS
  <2>1. w \in Nat /\ \A s \in 1 .. w : q[s] \in Nat
    BY <1>3 DEF Stock
  <2> HIDE DEF q
  <2> QED BY <2>1, SumToNat
<1> HIDE DEF g, q, has, all
<1>6. 0 \in T
  <2>1. SumTo(q, 0) = 0
    BY SumToZero
  <2>2. Positive(has - 0) = has
    BY <1>4 DEF Positive
  <2> QED BY <1>1, <1>4, <2>1, <2>2 DEF has, all
<1>7. ASSUME NEW w \in Stock, w - 1 \in T PROVE w \in T
  <2> DEFINE z == g[w - 1]
             k == SumTo(q, w - 1)
  <2>1. /\ w \in 0 .. NumStocks
        /\ w - 1 \in 0 .. NumStocks
        /\ w - 1 \in Nat
        /\ (w - 1) + 1 = w
        /\ l \in Line
    BY DEF Stock
  <2>2. SumTo(q, (w - 1) + 1) = k + q[(w - 1) + 1]
    BY <2>1, SumToStep
  <2>3. SumTo(q, w) = k + q[w]
    BY <2>1, <2>2
  <2>4. /\ LineTotal(z, l) = Positive(has - k)
        /\ SumTo(z.quantity, NumStocks) = all - k
        /\ k \in Nat
        /\ z \in WarehouseState
        /\ q[w] \in Nat
    BY <1>2, <1>3, <1>5, <1>7, <2>1
  <2> HIDE DEF z, k
  <2>5. CASE q[w] = 0
    <3>1. g[w] = z /\ SumTo(q, w) = k
      BY <1>1, <1>3, <2>3, <2>4, <2>5 DEF z
    <3> QED BY <2>1, <2>4, <3>1
  <2>6. CASE q[w] # 0
    <3>1. g[w] = Decreased(z, l, q[w], w)
      BY <1>1, <1>3, <2>6 DEF z
    <3>2. /\ LineTotal(g[w], l) = Positive(LineTotal(z, l) - q[w])
          /\ SumTo(g[w].quantity, NumStocks) = SumTo(z.quantity, NumStocks) - q[w]
      BY <2>1, <2>4, <3>1, DecreasedSums
    <3>3. Positive(Positive(has - k) - q[w]) = Positive(has - (k + q[w]))
      BY <1>4, <2>4, TakenInTwo
    <3>4. (all - k) - q[w] = all - (k + q[w])
      BY <1>4, <2>4
    <3> QED BY <2>1, <2>3, <2>4, <3>2, <3>3, <3>4
  <2> QED BY <2>5, <2>6
<1>8. \A w \in 0 .. NumStocks : w \in T
  <2> HIDE DEF T
  <2> QED BY <1>6, <1>7, StockInduction
<1>9. NumStocks \in T
  BY <1>8
<1> QED BY <1>9 DEF g, q, has, all, Wanted

\* The quantities a session that is alone will have written.
FulfillAfter(m, ful) ==
  [l \in Line |-> IF l \in LinesOf(m.request) THEN m.seen[l] + Wanted(m.request, l) ELSE ful[l]]

RestockAfter(m, ff, ful) ==
  [l \in Line |-> IF ff[m.target].lines[l] > 0 THEN m.seen[l] - ff[m.target].lines[l] ELSE ful[l]]

\* What a session that is alone has read of fulfillments ff, quantities ful,
\* status st and tables x is what they still say.
Fresh(m, ff, ful, st, x) ==
  /\ m.step \in {"cleaned", "fulfilling"} =>
       /\ m.seen = ful
       /\ m.order = st
       /\ \A l \in Line : Wanted(m.request, l) <= Ordered[l] - ful[l]
  /\ m.step = "fulfilling" => m.next = StatusOf(FulfillAfter(m, ful))
  /\ m.step \in {"checked", "locked", "restocking"} => ~ ff[m.target].canceled
  /\ m.step \in {"locked", "restocking"} => m.seen = ful
  /\ m.step = "restocking" => m.order = st /\ m.next = StatusOf(RestockAfter(m, ff, ful))
  /\ m.step \in {"approved", "canceling"} => \A f \in DOMAIN ff : ff[f].canceled
  /\ m.step = "canceling" => m.lines = {l \in Line : LineTotal(x[l], l) > 0}

\* The books of line l: tables x, quantity_fulfilled n, and what is sent.
Books(x, n, sent, l) ==
  /\ n = sent
  /\ LineTotal(x, l) + n <= Ordered[l]
  /\ l \notin Tracked => LineTotal(x, l) = 0
  /\ l \in Tracked => SumTo(x.quantity, NumStocks) + n = SumTo(InitialQuantity[l], NumStocks)

StatusRight(st, ful, x) ==
  IF st = "canceled" THEN \A l \in Line : ful[l] = 0 /\ LineTotal(x[l], l) = 0
                     ELSE st = StatusOf(ful)

\* What holds as long as mutations came one after another.
OneAtATime == \A c, d \in Sessions : c # d => session[c].step = "idle" \/ session[d].step = "idle"

Serial ==
  ~ overlapped =>
    /\ OneAtATime
    /\ \A c \in Sessions : Fresh(session[c], fulfillments, fulfilled, status, wh)
    /\ \A l \in Line : Books(wh[l], fulfilled[l], Sent(fulfillments, l), l)
    /\ StatusRight(status, fulfilled, wh)

History == overlapped' = (overlapped \/ \E c, d \in UnderWay' : c # d)

LEMMA StillAlone ==
  ASSUME History, ~ overlapped'
  PROVE  ~ overlapped /\ OneAtATime'
BY DEF History, UnderWay, OneAtATime

LEMMA IdleIsFresh ==
  ASSUME NEW m, m.step = "idle", NEW ff, NEW ful, NEW st, NEW x
  PROVE  Fresh(m, ff, ful, st, x)
BY DEF Fresh

\* A step that changes no row.
LEMMA SerialQuiet ==
  ASSUME Serial, IInv, History, NEW c \in Sessions, NEW m,
         session' = [session EXCEPT ![c] = m],
         UNCHANGED <<wh, fulfilled, fulfillments, status>>,
         ~ overlapped => Fresh(m, fulfillments, fulfilled, status, wh)
  PROVE  Serial'
<1> SUFFICES ASSUME ~ overlapped' PROVE Serial'
  BY DEF Serial
<1>1. ~ overlapped /\ OneAtATime'
  BY StillAlone
<1>2. ASSUME NEW d \in Sessions
      PROVE  Fresh(session'[d], fulfillments', fulfilled', status', wh')
  <2>1. session'[d] = IF d = c THEN m ELSE session[d]
    BY DEF IInv, MemoryOK
  <2> QED BY <1>1, <2>1 DEF Serial
<1>3. /\ \A l \in Line : Books(wh'[l], fulfilled'[l], Sent(fulfillments', l), l)
      /\ StatusRight(status', fulfilled', wh')
  BY <1>1 DEF Serial
<1> QED BY <1>1, <1>2, <1>3 DEF Serial

\* A commit.
LEMMA SerialCommit ==
  ASSUME Serial, IInv, History, NEW c \in Sessions, session[c].step # "idle",
         session' = [session EXCEPT ![c] = Idle],
         ~ overlapped =>
           /\ \A l \in Line : Books(wh'[l], fulfilled'[l], Sent(fulfillments', l), l)
           /\ StatusRight(status', fulfilled', wh')
  PROVE  Serial'
<1> SUFFICES ASSUME ~ overlapped' PROVE Serial'
  BY DEF Serial
<1>1. ~ overlapped /\ OneAtATime'
  BY StillAlone
<1>2. ASSUME NEW d \in Sessions
      PROVE  Fresh(session'[d], fulfillments', fulfilled', status', wh')
  <2>1. session'[d] = IF d = c THEN Idle ELSE session[d]
    BY DEF IInv, MemoryOK
  <2>2. session'[d].step = "idle"
    BY <1>1, <2>1 DEF Serial, OneAtATime, Idle
  <2> QED BY <2>2, IdleIsFresh
<1> QED BY <1>1, <1>2 DEF Serial

LEMMA SerialReads ==
  ASSUME Serial, IInv, History, NEW c \in Sessions,
         \/ \E request \in Requests : FulfillClean(c, request)
         \/ FulfillRefuse(c)
         \/ \E f \in DOMAIN fulfillments, w \in Stock : RestockCheck(c, f, w)
         \/ RestockLock(c)
         \/ CancelCheck(c)
  PROVE  Serial'
<1> DEFINE Now(m) == Fresh(m, fulfillments, fulfilled, status, wh)
<1>1. ~ overlapped => Now(session[c])
  BY DEF Serial
<1>2. ASSUME NEW request \in Requests, FulfillClean(c, request) PROVE Serial'
  <2> DEFINE m == [step |-> "cleaned", request |-> request, seen |-> fulfilled, order |-> status]
  <2>1. /\ session' = [session EXCEPT ![c] = m]
        /\ UNCHANGED <<wh, fulfilled, fulfillments, status>>
        /\ WithinUnfulfilled(request)
    BY <1>2 DEF FulfillClean
  <2>2. m.step = "cleaned" /\ m.seen = fulfilled /\ m.order = status /\ m.request = request
    OBVIOUS
  <2> HIDE DEF m
  <2>3. Now(m)
    BY <2>1, <2>2 DEF Fresh, WithinUnfulfilled
  <2> QED BY <2>1, <2>3, SerialQuiet
<1>3. CASE FulfillRefuse(c)
  <2>1. session' = [session EXCEPT ![c] = Idle] /\ UNCHANGED <<wh, fulfilled, fulfillments, status>>
    BY <1>3 DEF FulfillRefuse
  <2>2. Idle.step = "idle"
    BY DEF Idle
  <2> QED BY <2>1, <2>2, IdleIsFresh, SerialQuiet
<1>4. ASSUME NEW f \in DOMAIN fulfillments, NEW w \in Stock, RestockCheck(c, f, w) PROVE Serial'
  <2> DEFINE m == [step |-> "checked", target |-> f, warehouse |-> w]
  <2>1. /\ session' = [session EXCEPT ![c] = m]
        /\ UNCHANGED <<wh, fulfilled, fulfillments, status>>
        /\ ~ fulfillments[f].canceled
    BY <1>4 DEF RestockCheck
  <2>2. m.step = "checked" /\ m.target = f
    OBVIOUS
  <2> HIDE DEF m
  <2>3. Now(m)
    BY <2>1, <2>2 DEF Fresh
  <2> QED BY <2>1, <2>3, SerialQuiet
<1>5. CASE RestockLock(c)
  <2> DEFINE t == session[c]
             m == [step |-> "locked", target |-> t.target, warehouse |-> t.warehouse, seen |-> fulfilled]
  <2>1. /\ session' = [session EXCEPT ![c] = m]
        /\ UNCHANGED <<wh, fulfilled, fulfillments, status>>
        /\ t.step = "checked"
    BY <1>5 DEF RestockLock
  <2>2. m.step = "locked" /\ m.target = t.target /\ m.seen = fulfilled
    OBVIOUS
  <2>3. ~ overlapped => ~ fulfillments[t.target].canceled
    BY <1>1, <2>1 DEF Fresh
  <2> HIDE DEF m, t
  <2>4. ~ overlapped => Now(m)
    BY <2>2, <2>3 DEF Fresh
  <2> QED BY <2>1, <2>4, SerialQuiet
<1>6. CASE CancelCheck(c)
  <2> DEFINE m == [step |-> "approved"]
  <2>1. /\ session' = [session EXCEPT ![c] = m]
        /\ UNCHANGED <<wh, fulfilled, fulfillments, status>>
        /\ \A f \in DOMAIN fulfillments : fulfillments[f].canceled
    BY <1>6 DEF CancelCheck, CanCancel
  <2>2. m.step = "approved"
    OBVIOUS
  <2> HIDE DEF m
  <2>3. Now(m)
    BY <2>1, <2>2 DEF Fresh
  <2> QED BY <2>1, <2>3, SerialQuiet
<1> QED BY <1>2, <1>3, <1>4, <1>5, <1>6

LEMMA SerialLocks ==
  ASSUME Serial, IInv, History, NEW c \in Sessions,
         FulfillShip(c) \/ Restock(c) \/ CancelDeallocate(c)
  PROVE  Serial'
<1> DEFINE Now(m) == Fresh(m, fulfillments, fulfilled, status, wh)
           t == session[c]
<1>1. ~ overlapped => Now(t)
  BY DEF Serial
<1>2. CASE FulfillShip(c)
  <2> DEFINE m == [step |-> "fulfilling", request |-> t.request, seen |-> t.seen, order |-> t.order,
                   next |-> StatusOf(Fulfilled(t)), lines |-> LinesOf(t.request)]
  <2>1. /\ session' = [session EXCEPT ![c] = m]
        /\ UNCHANGED <<wh, fulfilled, fulfillments, status>>
        /\ t.step = "cleaned"
    BY <1>2 DEF FulfillShip
  <2>2. /\ m.step = "fulfilling"
        /\ m.request = t.request
        /\ m.seen = t.seen
        /\ m.order = t.order
        /\ m.next = StatusOf(Fulfilled(t))
    OBVIOUS
  <2>3. ~ overlapped => /\ t.seen = fulfilled
                        /\ t.order = status
                        /\ \A l \in Line : Wanted(t.request, l) <= Ordered[l] - fulfilled[l]
    BY <1>1, <2>1 DEF Fresh
  <2> HIDE DEF m, t
  <2>4. FulfillAfter(m, fulfilled) = Fulfilled(t)
    BY <2>2 DEF FulfillAfter, Fulfilled
  <2>5. ~ overlapped => Now(m)
    BY <2>2, <2>3, <2>4 DEF Fresh
  <2> QED BY <2>1, <2>5, SerialQuiet
<1>3. CASE Restock(c)
  <2> DEFINE m == [step |-> "restocking", target |-> t.target, warehouse |-> t.warehouse,
                   seen |-> t.seen, order |-> status, next |-> StatusOf(Unfulfilled(t)),
                   lines |-> LinesIn(t.target)]
  <2>1. /\ session' = [session EXCEPT ![c] = m]
        /\ UNCHANGED <<wh, fulfilled, fulfillments, status>>
        /\ t.step = "locked"
    BY <1>3 DEF Restock
  <2>2. /\ m.step = "restocking"
        /\ m.target = t.target
        /\ m.seen = t.seen
        /\ m.order = status
        /\ m.next = StatusOf(Unfulfilled(t))
    OBVIOUS
  <2>3. ~ overlapped => t.seen = fulfilled /\ ~ fulfillments[t.target].canceled
    BY <1>1, <2>1 DEF Fresh
  <2> HIDE DEF m, t
  <2>4. RestockAfter(m, fulfillments, fulfilled) = Unfulfilled(t)
    BY <2>2 DEF RestockAfter, Unfulfilled, LinesIn
  <2>5. ~ overlapped => Now(m)
    BY <2>2, <2>3, <2>4 DEF Fresh
  <2> QED BY <2>1, <2>5, SerialQuiet
<1>4. CASE CancelDeallocate(c)
  <2> DEFINE m == [step |-> "canceling", lines |-> Holding]
  <2>1. /\ session' = [session EXCEPT ![c] = m]
        /\ UNCHANGED <<wh, fulfilled, fulfillments, status>>
        /\ t.step = "approved"
    BY <1>4 DEF CancelDeallocate
  <2>2. m.step = "canceling" /\ m.lines = Holding
    OBVIOUS
  <2>3. ~ overlapped => \A f \in DOMAIN fulfillments : fulfillments[f].canceled
    BY <1>1, <2>1 DEF Fresh
  <2> HIDE DEF m
  <2>4. ~ overlapped => Now(m)
    BY <2>2, <2>3 DEF Fresh, Holding
  <2> QED BY <2>1, <2>4, SerialQuiet
<1> QED BY <1>2, <1>3, <1>4

\* update_order_status never cancels an order.
LEMMA StatusOfLive == ASSUME NEW f PROVE StatusOf(f) # "canceled"
BY DEF StatusOf

\* The status that a session alone saves is that of the quantities it saves.
LEMMA SavedStatus ==
  ASSUME NEW t, t.order = status, NEW ful, t.next = StatusOf(ful), NEW x
  PROVE  StatusSaved(t) = StatusOf(ful) /\ StatusRight(StatusSaved(t), ful, x)
<1>1. StatusSaved(t) = StatusOf(ful)
  BY DEF StatusSaved
<1> QED BY <1>1, StatusOfLive DEF StatusRight

LEMMA SerialFulfill ==
  ASSUME Serial, IInv, History, NEW c \in Sessions, FulfillCommit(c)
  PROVE  Serial'
<1> DEFINE t == session[c]
<1>1. /\ t.step = "fulfilling"
      /\ wh' = [l \in Line |-> IF l \in LinesOf(t.request) \cap Tracked
                                 THEN ShippedUpTo(t.request, l)[NumStocks]
                                 ELSE wh[l]]
      /\ fulfilled' = Fulfilled(t)
      /\ status' = StatusSaved(t)
      /\ session' = [session EXCEPT ![c] = Idle]
  BY DEF FulfillCommit
<1>2. /\ t.request \in Request
      /\ t.lines = LinesOf(t.request)
      /\ \A l \in t.lines : CanShipFrom(wh[l], t.request, l)
  BY <1>1, SessionFields DEF IInv, MemoryOK, Remembers, Request
<1>3. SUFFICES ASSUME ~ overlapped
               PROVE  /\ \A l \in Line : Books(wh'[l], fulfilled'[l], Sent(fulfillments', l), l)
                      /\ StatusRight(status', fulfilled', wh')
  BY <1>1, SerialCommit
<1>4. /\ t.seen = fulfilled
      /\ t.order = status
      /\ \A l \in Line : Wanted(t.request, l) <= Ordered[l] - fulfilled[l]
      /\ t.next = StatusOf(FulfillAfter(t, fulfilled))
  BY <1>1, <1>3 DEF Serial, Fresh
<1>5. ASSUME NEW l \in Line
      PROVE  Books(wh'[l], fulfilled'[l], Sent(fulfillments', l), l)
  <2> DEFINE k == Wanted(t.request, l)
             n == fulfilled[l]
             has == LineTotal(wh[l], l)
             all == SumTo(wh[l].quantity, NumStocks)
             first == SumTo(InitialQuantity[l], NumStocks)
  <2>1. k \in Nat /\ fulfilled'[l] = n + k /\ Sent(fulfillments', l) = Sent(fulfillments, l) + k
    <3>1. /\ k \in Nat
          /\ Sent(fulfillments', l) = Sent(fulfillments, l) + k
          /\ fulfilled'[l] = IF k > 0 THEN t.seen[l] + k ELSE fulfilled[l]
      BY FulfillAdds
    <3>2. n \in Int /\ t.seen[l] = n
      BY <1>4 DEF IInv, RowsOK
    <3> HIDE DEF t, k
    <3> QED BY <1>4, <3>1, <3>2
  <2>2. /\ n = Sent(fulfillments, l)
        /\ has + n <= Ordered[l]
        /\ l \notin Tracked => has = 0
        /\ l \in Tracked => all + n = first
    BY <1>3 DEF Serial, Books
  <2>3. wh[l] \in WarehouseState /\ \A s \in Stock : Headroom(wh[l], s) >= 0
    BY DEF IInv, RowsOK
  <2>4. n \in Int /\ has \in Nat /\ all \in Int /\ first \in Int /\ Ordered[l] \in Int
    <3>1. \A s \in 1 .. NumStocks : wh[l].quantity[s] \in Int /\ InitialQuantity[l][s] \in Int
      BY <2>3 DEF WarehouseState, Stock
    <3>2. all \in Int /\ first \in Int
      BY <3>1, SumToInt
    <3>3. n \in Int /\ Ordered[l] \in Int
      BY DEF IInv, RowsOK
    <3>4. has \in Nat
      BY <2>3, TotalsNat
    <3> QED BY <3>2, <3>3, <3>4
  <2>5. k <= Ordered[l] - n
    BY <1>4
  <2>6. l \in LinesOf(t.request) <=> k > 0
    BY DEF LinesOf
  <2>7. CASE l \in LinesOf(t.request) \cap Tracked
    <3>1. wh'[l] = ShipFrom(wh[l], t.request, l)[NumStocks]
      BY <1>1, <2>7, ShipsFromItsTable
    <3>2. l \in Tracked /\ CanShipFrom(wh[l], t.request, l)
      BY <1>2, <2>7
    <3> HIDE DEF t
    <3>3. LineTotal(wh'[l], l) = Positive(has - k) /\ SumTo(wh'[l].quantity, NumStocks) = all - k
      BY <1>2, <2>3, <3>1, <3>2, ShipSums
    <3> HIDE DEF k, n, has, all, first
    <3>4. Positive(has - k) + (n + k) <= Ordered[l]
      BY <2>1, <2>2, <2>4, <2>5 DEF Positive
    <3> QED BY <2>1, <2>2, <2>4, <3>2, <3>3, <3>4 DEF Books, first
  <2>8. CASE l \notin LinesOf(t.request) \cap Tracked
    <3>1. wh'[l] = wh[l]
      BY <1>1, <2>8
    <3>2. LineTotal(wh'[l], l) = has /\ SumTo(wh'[l].quantity, NumStocks) = all
      BY <3>1
    <3>3. l \notin Tracked \/ k = 0
      BY <2>1, <2>6, <2>8
    <3> HIDE DEF t, k, n, has, all, first
    <3>4. has + (n + k) <= Ordered[l] /\ (l \in Tracked => all + (n + k) = first)
      BY <2>1, <2>2, <2>4, <2>5, <3>3
    <3> QED BY <2>1, <2>2, <2>4, <3>2, <3>4 DEF Books, first
  <2> QED BY <2>7, <2>8
<1>6. FulfillAfter(t, fulfilled) = fulfilled'
  BY <1>1 DEF FulfillAfter, Fulfilled
<1>7. StatusRight(status', fulfilled', wh')
  <2> HIDE DEF t
  <2> QED BY <1>1, <1>4, <1>6, SavedStatus
<1> QED BY <1>5, <1>7

LEMMA SerialRestock ==
  ASSUME Serial, IInv, History, NEW c \in Sessions, RestockCommit(c)
  PROVE  Serial'
<1> DEFINE t == session[c]
<1>1. /\ t.step = "restocking"
      /\ wh' = [l \in Line |-> Returned(l, t)]
      /\ fulfilled' = Unfulfilled(t)
      /\ status' = StatusSaved(t)
      /\ session' = [session EXCEPT ![c] = Idle]
  BY DEF RestockCommit
<1>2. t.warehouse \in Stock
  BY <1>1, SessionFields DEF IInv, MemoryOK
<1>3. SUFFICES ASSUME ~ overlapped
               PROVE  /\ \A l \in Line : Books(wh'[l], fulfilled'[l], Sent(fulfillments', l), l)
                      /\ StatusRight(status', fulfilled', wh')
  BY <1>1, SerialCommit
<1>4. /\ t.seen = fulfilled
      /\ t.order = status
      /\ ~ fulfillments[t.target].canceled
      /\ t.next = StatusOf(RestockAfter(t, fulfillments, fulfilled))
  BY <1>1, <1>3 DEF Serial, Fresh
<1>5. ASSUME NEW l \in Line
      PROVE  Books(wh'[l], fulfilled'[l], Sent(fulfillments', l), l)
  <2> DEFINE k == fulfillments[t.target].lines[l]
             n == fulfilled[l]
             has == LineTotal(wh[l], l)
             all == SumTo(wh[l].quantity, NumStocks)
             first == SumTo(InitialQuantity[l], NumStocks)
  <2>1. k \in Nat /\ fulfilled'[l] = n - k /\ Sent(fulfillments', l) = Sent(fulfillments, l) - k
    <3>1. /\ k \in Nat
          /\ Sent(fulfillments', l) =
               Sent(fulfillments, l) - (IF fulfillments[t.target].canceled THEN 0 ELSE k)
          /\ fulfilled'[l] = IF k > 0 THEN t.seen[l] - k ELSE fulfilled[l]
      BY RestockTakes
    <3>2. n \in Int /\ t.seen[l] = n
      BY <1>4 DEF IInv, RowsOK
    <3> HIDE DEF t, k
    <3> QED BY <1>4, <3>1, <3>2
  <2>2. /\ n = Sent(fulfillments, l)
        /\ has + n <= Ordered[l]
        /\ l \notin Tracked => has = 0
        /\ l \in Tracked => all + n = first
    BY <1>3 DEF Serial, Books
  <2>3. wh[l] \in WarehouseState
    BY DEF IInv, RowsOK
  <2>4. n \in Int /\ has \in Nat /\ all \in Int /\ first \in Int /\ Ordered[l] \in Int
    <3>1. \A s \in 1 .. NumStocks : wh[l].quantity[s] \in Int /\ InitialQuantity[l][s] \in Int
      BY <2>3 DEF WarehouseState, Stock
    <3>2. all \in Int /\ first \in Int
      BY <3>1, SumToInt
    <3>3. n \in Int /\ Ordered[l] \in Int
      BY DEF IInv, RowsOK
    <3>4. has \in Nat
      BY <2>3, TotalsNat
    <3> QED BY <3>2, <3>3, <3>4
  <2>5. l \in LinesIn(t.target) <=> k > 0
    BY DEF LinesIn
  <2>6. CASE l \in LinesIn(t.target) \cap Tracked
    <3>1. wh'[l] = Increased(wh[l], l, t.warehouse, k, TRUE)
      BY <1>1, <2>6 DEF Returned
    <3> DEFINE w == t.warehouse
               x == wh[l]
    <3>2. x \in WarehouseState /\ k \in Nat /\ w \in Stock
      BY <1>2, <2>1, <2>3
    <3> HIDE DEF k, w, x
    <3>3. LET y == Increased(x, l, w, k, TRUE)
          IN  /\ LineTotal(y, l) = LineTotal(x, l) + k
              /\ SumTo(y.quantity, NumStocks) = SumTo(x.quantity, NumStocks) + k
      BY <3>2, IncreasedSums
    <3>4. LineTotal(wh'[l], l) = has + k /\ SumTo(wh'[l].quantity, NumStocks) = all + k
      BY <3>1, <3>3 DEF x, w
    <3> HIDE DEF n, has, all, first
    <3>5. (has + k) + (n - k) <= Ordered[l] /\ (l \in Tracked => (all + k) + (n - k) = first)
      BY <2>1, <2>2, <2>4
    <3> QED BY <2>1, <2>2, <2>4, <2>6, <3>4, <3>5 DEF Books, first
  <2>7. CASE l \notin LinesIn(t.target) \cap Tracked
    <3>1. wh'[l] = wh[l]
      BY <1>1, <2>7 DEF Returned
    <3>2. LineTotal(wh'[l], l) = has /\ SumTo(wh'[l].quantity, NumStocks) = all
      BY <3>1
    <3>3. l \notin Tracked \/ k = 0
      BY <2>1, <2>5, <2>7
    <3> HIDE DEF t, k, n, has, all, first
    <3>4. has + (n - k) <= Ordered[l] /\ (l \in Tracked => all + (n - k) = first)
      BY <2>1, <2>2, <2>4, <3>3
    <3> QED BY <2>1, <2>2, <2>4, <3>2, <3>4 DEF Books, first
  <2> QED BY <2>6, <2>7
<1>6. RestockAfter(t, fulfillments, fulfilled) = fulfilled'
  BY <1>1 DEF RestockAfter, Unfulfilled, LinesIn
<1>7. StatusRight(status', fulfilled', wh')
  <2> HIDE DEF t
  <2> QED BY <1>1, <1>4, <1>6, SavedStatus
<1> QED BY <1>5, <1>7

\* Terms that are all zero.
AllZero(n, f) == n \in Nat /\ \A i \in 1 .. n : f[i] = 0

LEMMA SumAllZero ==
  ASSUME NEW n, NEW f, AllZero(n, f)
  PROVE  SumTo(f, n) = 0
<1>1. n \in Nat /\ \A i \in 1 .. n : f[i] \in Int /\ f[i] = f[i] + f[i]
  BY DEF AllZero
<1>2. SumTo(f, n) = SumTo(f, n) + SumTo(f, n)
  BY <1>1, SumToAdd
<1>3. SumTo(f, n) \in Int
  BY <1>1, SumToInt
<1>4. \A k \in Int : k = k + k => k = 0
  OBVIOUS
<1> QED BY <1>2, <1>3, <1>4, Zenon

LEMMA NothingSent ==
  ASSUME NEW ff \in Seq(Fulfillment), \A f \in DOMAIN ff : ff[f].canceled, NEW l
  PROVE  Sent(ff, l) = 0
<1> DEFINE h == [f \in DOMAIN ff |-> IF ff[f].canceled THEN 0 ELSE ff[f].lines[l]]
<1>1. AllZero(Len(ff), h)
  BY DEF AllZero
<1> HIDE DEF h
<1>2. SumTo(h, Len(ff)) = 0
  BY <1>1, SumAllZero
<1> QED BY <1>2 DEF Sent, h

LEMMA SerialCancel ==
  ASSUME Serial, IInv, History, NEW c \in Sessions, CancelCommit(c)
  PROVE  Serial'
<1> DEFINE t == session[c]
<1>1. /\ t.step = "canceling"
      /\ wh' = [l \in Line |-> OrderDeallocated(wh[l], {l} \cap t.lines)]
      /\ status' = "canceled"
      /\ session' = [session EXCEPT ![c] = Idle]
      /\ UNCHANGED <<fulfilled, fulfillments>>
  BY DEF CancelCommit
<1>2. SUFFICES ASSUME ~ overlapped
               PROVE  /\ \A l \in Line : Books(wh'[l], fulfilled'[l], Sent(fulfillments', l), l)
                      /\ StatusRight(status', fulfilled', wh')
  BY <1>1, SerialCommit
<1>3. /\ \A f \in DOMAIN fulfillments : fulfillments[f].canceled
      /\ t.lines = {l \in Line : LineTotal(wh[l], l) > 0}
  BY <1>1, <1>2 DEF Serial, Fresh
<1>4. ASSUME NEW l \in Line
      PROVE  /\ Books(wh'[l], fulfilled'[l], Sent(fulfillments', l), l)
             /\ fulfilled'[l] = 0
             /\ LineTotal(wh'[l], l) = 0
  <2> DEFINE lines == {l} \cap t.lines
             x == wh[l]
  <2>1. x \in WarehouseState /\ lines \in SUBSET Line /\ wh'[l] = OrderDeallocated(x, lines)
    BY <1>1 DEF IInv, RowsOK
  <2>2. Books(x, fulfilled[l], Sent(fulfillments, l), l)
    BY <1>2 DEF Serial
  <2>3. Sent(fulfillments, l) = 0
    BY <1>3, NothingSent DEF IInv, RowsOK
  <2>4. l \in lines \/ LineTotal(x, l) = 0
    <3>1. LineTotal(x, l) \in Nat
      BY <2>1, TotalsNat
    <3> QED BY <1>3, <3>1
  <2>5. lines = {} \/ l \in lines
    OBVIOUS
  <2> HIDE DEF lines, x, t
  <2>6. wh'[l].quantity = x.quantity
    BY <2>1, OrderDeallocatedEffect
  <2>7. LineTotal(wh'[l], l) = 0
    <3>1. CASE l \in lines
      BY <2>1, <3>1, OrderDeallocatedHolds
    <3>2. CASE l \notin lines
      <4>1. wh'[l].allocated[l] = x.allocated[l]
        BY <2>1, <3>2 DEF OrderDeallocated, Tables
      <4> QED BY <2>4, <3>2, <4>1 DEF LineTotal
    <3> QED BY <3>1, <3>2
  <2>8. fulfilled'[l] = 0 /\ Sent(fulfillments', l) = 0 /\ fulfilled[l] = 0
    BY <1>1, <2>2, <2>3 DEF Books
  <2>9. 0 + 0 <= Ordered[l]
    OBVIOUS
  <2>10. Books(wh'[l], fulfilled'[l], Sent(fulfillments', l), l)
    BY <2>2, <2>6, <2>7, <2>8, <2>9 DEF Books
  <2> QED BY <2>7, <2>8, <2>10
<1>5. StatusRight(status', fulfilled', wh')
  BY <1>1, <1>4 DEF StatusRight
<1> QED BY <1>4, <1>5

LEMMA SerialStep ==
  ASSUME Serial, IInv, [Next]_vars
  PROVE  Serial'
<1>1. CASE UNCHANGED vars
  BY <1>1 DEF vars, Serial, OneAtATime
<1>2. CASE Next
  <2>1. History
    BY <1>2 DEF Next, History
  <2>2. PICK c \in Sessions : OrderFulfill(c) \/ FulfillmentCancel(c) \/ OrderCancel(c)
    BY <1>2 DEF Next
  <2>3. CASE OrderFulfill(c)
    BY <2>1, <2>3, SerialReads, SerialLocks, SerialFulfill DEF OrderFulfill
  <2>4. CASE FulfillmentCancel(c)
    BY <2>1, <2>4, SerialReads, SerialLocks, SerialRestock DEF FulfillmentCancel
  <2>5. CASE OrderCancel(c)
    BY <2>1, <2>5, SerialReads, SerialLocks, SerialCancel DEF OrderCancel
  <2> QED BY <2>2, <2>3, <2>4, <2>5
<1> QED BY <1>1, <1>2

\* Checkout reserves each tracked line in full.
LEMMA SerialInit == Init => Serial
<1> SUFFICES ASSUME Init PROVE Serial
  OBVIOUS
<1>1. /\ fulfilled = [l \in Line |-> 0]
      /\ fulfillments = <<>>
      /\ status = "unfulfilled"
      /\ session = [c \in Sessions |-> Idle]
  BY DEF Init
<1>2. \A c \in Sessions : session[c].step = "idle"
  BY <1>1 DEF Idle
<1>3. \A c \in Sessions : Fresh(session[c], fulfillments, fulfilled, status, wh)
  BY <1>2, IdleIsFresh
<1>4. ASSUME NEW l \in Line PROVE Books(wh[l], fulfilled[l], Sent(fulfillments, l), l)
  <2> DEFINE x == Unreserved(l)
             y == wh[l]
  <2>1. /\ y \in WarehouseState
        /\ y.quantity = InitialQuantity[l]
        /\ l \in Tracked => y = Allocated(x, l, Ordered[l], NothingCounted)
        /\ l \notin Tracked => y = x
    BY InitTables
  <2>2. /\ x \in WarehouseState
        /\ x.quantity = InitialQuantity[l]
        /\ x.stocks = {s \in Stock : InitialQuantity[l][s] > 0}
        /\ x.allocated[l] = [s \in Stock |-> 0]
    BY DEF Unreserved, Tables, WarehouseState
  <2> HIDE DEF x, y
  <2>3. LineTotal(x, l) = 0
    BY <2>2, SumOfZeros DEF LineTotal
  <2>4. LineTotal(y, l) <= Ordered[l] /\ (l \notin Tracked => LineTotal(y, l) = 0)
    <3>1. CASE l \in Tracked
      <4> DEFINE avail == Available(x, NothingCounted)
      <4>1. NothingCounted \in [Stock -> Nat] /\ Ordered[l] \in Nat
        BY DEF NothingCounted
      <4>2. \A s \in Stock : avail[s] = InitialQuantity[l][s]
        BY <2>2 DEF Available, NothingCounted
      <4> HIDE DEF avail
      <4>3. \A s \in 1 .. NumStocks : PositivePart(avail)[s] = PositivePart(InitialQuantity[l])[s]
        BY <4>2 DEF PositivePart, Stock
      <4>4. Enough(avail, Ordered[l])
        <5>1. SumTo(PositivePart(avail), NumStocks)
                = SumTo(PositivePart(InitialQuantity[l]), NumStocks)
          BY <4>3, SumToEqual
        <5>2. Enough(InitialQuantity[l], Ordered[l])
          BY <3>1
        <5> QED BY <5>1, <5>2 DEF Enough
      <4>5. LineTotal(Allocated(x, l, Ordered[l], NothingCounted), l) <= LineTotal(x, l) + Ordered[l]
        BY <2>2, <4>1, <4>4, ReserveAdds DEF avail
      <4> QED BY <2>1, <2>3, <3>1, <4>1, <4>5
    <3>2. CASE l \notin Tracked
      BY <2>1, <2>3, <3>2
    <3> QED BY <3>1, <3>2
  <2>5. Sent(fulfillments, l) = 0 /\ fulfilled[l] = 0
    <3>1. fulfillments \in Seq(Fulfillment) /\ \A f \in DOMAIN fulfillments : fulfillments[f].canceled
      BY <1>1
    <3> QED BY <1>1, <3>1, NothingSent
  <2>6. LineTotal(y, l) \in Nat /\ Ordered[l] \in Nat
    BY <2>1, TotalsNat
  <2>7. SumTo(y.quantity, NumStocks) = SumTo(InitialQuantity[l], NumStocks)
    BY <2>1
  <2>8. SumTo(InitialQuantity[l], NumStocks) \in Int
    <3>1. \A s \in 1 .. NumStocks : InitialQuantity[l][s] \in Int
      BY DEF Stock
    <3> QED BY <3>1, SumToInt
  <2>9. LineTotal(y, l) + 0 <= Ordered[l]
    BY <2>4, <2>6
  <2>10. SumTo(y.quantity, NumStocks) + 0 = SumTo(InitialQuantity[l], NumStocks)
    BY <2>7, <2>8
  <2> QED BY <2>4, <2>5, <2>9, <2>10 DEF Books, y
<1>5. StatusRight(status, fulfilled, wh)
  <2>1. AllZero(NumLines, fulfilled)
    BY <1>1 DEF AllZero, Line
  <2>2. SumTo(fulfilled, NumLines) = 0
    BY <2>1, SumAllZero
  <2>3. StatusOf(fulfilled) = "unfulfilled"
    BY <2>2 DEF StatusOf
  <2> QED BY <1>1, <2>3 DEF StatusRight
<1> QED BY <1>2, <1>3, <1>4, <1>5 DEF Serial, OneAtATime

LEMMA SerialInvariance == Spec => [](IInv /\ Serial)
<1>1. Init => IInv /\ Serial
  BY InitIInv, SerialInit
<1>2. IInv /\ Serial /\ [Next]_vars => (IInv /\ Serial)'
  BY NextKeeps, SerialStep
<1> QED BY <1>1, <1>2, PTL DEF Spec

\* The three records of a line agree, and no goods appear or vanish.
LEMMA SerialBooks ==
  ASSUME IInv, Serial, ~ overlapped, NEW l \in Line
  PROVE  /\ fulfilled[l] = Shipped(l)
         /\ Shipped(l) \in Nat
         /\ Shipped(l) <= Ordered[l]
         /\ Reserved(l) + Shipped(l) <= Ordered[l]
         /\ l \in Tracked => InStock(l) + Shipped(l) = SumTo(InitialQuantity[l], NumStocks)
<1> DEFINE n == fulfilled[l]
           has == LineTotal(wh[l], l)
<1>1. Books(wh[l], n, Sent(fulfillments, l), l)
  BY DEF Serial
<1>2. Sent(fulfillments, l) \in Nat /\ has \in Nat /\ Ordered[l] \in Nat
  BY SentNat, TotalsNat DEF IInv, RowsOK
<1>3. n = Sent(fulfillments, l) /\ has + n <= Ordered[l]
  BY <1>1 DEF Books
<1>4. l \in Tracked => SumTo(wh[l].quantity, NumStocks) + n = SumTo(InitialQuantity[l], NumStocks)
  BY <1>1 DEF Books
<1>5. Shipped(l) = n /\ Reserved(l) = has
  BY <1>3, ShippedIsSent DEF Reserved
<1> HIDE DEF n, has
<1>6. n <= Ordered[l]
  BY <1>2, <1>3
<1> QED BY <1>2, <1>3, <1>4, <1>5, <1>6 DEF n, InStock

\* As long as mutations come one after another, quantity_fulfilled is what the
\* active fulfillments hold, reservations stay within what is still owed, and
\* the goods in the warehouses and those shipped are those there were at first.
THEOREM BooksStayInAgreement == Spec => []BooksAgree
<1>1. IInv /\ Serial => BooksAgree
  BY SerialBooks DEF BooksAgree
<1> QED BY <1>1, SerialInvariance, PTL

\* Terms below others that sum up to as much are equal to them.
Tight(n, f, g) ==
  /\ n \in Nat
  /\ \A i \in 1 .. n : f[i] \in Int /\ g[i] \in Int /\ f[i] <= g[i]
  /\ SumTo(f, n) >= SumTo(g, n)

LEMMA TightIsEqual ==
  ASSUME NEW n, NEW f, NEW g, Tight(n, f, g), NEW j, j \in 1 .. n
  PROVE  f[j] = g[j]
<1> DEFINE h == [i \in 1 .. n |-> IF i = j THEN g[j] ELSE f[i]]
<1>1. DifferOnce(n, f, h, j) /\ h[j] = g[j]
  BY DEF DifferOnce, Tight
<1> HIDE DEF h
<1>2. SumTo(h, n) = SumTo(f, n) + h[j] - f[j]
  BY <1>1, SumDifferOnce
<1>3. SumTo(h, n) <= SumTo(g, n)
  <2>1. n \in Nat /\ \A i \in 1 .. n : h[i] \in Int /\ g[i] \in Int /\ h[i] <= g[i]
    BY <1>1 DEF Tight, DifferOnce
  <2> QED BY <2>1, SumToMonotone
<1>4. SumTo(f, n) \in Int /\ SumTo(g, n) \in Int
  <2>1. n \in Nat /\ (\A i \in 1 .. n : f[i] \in Int) /\ (\A i \in 1 .. n : g[i] \in Int)
    BY DEF Tight
  <2> QED BY <2>1, SumToInt
<1>5. SumTo(f, n) >= SumTo(g, n) /\ f[j] \in Int /\ g[j] \in Int /\ f[j] <= g[j]
  BY DEF Tight
<1>6. h[j] = g[j]
  BY <1>1
<1> DEFINE a == f[j]
           b == g[j]
           sf == SumTo(f, n)
           sg == SumTo(g, n)
<1>7. a \in Int /\ b \in Int /\ sf \in Int /\ sg \in Int /\ sf >= sg /\ a <= b /\ sf + b - a <= sg
  BY <1>2, <1>3, <1>4, <1>5, <1>6
<1> HIDE DEF a, b, sf, sg
<1>8. a = b
  BY <1>7
<1> QED BY <1>8 DEF a, b

\* What the status that two sums decide says of every line.
LEMMA StatusMeans ==
  ASSUME NEW f, \A l \in Line : f[l] \in Nat /\ f[l] <= Ordered[l]
  PROVE  /\ StatusOf(f) = "unfulfilled" <=> \A l \in Line : f[l] = 0
         /\ StatusOf(f) = "fulfilled" <=> \A l \in Line : f[l] = Ordered[l]
<1> DEFINE n == NumLines
           zero == [l \in Line |-> 0]
           sum == SumTo(f, n)
           all == SumTo(Ordered, n)
<1>1. n \in Nat /\ 1 \in Line /\ Line = 1 .. n
  BY DEF Line
<1>2. SumTo(zero, n) = 0
  BY LineZeros
<1>3. \A l \in Line : zero[l] = 0
  OBVIOUS
<1> HIDE DEF zero, n
<1>4. sum \in Int /\ all \in Int
  <2>1. \A l \in 1 .. n : f[l] \in Int /\ Ordered[l] \in Int
    BY <1>1
  <2> QED BY <1>1, <2>1, SumToInt
<1>5. sum <= 0 <=> \A l \in Line : f[l] = 0
  <2>1. ASSUME sum <= 0 PROVE \A l \in Line : f[l] = 0
    <3>1. Tight(n, zero, f)
      BY <1>1, <1>2, <1>3, <1>4, <2>1 DEF Tight
    <3>2. ASSUME NEW l \in Line PROVE f[l] = 0
      <4>1. l \in 1 .. n
        BY <1>1
      <4>2. zero[l] = f[l]
        BY <3>1, <4>1, TightIsEqual
      <4> QED BY <1>3, <4>2
    <3> QED BY <3>2
  <2>2. ASSUME \A l \in Line : f[l] = 0 PROVE sum <= 0
    <3>1. AllZero(n, f)
      BY <1>1, <2>2 DEF AllZero
    <3>2. sum = 0
      BY <3>1, SumAllZero
    <3> QED BY <3>2
  <2> QED BY <2>1, <2>2
<1>6. all > 0
  <2> SUFFICES ASSUME all <= 0 PROVE FALSE
    BY <1>4
  <2>1. Tight(n, zero, Ordered)
    BY <1>1, <1>2, <1>3, <1>4 DEF Tight
  <2>2. zero[1] = Ordered[1]
    <3>1. 1 \in 1 .. n
      BY <1>1
    <3> QED BY <2>1, <3>1, TightIsEqual
  <2>3. Ordered[1] \in Nat \ {0} /\ zero[1] = 0
    BY <1>1, <1>3
  <2> QED BY <2>2, <2>3
<1>7. sum >= all <=> \A l \in Line : f[l] = Ordered[l]
  <2>1. ASSUME sum >= all PROVE \A l \in Line : f[l] = Ordered[l]
    <3>1. Tight(n, f, Ordered)
      BY <1>1, <1>4, <2>1 DEF Tight
    <3>2. ASSUME NEW l \in Line PROVE f[l] = Ordered[l]
      <4>1. l \in 1 .. n
        BY <1>1
      <4> QED BY <3>1, <4>1, TightIsEqual
    <3> QED BY <3>2
  <2>2. ASSUME \A l \in Line : f[l] = Ordered[l] PROVE sum >= all
    <3>1. \A l \in 1 .. n : f[l] = Ordered[l]
      BY <1>1, <2>2
    <3>2. sum = all
      BY <1>1, <3>1, SumToEqual
    <3> QED BY <1>4, <3>2
  <2> QED BY <2>1, <2>2
<1>8. CASE sum <= 0
  <2>1. StatusOf(f) = "unfulfilled"
    BY <1>4, <1>8 DEF StatusOf, n
  <2>2. ~ (sum >= all)
    BY <1>4, <1>6, <1>8
  <2> QED BY <1>5, <1>7, <1>8, <2>1, <2>2
<1>9. CASE sum > 0 /\ sum < all
  <2>1. ~ (sum <= 0) /\ ~ (sum >= all)
    BY <1>4, <1>9
  <2>2. StatusOf(f) = "partially fulfilled"
    BY <1>9, <2>1 DEF StatusOf, n
  <2> QED BY <1>5, <1>7, <2>1, <2>2
<1>10. CASE sum >= all
  <2>1. ~ (sum <= 0) /\ ~ (sum < all)
    BY <1>4, <1>6, <1>10
  <2>2. StatusOf(f) = "fulfilled"
    BY <2>1 DEF StatusOf, n
  <2> QED BY <1>5, <1>7, <1>10, <2>1, <2>2
<1> QED BY <1>4, <1>8, <1>9, <1>10

\* One after another, the status says of each line what its fulfillments say.
THEOREM StatusSaysWhatIsShipped == Spec => []StatusFollows
<1>1. ASSUME IInv, Serial, ~ overlapped PROVE StatusFollows
  <2>1. /\ \A l \in Line : /\ fulfilled[l] = Shipped(l)
                           /\ Shipped(l) \in Nat
                           /\ Shipped(l) <= Ordered[l]
        /\ \A l \in Line : fulfilled[l] \in Nat /\ fulfilled[l] <= Ordered[l]
    BY <1>1, SerialBooks
  <2>2. StatusRight(status, fulfilled, wh)
    BY <1>1 DEF Serial
  <2>3. CASE status = "canceled"
    BY <2>1, <2>2, <2>3 DEF StatusRight, StatusFollows, Reserved
  <2>4. CASE status # "canceled"
    <3>1. status = StatusOf(fulfilled)
      BY <2>2, <2>4 DEF StatusRight
    <3>2. /\ status = "unfulfilled" <=> \A l \in Line : fulfilled[l] = 0
          /\ status = "fulfilled" <=> \A l \in Line : fulfilled[l] = Ordered[l]
      BY <2>1, <3>1, StatusMeans
    <3> QED BY <2>1, <2>4, <3>2 DEF StatusFollows
  <2> QED BY <2>3, <2>4
<1>2. IInv /\ Serial => StatusFollows
  BY <1>1 DEF StatusFollows
<1> QED BY <1>2, SerialInvariance, PTL
=============================================================================
