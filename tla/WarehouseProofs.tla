---------------------------- MODULE WarehouseProofs ----------------------------
(***************************************************************************)
(* The laws of SumTo, and what the operators of Warehouse return and        *)
(* preserve, for any tables: the lemmas that the proofs about every module  *)
(* built on it rest on.                                                     *)
(***************************************************************************)
EXTENDS Warehouse, WellFoundedInduction, TLAPS

-----------------------------------------------------------------------------
(* Sums.  The library's induction theorems take the predicate as an operator *)
(* parameter, which no installed backend can instantiate, so induction is    *)
(* done on sets: NatSetInduction, from the existence of a least element.     *)

\* Every non-empty set of naturals has a least element.
LEMMA LeastNat ==
  ASSUME NEW T \in SUBSET Nat, T # {}
  PROVE  \E x \in T : \A y \in T : x <= y
<1>1. PICK x \in T : \A y \in T : ~ (<<y, x>> \in OpToRel(<, Nat))
  BY NatLessThanWellFounded, WFMin
<1>2. \A y \in T : ~ (y < x)
  BY <1>1 DEF OpToRel
<1>3. \A y \in T : x <= y
  BY <1>2, T \subseteq Nat, x \in T, SMT
<1> QED BY <1>3

\* A set that holds 0 and is closed under successor holds every natural.
LEMMA NatSetInduction ==
  ASSUME NEW T, 0 \in T, \A n \in Nat : n \in T => n + 1 \in T
  PROVE  Nat \subseteq T
<1> SUFFICES ASSUME Nat \ T # {} PROVE FALSE
  OBVIOUS
<1>1. PICK x \in Nat \ T : \A y \in Nat \ T : x <= y
  BY LeastNat
<1>2. x # 0 /\ x - 1 \in Nat /\ x - 1 \in T
  BY <1>1
<1> QED BY <1>1, <1>2

\* g lists the partial sums of f up to n.
IsSum(g, f, n) == g = [i \in 0 .. n |-> IF i = 0 THEN 0 ELSE g[i - 1] + f[i]]

\* By induction on n: extend the list by one entry.
LEMMA PartialSumExists ==
  ASSUME NEW f, NEW n \in Nat PROVE \E g : IsSum(g, f, n)
<1> DEFINE T == {m \in Nat : \E g : IsSum(g, f, m)}
<1>1. 0 \in T
  <2> DEFINE z == [i \in 0 .. 0 |-> 0]
  <2>1. IsSum(z, f, 0)
    BY DEF IsSum
  <2> QED BY <2>1
<1>2. ASSUME NEW m \in Nat, m \in T PROVE m + 1 \in T
  <2>1. PICK g : IsSum(g, f, m)
    BY <1>2
  <2> DEFINE h == [i \in 0 .. m + 1 |-> IF i = m + 1 THEN g[m] + f[m + 1] ELSE g[i]]
  <2>2. ASSUME NEW i \in 0 .. m + 1
        PROVE  h[i] = IF i = 0 THEN 0 ELSE h[i - 1] + f[i]
    BY <2>1 DEF IsSum
  <2>3. IsSum(h, f, m + 1)
    BY <2>2 DEF IsSum
  <2> HIDE DEF h
  <2> QED BY <2>3
<1> HIDE DEF T
<1>3. Nat \subseteq T
  BY <1>1, <1>2, NatSetInduction
<1> QED BY <1>3 DEF T

\* Two lists of partial sums agree where both are defined.
LEMMA PartialSumUnique ==
  ASSUME NEW f, NEW m \in Nat, NEW n \in Nat, NEW g, NEW h,
         IsSum(g, f, m), IsSum(h, f, n), NEW k \in Nat, k <= m, k <= n
  PROVE  g[k] = h[k]
<1> DEFINE T == {i \in Nat : i <= m /\ i <= n => g[i] = h[i]}
<1>1. 0 \in T
  BY DEF IsSum
<1>2. ASSUME NEW i \in Nat, i \in T PROVE i + 1 \in T
  <2> SUFFICES ASSUME i + 1 <= m, i + 1 <= n PROVE g[i + 1] = h[i + 1]
    OBVIOUS
  <2>1. g[i] = h[i]
    BY <1>2
  <2>2. g[i + 1] = g[i] + f[i + 1] /\ h[i + 1] = h[i] + f[i + 1]
    BY DEF IsSum
  <2> QED BY <2>1, <2>2
<1>3. Nat \subseteq T
  <2> HIDE DEF T
  <2> QED BY <1>1, <1>2, NatSetInduction
<1> QED BY <1>3

\* The recursive function SumTo is the value of.
SumFcn(f) == CHOOSE g : g = [i \in Nat |-> IF i = 0 THEN 0 ELSE g[i - 1] + f[i]]

\* It satisfies its own recursion equation: such a function exists, assembled
\* from the lists of partial sums.
LEMMA SumFcnDef ==
  ASSUME NEW f
  PROVE  SumFcn(f) = [i \in Nat |-> IF i = 0 THEN 0 ELSE SumFcn(f)[i - 1] + f[i]]
<1> DEFINE p(n) == CHOOSE g : IsSum(g, f, n)
           s == [i \in Nat |-> p(i)[i]]
<1>1. ASSUME NEW n \in Nat PROVE IsSum(p(n), f, n)
  BY PartialSumExists
<1> HIDE DEF p
<1>2. ASSUME NEW i \in Nat PROVE s[i] = IF i = 0 THEN 0 ELSE s[i - 1] + f[i]
  <2>1. CASE i = 0
    BY <1>1, <2>1 DEF IsSum
  <2>2. CASE i # 0
    <3>1. i - 1 \in Nat
      BY <2>2
    <3>2. p(i)[i] = p(i)[i - 1] + f[i]
      BY <1>1, <2>2 DEF IsSum
    <3>3. p(i)[i - 1] = p(i - 1)[i - 1]
      <4>1. IsSum(p(i), f, i) /\ IsSum(p(i - 1), f, i - 1)
        BY <1>1, <3>1
      <4> QED BY <4>1, <3>1, PartialSumUnique
    <3> QED BY <2>2, <3>1, <3>2, <3>3
  <2> QED BY <2>1, <2>2
<1>3. s = [i \in Nat |-> IF i = 0 THEN 0 ELSE s[i - 1] + f[i]]
  BY <1>2
<1> HIDE DEF s
<1> QED BY <1>3 DEF SumFcn

\* SumTo is the recursive function, applied.
LEMMA SumToIsSumFcn ==
  ASSUME NEW f, NEW n PROVE SumTo(f, n) = SumFcn(f)[n]
BY DEF SumTo, SumFcn

\* The empty sum.
THEOREM SumToZero == ASSUME NEW f PROVE SumTo(f, 0) = 0
<1>1. SumFcn(f)[0] = 0
  BY SumFcnDef
<1> QED BY <1>1, SumToIsSumFcn

\* One more term.
THEOREM SumToStep ==
  ASSUME NEW f, NEW n \in Nat
  PROVE  SumTo(f, n + 1) = SumTo(f, n) + f[n + 1]
<1>1. SumFcn(f)[n + 1] = SumFcn(f)[n] + f[n + 1]
  BY SumFcnDef
<1> QED BY <1>1, SumToIsSumFcn

\* A sum of naturals is a natural.
THEOREM SumToNat ==
  ASSUME NEW n \in Nat, NEW f, \A i \in 1 .. n : f[i] \in Nat
  PROVE  SumTo(f, n) \in Nat
<1> DEFINE T == {k \in Nat : k <= n => SumTo(f, k) \in Nat}
<1>1. 0 \in T
  BY SumToZero
<1>2. ASSUME NEW k \in Nat, k \in T PROVE k + 1 \in T
  <2> SUFFICES ASSUME k + 1 <= n PROVE SumTo(f, k + 1) \in Nat
    OBVIOUS
  <2>1. SumTo(f, k) \in Nat /\ f[k + 1] \in Nat
    BY <1>2
  <2> QED BY <2>1, SumToStep
<1>3. Nat \subseteq T
  <2> HIDE DEF T
  <2> QED BY <1>1, <1>2, NatSetInduction
<1> QED BY <1>3

\* A sum of integers is an integer.
THEOREM SumToInt ==
  ASSUME NEW n \in Nat, NEW f, \A i \in 1 .. n : f[i] \in Int
  PROVE  SumTo(f, n) \in Int
<1> DEFINE T == {k \in Nat : k <= n => SumTo(f, k) \in Int}
<1>1. 0 \in T
  BY SumToZero
<1>2. ASSUME NEW k \in Nat, k \in T PROVE k + 1 \in T
  <2> SUFFICES ASSUME k + 1 <= n PROVE SumTo(f, k + 1) \in Int
    OBVIOUS
  <2>1. SumTo(f, k) \in Int /\ f[k + 1] \in Int
    BY <1>2
  <2> QED BY <2>1, SumToStep
<1>3. Nat \subseteq T
  <2> HIDE DEF T
  <2> QED BY <1>1, <1>2, NatSetInduction
<1> QED BY <1>3

\* A sum grows with its terms.
THEOREM SumToMonotone ==
  ASSUME NEW n \in Nat, NEW f, NEW g,
         \A i \in 1 .. n : f[i] \in Int /\ g[i] \in Int /\ f[i] <= g[i]
  PROVE  SumTo(f, n) <= SumTo(g, n)
<1> DEFINE T == {k \in Nat : k <= n => SumTo(f, k) <= SumTo(g, k)}
<1>1. 0 \in T
  BY SumToZero
<1>2. ASSUME NEW k \in Nat, k \in T PROVE k + 1 \in T
  <2> SUFFICES ASSUME k + 1 <= n PROVE SumTo(f, k + 1) <= SumTo(g, k + 1)
    OBVIOUS
  <2>1. SumTo(f, k) <= SumTo(g, k)
    BY <1>2
  <2>2. SumTo(f, k) \in Int /\ SumTo(g, k) \in Int
    BY SumToInt
  <2>3. SumTo(f, k + 1) = SumTo(f, k) + f[k + 1] /\ SumTo(g, k + 1) = SumTo(g, k) + g[k + 1]
    BY SumToStep
  <2>4. f[k + 1] \in Int /\ g[k + 1] \in Int /\ f[k + 1] <= g[k + 1]
    OBVIOUS
  <2> QED BY <2>1, <2>2, <2>3, <2>4
<1>3. Nat \subseteq T
  <2> HIDE DEF T
  <2> QED BY <1>1, <1>2, NatSetInduction
<1> QED BY <1>3

\* A sum depends only on its terms.
THEOREM SumToEqual ==
  ASSUME NEW n \in Nat, NEW f, NEW g, \A i \in 1 .. n : f[i] = g[i]
  PROVE  SumTo(f, n) = SumTo(g, n)
<1> DEFINE T == {k \in Nat : k <= n => SumTo(f, k) = SumTo(g, k)}
<1>1. 0 \in T
  BY SumToZero
<1>2. ASSUME NEW k \in Nat, k \in T PROVE k + 1 \in T
  <2> SUFFICES ASSUME k + 1 <= n PROVE SumTo(f, k + 1) = SumTo(g, k + 1)
    OBVIOUS
  <2>1. SumTo(f, k) = SumTo(g, k) /\ f[k + 1] = g[k + 1]
    BY <1>2
  <2> QED BY <2>1, SumToStep
<1>3. Nat \subseteq T
  <2> HIDE DEF T
  <2> QED BY <1>1, <1>2, NatSetInduction
<1> QED BY <1>3

\* Changing one term changes the sum by the difference.
THEOREM SumToChangeOne ==
  ASSUME NEW n \in Nat, NEW f, NEW g, NEW j \in 1 .. n,
         \A i \in 1 .. n : f[i] \in Int /\ g[i] \in Int,
         \A i \in 1 .. n : i # j => g[i] = f[i]
  PROVE  SumTo(g, n) = SumTo(f, n) + g[j] - f[j]
<1> DEFINE T == {k \in Nat : k <= n =>
                   SumTo(g, k) = SumTo(f, k) + (IF j <= k THEN g[j] - f[j] ELSE 0)}
<1>1. 0 \in T
  BY SumToZero
<1>2. ASSUME NEW k \in Nat, k \in T PROVE k + 1 \in T
  <2> SUFFICES ASSUME k + 1 <= n
               PROVE  SumTo(g, k + 1) =
                        SumTo(f, k + 1) + (IF j <= k + 1 THEN g[j] - f[j] ELSE 0)
    OBVIOUS
  <2>1. SumTo(g, k) = SumTo(f, k) + (IF j <= k THEN g[j] - f[j] ELSE 0)
    BY <1>2
  <2>2. SumTo(f, k) \in Int /\ SumTo(g, k) \in Int
    BY SumToInt
  <2>3. SumTo(f, k + 1) = SumTo(f, k) + f[k + 1] /\ SumTo(g, k + 1) = SumTo(g, k) + g[k + 1]
    BY SumToStep
  <2>4. f[k + 1] \in Int /\ g[k + 1] \in Int /\ (k + 1 # j => g[k + 1] = f[k + 1])
    OBVIOUS
  <2> HIDE DEF T
  <2> QED BY <2>1, <2>2, <2>3, <2>4
<1>3. Nat \subseteq T
  <2> HIDE DEF T
  <2> QED BY <1>1, <1>2, NatSetInduction
<1>4. n \in T
  BY <1>3
<1>5. SumTo(f, n) \in Int /\ f[j] \in Int /\ g[j] \in Int
  BY SumToInt
<1> QED BY <1>4, <1>5

\* The sum of termwise sums.
THEOREM SumToAdd ==
  ASSUME NEW n \in Nat, NEW f, NEW g, NEW h,
         \A i \in 1 .. n : f[i] \in Int /\ g[i] \in Int /\ h[i] = f[i] + g[i]
  PROVE  SumTo(h, n) = SumTo(f, n) + SumTo(g, n)
<1> DEFINE T == {k \in Nat : k <= n => SumTo(h, k) = SumTo(f, k) + SumTo(g, k)}
<1>1. 0 \in T
  BY SumToZero
<1>2. ASSUME NEW k \in Nat, k \in T PROVE k + 1 \in T
  <2> SUFFICES ASSUME k + 1 <= n
               PROVE  SumTo(h, k + 1) = SumTo(f, k + 1) + SumTo(g, k + 1)
    OBVIOUS
  <2>1. SumTo(h, k) = SumTo(f, k) + SumTo(g, k)
    BY <1>2
  <2>2. SumTo(f, k) \in Int /\ SumTo(g, k) \in Int
    BY SumToInt
  <2>3. SumTo(f, k + 1) = SumTo(f, k) + f[k + 1] /\ SumTo(g, k + 1) = SumTo(g, k) + g[k + 1]
        /\ SumTo(h, k + 1) = SumTo(h, k) + h[k + 1]
    BY SumToStep
  <2>4. f[k + 1] \in Int /\ g[k + 1] \in Int /\ h[k + 1] = f[k + 1] + g[k + 1]
    OBVIOUS
  <2> HIDE DEF T
  <2> QED BY <2>1, <2>2, <2>3, <2>4
<1>3. Nat \subseteq T
  <2> HIDE DEF T
  <2> QED BY <1>1, <1>2, NatSetInduction
<1> QED BY <1>3

-----------------------------------------------------------------------------
(* The operators of Warehouse. *)

USE SizesAssumption

\* The sums of a well-formed state are naturals.
LEMMA TotalsNat ==
  ASSUME NEW x \in WarehouseState
  PROVE  /\ \A s \in Stock : Total(x, s) \in Nat
         /\ \A l \in Line : LineTotal(x, l) \in Nat
<1>1. ASSUME NEW s \in Stock PROVE Total(x, s) \in Nat
  <2> DEFINE f == [l \in Line |-> x.allocated[l][s]]
  <2>1. \A l \in 1 .. NumLines : f[l] \in Nat
    BY DEF WarehouseState, Line
  <2> HIDE DEF f
  <2>2. SumTo(f, NumLines) \in Nat
    BY <2>1, SumToNat
  <2> QED BY <2>2 DEF Total, f
<1>2. ASSUME NEW l \in Line PROVE LineTotal(x, l) \in Nat
  <2>1. \A s \in 1 .. NumStocks : x.allocated[l][s] \in Nat
    BY DEF WarehouseState, Stock
  <2> QED BY <2>1, SumToNat DEF LineTotal
<1> QED BY <1>1, <1>2

\* The greedy loop takes from a stock no more than it has.
LEMMA TakeBounds ==
  ASSUME NEW avail, \A s \in Stock : avail[s] \in Int, NEW want \in Nat
  PROVE  /\ Take(avail, want) \in [Stock -> Nat]
         /\ \A s \in Stock : Take(avail, want)[s] <= Positive(avail[s])
<1> SUFFICES ASSUME NEW s \in Stock
             PROVE  /\ Take(avail, want)[s] \in Nat
                    /\ Take(avail, want)[s] <= Positive(avail[s])
  BY DEF Take
<1> DEFINE before == SumTo(PositivePart(avail), s - 1)
<1>1. before \in Nat
  <2>1. s - 1 \in Nat /\ \A t \in 1 .. s - 1 : PositivePart(avail)[t] \in Nat
    BY DEF PositivePart, Positive, Stock
  <2> QED BY <2>1, SumToNat
<1> HIDE DEF before
<1>2. Take(avail, want)[s] = Least(Positive(avail[s]), Positive(want - before))
  BY DEF Take, before
<1>3. Positive(avail[s]) \in Nat /\ Positive(want - before) \in Nat
  BY <1>1 DEF Positive
<1> QED BY <1>2, <1>3 DEF Least

\* After k stocks the loop holds what was wanted, or all those stocks had.
LEMMA TakeSum ==
  ASSUME NEW avail, \A s \in Stock : avail[s] \in Int, NEW want \in Nat,
         NEW n \in Nat, n <= NumStocks
  PROVE  SumTo(Take(avail, want), n) = Least(want, SumTo(PositivePart(avail), n))
<1> DEFINE f == Take(avail, want)
           p == PositivePart(avail)
           T == {k \in Nat : k <= NumStocks => SumTo(f, k) = Least(want, SumTo(p, k))}
<1>1. 0 \in T
  BY SumToZero DEF Least
<1>2. ASSUME NEW k \in Nat, k \in T PROVE k + 1 \in T
  <2> SUFFICES ASSUME k + 1 <= NumStocks
               PROVE  SumTo(f, k + 1) = Least(want, SumTo(p, k + 1))
    OBVIOUS
  <2>1. SumTo(f, k) = Least(want, SumTo(p, k))
    BY <1>2
  <2>2. SumTo(f, k + 1) = SumTo(f, k) + f[k + 1] /\ SumTo(p, k + 1) = SumTo(p, k) + p[k + 1]
    BY SumToStep
  <2>3. k + 1 \in Stock /\ (k + 1) - 1 = k
    BY DEF Stock
  <2>4. p[k + 1] = Positive(avail[k + 1]) /\ p[k + 1] \in Nat
    BY <2>3 DEF PositivePart, Positive
  <2>5. f[k + 1] = Least(p[k + 1], Positive(want - SumTo(p, k)))
    BY <2>3, <2>4 DEF Take
  <2>6. SumTo(p, k) \in Nat
    <3>1. \A t \in 1 .. k : p[t] \in Nat
      BY DEF PositivePart, Positive, Stock
    <3> HIDE DEF p
    <3> QED BY <3>1, SumToNat
  <2> HIDE DEF f, p, T
  <2> QED BY <2>1, <2>2, <2>4, <2>5, <2>6 DEF Least, Positive
<1>3. Nat \subseteq T
  <2> HIDE DEF T
  <2> QED BY <1>1, <1>2, NatSetInduction
<1> QED BY <1>3

\* So when there is enough, the loop ends with exactly what was wanted.
LEMMA TakeExact ==
  ASSUME NEW avail, \A s \in Stock : avail[s] \in Int, NEW want \in Nat,
         Enough(avail, want)
  PROVE  SumTo(Take(avail, want), NumStocks) = want
<1>1. SumTo(Take(avail, want), NumStocks) = Least(want, SumTo(PositivePart(avail), NumStocks))
  BY TakeSum
<1>2. SumTo(PositivePart(avail), NumStocks) \in Nat
  <2>1. \A t \in 1 .. NumStocks : PositivePart(avail)[t] \in Nat
    BY DEF PositivePart, Positive, Stock
  <2> QED BY <2>1, SumToNat
<1> QED BY <1>1, <1>2 DEF Enough, Least

-----------------------------------------------------------------------------
(* What each operation does to the type and to the totals. *)

\* What the loops of allocate_stock see available is an integer per stock.
LEMMA AvailableInt ==
  ASSUME NEW x \in WarehouseState, NEW counted \in [Stock -> Nat]
  PROVE  \A s \in Stock : Available(x, counted)[s] \in Int
BY DEF WarehouseState, Available

\* A state differs from another in the allocations of one line only: the total
\* of every stock changes by what that line's share of it changes.
LEMMA TotalChangeOne ==
  ASSUME NEW x \in WarehouseState, NEW y \in WarehouseState, NEW l \in Line,
         \A k \in Line : k # l => y.allocated[k] = x.allocated[k],
         NEW s \in Stock
  PROVE  Total(y, s) = Total(x, s) + y.allocated[l][s] - x.allocated[l][s]
<1> DEFINE f == [k \in Line |-> x.allocated[k][s]]
           g == [k \in Line |-> y.allocated[k][s]]
<1>1. \A k \in 1 .. NumLines : f[k] \in Int /\ g[k] \in Int
  BY DEF WarehouseState, Line
<1>2. \A k \in 1 .. NumLines : k # l => g[k] = f[k]
  BY DEF Line
<1>3. f[l] = x.allocated[l][s] /\ g[l] = y.allocated[l][s] /\ l \in 1 .. NumLines
  BY DEF Line
<1>4. SumTo(g, NumLines) = SumTo(f, NumLines) + g[l] - f[l]
  <2> HIDE DEF f, g
  <2> QED BY <1>1, <1>2, <1>3, SumToChangeOne
<1> HIDE DEF f, g
<1> QED BY <1>3, <1>4 DEF Total, f, g

\* allocate_stock adds at most its plan to a stock's total.
LEMMA AllocatedEffect ==
  ASSUME NEW x \in WarehouseState, NEW l \in Line, NEW want \in Nat,
         NEW counted \in [Stock -> Nat]
  PROVE  LET y == Allocated(x, l, want, counted)
             plan == Take(Available(x, counted), want)
         IN  /\ y \in WarehouseState
             /\ y.quantity = x.quantity
             /\ \A s \in Stock : Total(y, s) <= Total(x, s) + plan[s]
<1> DEFINE y == Allocated(x, l, want, counted)
           plan == Take(Available(x, counted), want)
<1>1. plan \in [Stock -> Nat]
  BY AvailableInt, TakeBounds
<1> HIDE DEF plan
<1> DEFINE new == [s \in Stock |-> IF plan[s] > 0 THEN plan[s] ELSE x.allocated[l][s]]
           more == {<<l, s>> : s \in {t \in Stock : plan[t] > 0}}
<1>2. y = Tables(x.stocks, x.quantity, x.rows \union more, [x.allocated EXCEPT ![l] = new])
  BY DEF Allocated, plan
<1>0. new \in [Stock -> Nat] /\ more \subseteq Line \X Stock
  BY <1>1 DEF WarehouseState
<1> HIDE DEF y, more
<1>3. y \in WarehouseState
  <2> HIDE DEF new
  <2> QED BY <1>0, <1>2 DEF WarehouseState, Tables
<1>4. y.quantity = x.quantity /\ \A k \in Line : k # l => y.allocated[k] = x.allocated[k]
  BY <1>2 DEF WarehouseState, Tables
<1>5. ASSUME NEW s \in Stock PROVE Total(y, s) <= Total(x, s) + plan[s]
  <2>1. Total(y, s) = Total(x, s) + y.allocated[l][s] - x.allocated[l][s]
    BY <1>3, <1>4, TotalChangeOne
  <2>2. y.allocated[l][s] = IF plan[s] > 0 THEN plan[s] ELSE x.allocated[l][s]
    BY <1>2 DEF WarehouseState, Tables
  <2>3. x.allocated[l][s] \in Nat /\ Total(x, s) \in Nat /\ plan[s] \in Nat
    BY <1>1, TotalsNat DEF WarehouseState
  <2> QED BY <2>1, <2>2, <2>3
<1> QED BY <1>3, <1>4, <1>5 DEF y, plan

\* Lowering some allocations of one line lowers every total.
LEMMA LoweringOneLine ==
  ASSUME NEW x \in WarehouseState, NEW l \in Line, NEW f \in [Stock -> Nat],
         \A s \in Stock : f[s] <= x.allocated[l][s]
  PROVE  LET y == LineHolds(x, l, f)
         IN  /\ y \in WarehouseState
             /\ y.quantity = x.quantity
             /\ \A s \in Stock : Total(y, s) <= Total(x, s)
<1> DEFINE y == LineHolds(x, l, f)
<1>1. /\ y \in WarehouseState
      /\ y.quantity = x.quantity
      /\ \A k \in Line : k # l => y.allocated[k] = x.allocated[k]
      /\ y.allocated[l] = f
  BY DEF WarehouseState, LineHolds, Tables
<1> HIDE DEF y
<1>2. ASSUME NEW s \in Stock PROVE Total(y, s) <= Total(x, s)
  <2>1. Total(y, s) = Total(x, s) + f[s] - x.allocated[l][s]
    BY <1>1, TotalChangeOne
  <2>2. f[s] \in Nat /\ x.allocated[l][s] \in Nat /\ Total(x, s) \in Nat
    BY TotalsNat DEF WarehouseState
  <2> QED BY <2>1, <2>2
<1> QED BY <1>1, <1>2 DEF y

\* deallocate_stock takes from each allocation no more than it holds.
LEMMA DeallocatedEffect ==
  ASSUME NEW x \in WarehouseState, NEW l \in Line, NEW n \in Nat
  PROVE  LET y == Deallocated(x, l, n)
         IN  /\ y \in WarehouseState
             /\ y.quantity = x.quantity
             /\ \A s \in Stock : Total(y, s) <= Total(x, s)
<1> DEFINE a == x.allocated[l]
           f == [s \in Stock |-> a[s] - Take(a, n)[s]]
<1>1. a \in [Stock -> Nat]
  BY DEF WarehouseState
<1>2. /\ Take(a, n) \in [Stock -> Nat]
      /\ \A s \in Stock : Take(a, n)[s] <= Positive(a[s])
  BY <1>1, TakeBounds
<1>3. f \in [Stock -> Nat] /\ \A s \in Stock : f[s] <= x.allocated[l][s]
  BY <1>1, <1>2 DEF Positive
<1>4. Deallocated(x, l, n) = LineHolds(x, l, f)
  BY DEF Deallocated
<1> HIDE DEF f
<1> QED BY <1>3, <1>4, LoweringOneLine

\* The first half of decrease_stock, whichever branch it takes.
LEMMA ReleasedEffect ==
  ASSUME NEW x \in WarehouseState, NEW l \in Line, NEW n \in Nat
  PROVE  LET y == Released(x, l, n)
         IN  /\ y \in WarehouseState
             /\ y.quantity = x.quantity
             /\ \A s \in Stock : Total(y, s) <= Total(x, s)
<1> DEFINE zero == [s \in Stock |-> 0]
<1>1. zero \in [Stock -> Nat] /\ \A s \in Stock : zero[s] <= x.allocated[l][s]
  BY DEF WarehouseState
<1>2. CASE CanDeallocate(x, l, n)
  BY <1>2, DeallocatedEffect DEF Released
<1>3. CASE ~ CanDeallocate(x, l, n)
  <2>1. Released(x, l, n) = LineHolds(x, l, zero)
    BY <1>3 DEF Released
  <2> HIDE DEF zero
  <2> QED BY <1>1, <2>1, LoweringOneLine
<1> QED BY <1>2, <1>3

\* increase_stock never shrinks a stock's headroom.
LEMMA IncreasedEffect ==
  ASSUME NEW x \in WarehouseState, NEW l \in Line, NEW w \in Stock,
         NEW n \in Nat, NEW allocate \in BOOLEAN
  PROVE  LET y == Increased(x, l, w, n, allocate)
         IN  /\ y \in WarehouseState
             /\ \A s \in Stock : Headroom(y, s) >= Headroom(x, s)
<1> DEFINE y == Increased(x, l, w, n, allocate)
<1>1. /\ y \in WarehouseState
      /\ \A k \in Line : k # l => y.allocated[k] = x.allocated[k]
      /\ \A s \in Stock : y.quantity[s] = IF s = w THEN x.quantity[s] + n ELSE x.quantity[s]
      /\ \A s \in Stock : y.allocated[l][s] =
            IF s = w /\ allocate THEN x.allocated[l][s] + n ELSE x.allocated[l][s]
  BY DEF Increased, WarehouseState, Tables
<1> HIDE DEF y
<1>2. ASSUME NEW s \in Stock PROVE Headroom(y, s) >= Headroom(x, s)
  <2>1. Total(y, s) = Total(x, s) + y.allocated[l][s] - x.allocated[l][s]
    BY <1>1, TotalChangeOne
  <2>2. /\ x.allocated[l][s] \in Nat /\ x.quantity[s] \in Nat /\ Total(x, s) \in Nat
    BY TotalsNat DEF WarehouseState
  <2> QED BY <1>1, <2>1, <2>2 DEF Headroom
<1> QED BY <1>1, <1>2 DEF y

\* decrease_stock leaves the warehouse it ships from with enough for every
\* reservation, and shrinks no other stock's headroom.
LEMMA DecreasedEffect ==
  ASSUME NEW x \in WarehouseState, NEW l \in Line, NEW n \in Nat, NEW w \in Stock,
         CanDecrease(x, l, n, w)
  PROVE  LET y == Decreased(x, l, n, w)
         IN  /\ y \in WarehouseState
             /\ Headroom(y, w) >= 0
             /\ \A s \in Stock : s # w => Headroom(y, s) >= Headroom(x, s)
<1> DEFINE r == Released(x, l, n)
           y == Tables(r.stocks, [r.quantity EXCEPT ![w] = @ - n], r.rows, r.allocated)
<1>1. /\ r \in WarehouseState
      /\ r.quantity = x.quantity
      /\ \A s \in Stock : Total(r, s) <= Total(x, s)
  BY ReleasedEffect
<1>2. Headroom(r, w) >= n
  BY DEF CanDecrease
<1> HIDE DEF r
<1>3. \A s \in Stock : Total(r, s) \in Nat /\ Total(x, s) \in Nat
                       /\ r.quantity[s] \in Nat /\ x.quantity[s] \in Nat
  BY <1>1, TotalsNat DEF WarehouseState
<1>4. r.quantity[w] - n \in Nat
  BY <1>2, <1>3 DEF Headroom
<1>5. /\ y \in WarehouseState
      /\ y.allocated = r.allocated
      /\ y.quantity[w] = r.quantity[w] - n
      /\ \A s \in Stock : s # w => y.quantity[s] = r.quantity[s]
  BY <1>1, <1>4 DEF WarehouseState, Tables
<1> HIDE DEF y
<1>6. \A s \in Stock : Total(y, s) = Total(r, s)
  BY <1>5 DEF Total
<1>7. Headroom(y, w) >= 0
  BY <1>2, <1>3, <1>5, <1>6 DEF Headroom
<1>8. \A s \in Stock : s # w => Headroom(y, s) >= Headroom(x, s)
  BY <1>1, <1>3, <1>5, <1>6 DEF Headroom
<1>9. Decreased(x, l, n, w) = y
  BY DEF Decreased, r, y
<1> QED BY <1>5, <1>7, <1>8, <1>9

\* Cancelling an order's allocations lowers every total.
LEMMA OrderDeallocatedEffect ==
  ASSUME NEW x \in WarehouseState, NEW lines \in SUBSET Line
  PROVE  LET y == OrderDeallocated(x, lines)
         IN  /\ y \in WarehouseState
             /\ y.quantity = x.quantity
             /\ \A s \in Stock : Total(y, s) <= Total(x, s)
<1> DEFINE y == OrderDeallocated(x, lines)
<1>1. /\ y \in WarehouseState
      /\ y.quantity = x.quantity
      /\ \A l \in Line, s \in Stock : y.allocated[l][s] <= x.allocated[l][s]
  BY DEF OrderDeallocated, WarehouseState, Tables
<1> HIDE DEF y
<1>2. ASSUME NEW s \in Stock PROVE Total(y, s) <= Total(x, s)
  <2> DEFINE f == [l \in Line |-> y.allocated[l][s]]
             g == [l \in Line |-> x.allocated[l][s]]
  <2>1. \A l \in 1 .. NumLines : f[l] \in Int /\ g[l] \in Int /\ f[l] <= g[l]
    BY <1>1 DEF WarehouseState, Line
  <2>2. SumTo(f, NumLines) <= SumTo(g, NumLines)
    <3> HIDE DEF f, g
    <3> QED BY <2>1, SumToMonotone
  <2> QED BY <2>2 DEF Total
<1> QED BY <1>1, <1>2 DEF y

\* Staff operations keep the type; only the deletion touches the totals.
LEMMA StaffEffect ==
  ASSUME NEW x \in WarehouseState, NEW s \in Stock, NEW n \in Nat
  PROVE  /\ QuantitySet(x, s, n) \in WarehouseState
         /\ StockDeleted(x, s) \in WarehouseState
         /\ \A t \in Stock : Total(QuantitySet(x, s, n), t) = Total(x, t)
         /\ \A t \in Stock : Total(StockDeleted(x, s), t) <= Total(x, t)
<1>1. QuantitySet(x, s, n) \in WarehouseState
      /\ QuantitySet(x, s, n).allocated = x.allocated
  BY DEF QuantitySet, WarehouseState, Tables
<1> DEFINE y == StockDeleted(x, s)
<1>2. /\ y \in WarehouseState
      /\ \A l \in Line, t \in Stock : y.allocated[l][t] <= x.allocated[l][t]
  BY DEF StockDeleted, WarehouseState, Tables
<1> HIDE DEF y
<1>3. ASSUME NEW t \in Stock PROVE Total(y, t) <= Total(x, t)
  <2> DEFINE f == [l \in Line |-> y.allocated[l][t]]
             g == [l \in Line |-> x.allocated[l][t]]
  <2>1. \A l \in 1 .. NumLines : f[l] \in Int /\ g[l] \in Int /\ f[l] <= g[l]
    <3>1. \A l \in Line : y.allocated[l][t] \in Nat /\ x.allocated[l][t] \in Nat
      BY <1>2 DEF WarehouseState
    <3> QED BY <1>2, <3>1 DEF Line
  <2>2. SumTo(f, NumLines) <= SumTo(g, NumLines)
    <3> HIDE DEF f, g
    <3> QED BY <2>1, SumToMonotone
  <2> QED BY <2>2 DEF Total
<1> QED BY <1>1, <1>2, <1>3 DEF y, Total

-----------------------------------------------------------------------------
(* decrease_stock gives back exactly what was asked. *)

\* A sum of zeros is zero.
LEMMA SumOfZeros == SumTo([s \in Stock |-> 0], NumStocks) = 0
<1> DEFINE zero == [s \in Stock |-> 0]
<1>1. \A s \in 1 .. NumStocks : zero[s] \in Int /\ zero[s] = zero[s] + zero[s]
  BY DEF Stock
<1> HIDE DEF zero
<1>2. SumTo(zero, NumStocks) = SumTo(zero, NumStocks) + SumTo(zero, NumStocks)
  BY <1>1, SumToAdd
<1>3. SumTo(zero, NumStocks) \in Int
  BY <1>1, SumToInt
<1>4. \A k \in Int : k = k + k => k = 0
  OBVIOUS
<1>5. SumTo(zero, NumStocks) = 0
  BY <1>2, <1>3, <1>4, Zenon
<1> QED BY <1>5 DEF zero

\* The line gives back n of what it holds, or all of it when it holds less.
LEMMA ReleasedSum ==
  ASSUME NEW x \in WarehouseState, NEW l \in Line, NEW n \in Nat
  PROVE  /\ LineTotal(Released(x, l, n), l) = Positive(LineTotal(x, l) - n)
         /\ \A k \in Line : k # l => Released(x, l, n).allocated[k] = x.allocated[k]
         /\ Released(x, l, n).quantity = x.quantity
<1> DEFINE a == x.allocated[l]
           take == Take(a, n)
           f == [s \in Stock |-> a[s] - take[s]]
           zero == [s \in Stock |-> 0]
<1>1. a \in [Stock -> Nat] /\ x.allocated \in [Line -> [Stock -> Nat]]
  BY DEF WarehouseState
<1>2. LineTotal(x, l) \in Nat /\ LineTotal(x, l) = SumTo(a, NumStocks)
  BY TotalsNat DEF LineTotal
<1>3. CASE CanDeallocate(x, l, n)
  <2>1. \A s \in Stock : a[s] \in Int /\ PositivePart(a)[s] = a[s]
    BY <1>1 DEF PositivePart, Positive
  <2>2. SumTo(PositivePart(a), NumStocks) = SumTo(a, NumStocks)
    <3>1. \A s \in 1 .. NumStocks : PositivePart(a)[s] = a[s]
      BY <2>1 DEF Stock
    <3> HIDE DEF a
    <3> QED BY <3>1, SumToEqual
  <2>3. Enough(a, n)
    BY <1>2, <1>3, <2>2 DEF Enough, CanDeallocate
  <2>4. take \in [Stock -> Nat] /\ SumTo(take, NumStocks) = n
    <3> HIDE DEF a
    <3> QED BY <2>1, <2>3, TakeBounds, TakeExact
  <2> HIDE DEF take
  <2>5. \A s \in 1 .. NumStocks : f[s] \in Int /\ take[s] \in Int /\ a[s] = f[s] + take[s]
    BY <1>1, <2>4 DEF Stock
  <2>6. SumTo(a, NumStocks) = SumTo(f, NumStocks) + n /\ SumTo(f, NumStocks) \in Int
    <3> HIDE DEF a, f
    <3> QED BY <2>4, <2>5, SumToAdd, SumToInt
  <2>7. Released(x, l, n) = LineHolds(x, l, f)
    BY <1>3 DEF Released, Deallocated, take
  <2> HIDE DEF f, a
  <2>8. LineTotal(Released(x, l, n), l) = SumTo(f, NumStocks)
    BY <1>1, <2>7 DEF LineTotal, LineHolds, Tables
  <2>9. LineTotal(x, l) >= n
    BY <1>3 DEF CanDeallocate
  <2> QED BY <1>1, <1>2, <2>6, <2>7, <2>8, <2>9 DEF LineHolds, Tables, Positive
<1>4. CASE ~ CanDeallocate(x, l, n)
  <2>1. Released(x, l, n) = LineHolds(x, l, zero)
    BY <1>4 DEF Released
  <2>2. LineTotal(Released(x, l, n), l) = SumTo(zero, NumStocks)
    <3> HIDE DEF zero
    <3> QED BY <1>1, <2>1 DEF LineTotal, LineHolds, Tables
  <2>3. SumTo(zero, NumStocks) = 0
    BY SumOfZeros
  <2>4. ~ (LineTotal(x, l) - n > 0)
    BY <1>2, <1>4 DEF CanDeallocate
  <2> HIDE DEF zero
  <2> QED BY <1>1, <2>1, <2>2, <2>3, <2>4 DEF LineHolds, Tables, Positive
<1> QED BY <1>3, <1>4

\* What a reservation adds to the line.
LEMMA ReserveAdds ==
  ASSUME NEW x \in WarehouseState, NEW l \in Line, NEW n \in Nat, NEW counted \in [Stock -> Nat],
         Enough(Available(x, counted), n)
  PROVE  LineTotal(Allocated(x, l, n, counted), l) <= LineTotal(x, l) + n
<1> DEFINE plan == Take(Available(x, counted), n)
           old == x.allocated[l]
           new == Allocated(x, l, n, counted).allocated[l]
           both == [s \in Stock |-> old[s] + plan[s]]
<1>1. plan \in [Stock -> Nat] /\ SumTo(plan, NumStocks) = n
  BY AvailableInt, TakeBounds, TakeExact
<1>2. old \in [Stock -> Nat]
  BY DEF WarehouseState
<1>3. new = [s \in Stock |-> IF plan[s] > 0 THEN plan[s] ELSE old[s]]
  BY DEF Allocated, Tables, WarehouseState
<1>4. LineTotal(Allocated(x, l, n, counted), l) = SumTo(new, NumStocks)
      /\ LineTotal(x, l) = SumTo(old, NumStocks)
  BY DEF LineTotal
<1> HIDE DEF plan, old, new
<1>5. \A s \in 1 .. NumStocks :
        /\ old[s] \in Int
        /\ plan[s] \in Int
        /\ new[s] \in Int
        /\ both[s] \in Int
        /\ both[s] = old[s] + plan[s]
        /\ new[s] <= both[s]
  <2> SUFFICES ASSUME NEW s \in Stock
               PROVE  /\ old[s] \in Int /\ plan[s] \in Int
                      /\ new[s] \in Int /\ new[s] <= old[s] + plan[s]
    BY DEF Stock
  <2>1. old[s] \in Nat /\ plan[s] \in Nat
    BY <1>1, <1>2
  <2>2. new[s] = IF plan[s] > 0 THEN plan[s] ELSE old[s]
    BY <1>3
  <2> QED BY <2>1, <2>2
<1> HIDE DEF both
<1>6. SumTo(new, NumStocks) <= SumTo(both, NumStocks)
  BY <1>5, SumToMonotone
<1>7. SumTo(both, NumStocks) = SumTo(old, NumStocks) + SumTo(plan, NumStocks)
  BY <1>5, SumToAdd
<1> QED BY <1>1, <1>4, <1>6, <1>7

\* Two tables of the stocks that differ by d at stock w only.
DifferAt(f, g, w, d) ==
  /\ w \in Stock
  /\ d \in Int
  /\ \A s \in Stock : f[s] \in Int
  /\ \A s \in Stock : s # w => g[s] = f[s]
  /\ g[w] = f[w] + d

LEMMA SumDifferAt ==
  ASSUME NEW f, NEW g, NEW w, NEW d, DifferAt(f, g, w, d)
  PROVE  SumTo(g, NumStocks) = SumTo(f, NumStocks) + d
<1>1. NumStocks \in Nat /\ w \in 1 .. NumStocks /\ d \in Int
  BY DEF DifferAt, Stock
<1>2. \A s \in 1 .. NumStocks : f[s] \in Int /\ g[s] \in Int
  BY DEF DifferAt, Stock
<1>3. \A s \in 1 .. NumStocks : s # w => g[s] = f[s]
  BY DEF DifferAt, Stock
<1>4. SumTo(g, NumStocks) = SumTo(f, NumStocks) + g[w] - f[w]
  BY <1>1, <1>2, <1>3, SumToChangeOne
<1>5. SumTo(f, NumStocks) \in Int
  BY <1>1, <1>2, SumToInt
<1>6. g[w] = f[w] + d /\ f[w] \in Int
  BY <1>1, <1>2 DEF DifferAt
<1> QED BY <1>1, <1>4, <1>5, <1>6

\* decrease_stock takes n goods from the shelves, and from the line what it holds
\* of them; increase_stock brings both back.
LEMMA DecreasedSums ==
  ASSUME NEW x \in WarehouseState, NEW l \in Line, NEW n \in Nat, NEW w \in Stock
  PROVE  LET y == Decreased(x, l, n, w)
         IN  /\ LineTotal(y, l) = Positive(LineTotal(x, l) - n)
             /\ SumTo(y.quantity, NumStocks) = SumTo(x.quantity, NumStocks) - n
<1> DEFINE r == Released(x, l, n)
           y == Decreased(x, l, n, w)
<1>1. LineTotal(r, l) = Positive(LineTotal(x, l) - n) /\ r.quantity = x.quantity
  BY ReleasedSum
<1>2. y.allocated = r.allocated /\ y.quantity = [r.quantity EXCEPT ![w] = @ - n]
  BY DEF Decreased, Tables
<1>3. x.quantity \in [Stock -> Nat]
  BY DEF WarehouseState
<1> HIDE DEF r, y
<1>4. DifferAt(x.quantity, y.quantity, w, 0 - n)
  BY <1>1, <1>2, <1>3 DEF DifferAt
<1>5. SumTo(y.quantity, NumStocks) = SumTo(x.quantity, NumStocks) + (0 - n)
  BY <1>4, SumDifferAt
<1>6. SumTo(x.quantity, NumStocks) \in Int
  <2>1. \A s \in 1 .. NumStocks : x.quantity[s] \in Int
    BY <1>3 DEF Stock
  <2> QED BY <2>1, SumToInt
<1>7. LineTotal(y, l) = LineTotal(r, l)
  BY <1>2 DEF LineTotal
<1> QED BY <1>1, <1>5, <1>6, <1>7 DEF y

LEMMA IncreasedSums ==
  ASSUME NEW x \in WarehouseState, NEW l \in Line, NEW n \in Nat, NEW w \in Stock
  PROVE  LET y == Increased(x, l, w, n, TRUE)
         IN  /\ LineTotal(y, l) = LineTotal(x, l) + n
             /\ SumTo(y.quantity, NumStocks) = SumTo(x.quantity, NumStocks) + n
<1> DEFINE y == Increased(x, l, w, n, TRUE)
<1>1. /\ y.allocated = [x.allocated EXCEPT ![l][w] = @ + n]
      /\ y.quantity = [x.quantity EXCEPT ![w] = @ + n]
  BY DEF Increased, Tables
<1>2. x.quantity \in [Stock -> Nat] /\ x.allocated \in [Line -> [Stock -> Nat]]
  BY DEF WarehouseState
<1> HIDE DEF y
<1>3. DifferAt(x.quantity, y.quantity, w, n)
  BY <1>1, <1>2 DEF DifferAt
<1>4. DifferAt(x.allocated[l], y.allocated[l], w, n)
  BY <1>1, <1>2 DEF DifferAt
<1>5. LineTotal(y, l) = LineTotal(x, l) + n
  BY <1>4, SumDifferAt DEF LineTotal
<1> QED BY <1>3, <1>5, SumDifferAt DEF y

\* A canceled order's line holds nothing.
LEMMA OrderDeallocatedHolds ==
  ASSUME NEW x \in WarehouseState, NEW l \in Line, NEW lines, l \in lines
  PROVE  LineTotal(OrderDeallocated(x, lines), l) = 0
<1>1. OrderDeallocated(x, lines).allocated[l] = [s \in Stock |-> 0]
  BY DEF OrderDeallocated, Tables
<1> QED BY <1>1, SumOfZeros DEF LineTotal

-----------------------------------------------------------------------------
(* Sums over both tables. *)

\* What the lines hold is what the stocks have promised: the rows of Allocation,
\* summed by line or by stock.
LEMMA PromisedIsTotals ==
  ASSUME NEW x \in WarehouseState
  PROVE  SumTo([l \in Line |-> LineTotal(x, l)], NumLines)
           = SumTo([s \in Stock |-> Total(x, s)], NumStocks)
<1> DEFINE a == x.allocated
           column(s) == [l \in Line |-> a[l][s]]
           F == [l \in Line |-> LineTotal(x, l)]
           G(n) == [s \in Stock |-> SumTo(column(s), n)]
           T == {n \in Nat : n <= NumLines => SumTo(F, n) = SumTo(G(n), NumStocks)}
<1>1. a \in [Line -> [Stock -> Nat]]
  BY DEF WarehouseState
<1>2. \A s \in Stock, l \in Line : column(s)[l] \in Int
  BY <1>1
<1>3. \A s \in Stock, n \in Nat : n <= NumLines => SumTo(column(s), n) \in Int
  <2> SUFFICES ASSUME NEW s \in Stock, NEW n \in Nat, n <= NumLines
               PROVE  SumTo(column(s), n) \in Int
    OBVIOUS
  <2>1. \A l \in 1 .. n : column(s)[l] \in Int
    BY <1>2 DEF Line
  <2> HIDE DEF column
  <2> QED BY <2>1, SumToInt
<1>4. 0 \in T
  <2>1. G(0) = [s \in Stock |-> 0]
    <3> HIDE DEF column
    <3> QED BY SumToZero
  <2>2. SumTo(G(0), NumStocks) = 0
    <3> HIDE DEF G
    <3> QED BY <2>1, SumOfZeros
  <2> HIDE DEF G, F
  <2> QED BY <2>2, SumToZero
<1>5. ASSUME NEW k \in Nat, k \in T PROVE k + 1 \in T
  <2> SUFFICES ASSUME k + 1 <= NumLines
               PROVE  SumTo(F, k + 1) = SumTo(G(k + 1), NumStocks)
    OBVIOUS
  <2>1. SumTo(F, k) = SumTo(G(k), NumStocks) /\ k + 1 \in Line /\ k <= NumLines
    BY <1>5 DEF Line
  <2>2. SumTo(F, k + 1) = SumTo(F, k) + SumTo(a[k + 1], NumStocks)
    <3>1. F[k + 1] = SumTo(a[k + 1], NumStocks)
      BY <2>1 DEF LineTotal
    <3> HIDE DEF F, a
    <3> QED BY <3>1, SumToStep
  <2>3. \A s \in 1 .. NumStocks :
          /\ G(k)[s] \in Int
          /\ a[k + 1][s] \in Int
          /\ G(k + 1)[s] = G(k)[s] + a[k + 1][s]
    <3> SUFFICES ASSUME NEW s \in Stock
                 PROVE  /\ SumTo(column(s), k) \in Int
                        /\ a[k + 1][s] \in Int
                        /\ SumTo(column(s), k + 1) = SumTo(column(s), k) + a[k + 1][s]
      BY DEF Stock
    <3>1. column(s)[k + 1] = a[k + 1][s]
      BY <2>1
    <3>2. SumTo(column(s), k + 1) = SumTo(column(s), k) + column(s)[k + 1]
      <4> HIDE DEF column
      <4> QED BY SumToStep
    <3> QED BY <1>1, <1>3, <2>1, <3>1, <3>2
  <2> HIDE DEF F, G, a, column
  <2>4. SumTo(G(k + 1), NumStocks) = SumTo(G(k), NumStocks) + SumTo(a[k + 1], NumStocks)
    BY <2>3, SumToAdd
  <2> QED BY <2>1, <2>2, <2>4
<1>6. NumLines \in T
  <2> HIDE DEF T
  <2> QED BY <1>4, <1>5, NatSetInduction
<1>7. G(NumLines) = [s \in Stock |-> Total(x, s)]
  BY DEF Total
<1>8. SumTo(F, NumLines) = SumTo(G(NumLines), NumStocks)
  <2> HIDE DEF F, G
  <2> QED BY <1>6
<1> HIDE DEF G
<1> QED BY <1>7, <1>8

\* Where no stock has promised more than it holds, the goods cover the promises.
LEMMA CoveredByStocks ==
  ASSUME NEW x \in WarehouseState, \A s \in Stock : Headroom(x, s) >= 0
  PROVE  SumTo([l \in Line |-> LineTotal(x, l)], NumLines) <= SumTo(x.quantity, NumStocks)
<1> DEFINE g == [s \in Stock |-> Total(x, s)]
<1>1. \A s \in 1 .. NumStocks : g[s] \in Int /\ x.quantity[s] \in Int /\ g[s] <= x.quantity[s]
  <2> SUFFICES ASSUME NEW s \in Stock
               PROVE  /\ Total(x, s) \in Int /\ x.quantity[s] \in Int
                      /\ Total(x, s) <= x.quantity[s]
    BY DEF Stock
  <2>1. Total(x, s) \in Nat /\ x.quantity[s] \in Nat
    BY TotalsNat DEF WarehouseState
  <2> QED BY <2>1 DEF Headroom
<1> HIDE DEF g
<1>2. SumTo(g, NumStocks) <= SumTo(x.quantity, NumStocks)
  BY <1>1, SumToMonotone
<1> QED BY <1>2, PromisedIsTotals DEF g
=============================================================================
